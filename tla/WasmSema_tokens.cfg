SPECIFICATION Spec
CONSTANTS
    g1 = g1
    g2 = g2
    g3 = g3
    g4 = g4
    w0 = w0
    w1 = w1
    w2 = w2
    semA = semA
    semB = semB
    list = list
    Gs = {g1, g2, g3}
    Workers = {w0, w1, w2}
    Addrs = {semA, semB, list}
    Owner <- TokensOwner
    Main = g1
    InitSema <- TokensSema
    Programs <- TokensPrograms
    Half = 4
    Start = 7
    None = None
CHECK_DEADLOCK FALSE
INVARIANT NoSleepOnToken
