----------------------------- MODULE MCWasmSema -----------------------------
EXTENDS WasmSema, TLC

CONSTANTS g1, g2, g3, g4, w0, w1, w2, semA, semB, list

acquire(x) == [kind |-> "acquire", addr |-> x, flag |-> FALSE]
acquireLifo(x) == [kind |-> "acquire", addr |-> x, flag |-> TRUE]
release(x) == [kind |-> "release", addr |-> x, flag |-> FALSE]
handoff(x) == [kind |-> "release", addr |-> x, flag |-> TRUE]
wait4(x) == [kind |-> "wait", addr |-> x, flag |-> FALSE]
signal(x) == [kind |-> "one", addr |-> x, flag |-> FALSE]
broadcast(x) == [kind |-> "all", addr |-> x, flag |-> FALSE]

\* A mutex semA with three users on three workers, while main waits for a token of
\* semB that never comes: in the end every G is asleep or gone.
MutexOwner == (g1 :> w0) @@ (g2 :> w0) @@ (g3 :> w1) @@ (g4 :> w2)
MutexSema == (semA :> 1) @@ (semB :> 0) @@ (list :> 0)
MutexProgram ==
    (g1 :> <<acquire(semB)>>)
    @@ (g2 :> <<acquire(semA), release(semA)>>)
    @@ (g3 :> <<acquire(semA), handoff(semA)>>)
    @@ (g4 :> <<acquireLifo(semA), release(semA)>>)

\* A notify list with two waiters, one of them main, and two notifiers.
ListProgram ==
    (g1 :> <<wait4(list)>>) @@ (g3 :> <<wait4(list)>>)
    @@ (g2 :> <<signal(list)>>) @@ (g4 :> <<signal(list), broadcast(list)>>)
MutexPrograms == {MutexProgram, ListProgram}

\* Two tokens for two acquirers, as WaitGroup and RWMutex release them.
TokensOwner == (g1 :> w0) @@ (g2 :> w1) @@ (g3 :> w2)
TokensSema == (semA :> 0) @@ (semB :> 0) @@ (list :> 0)
TokensPrograms ==
    {(g1 :> <<acquire(semA)>>) @@ (g2 :> <<acquire(semA)>>) @@ (g3 :> <<release(semA), release(semA)>>)}

\* g1 acquires semA, which g2 releases, and then semB, which nobody releases.
LateOwner == (g1 :> w0) @@ (g2 :> w1) @@ (g3 :> w1)
LateSema == (semA :> 0) @@ (semB :> 0) @@ (list :> 0)
LatePrograms == {(g1 :> <<acquire(semA), acquire(semB)>>) @@ (g2 :> <<release(semA)>>) @@ (g3 :> <<>>)}
=============================================================================
