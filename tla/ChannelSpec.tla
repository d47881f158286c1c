----------------------------- MODULE ChannelSpec -----------------------------
(***************************************************************************)
(* What channels promise.  An operation is invoked, takes effect in one    *)
(* atomic step through exactly one of its cases, and returns.  A send and  *)
(* a receive that meet take effect together.  There are no locks, queues,  *)
(* waiters or wake-ups here; Chan is shown to implement this.              *)
(***************************************************************************)
EXTENDS Integers, Sequences

CONSTANTS Goroutines, Chans, NilChan, Cap, Menus

VARIABLES closed, buf, req, resp, log, menu

absVars == <<closed, buf, req, resp, log, menu>>

Idle == [kind |-> "none", cases |-> <<>>]
Pending == [res |-> "pending", sel |-> 0, val |-> <<>>]

Result(res, sel, val) == [res |-> res, sel |-> sel, val |-> val]
Value(g, i) == <<g, Len(log[g]) + 1, i>>

\* Case i of the operation of g can still take effect as a send (receive) on c.
Offers(g, i, c, send) ==
    /\ i \in DOMAIN req[g].cases
    /\ req[g].cases[i] = [ch |-> c, send |-> send]
    /\ req[g].kind # "close"
    /\ resp[g] = Pending

Invoke(g) ==
    /\ req[g] = Idle
    /\ Len(log[g]) < Len(menu[g])
    /\ \E o \in menu[g][Len(log[g]) + 1] : req' = [req EXCEPT ![g] = o]
    /\ resp' = [resp EXCEPT ![g] = Pending]
    /\ UNCHANGED <<closed, buf, log>>

Respond(g, r) == resp' = [resp EXCEPT ![g] = r]

\* A value goes straight from a sender to a receiver; none is waiting in the buffer.
HandOff(s, i, r, j, c) ==
    /\ s # r
    /\ Offers(s, i, c, TRUE) /\ Offers(r, j, c, FALSE)
    /\ ~closed[c] /\ buf[c] = <<>>
    /\ resp' = [resp EXCEPT ![s] = Result("ok", i, <<>>),
                            ![r] = Result("ok", j, Value(s, i))]
    /\ UNCHANGED <<closed, buf, req, log>>

Put(g, i, c) ==
    /\ Offers(g, i, c, TRUE)
    /\ ~closed[c] /\ Len(buf[c]) < Cap[c]
    /\ buf' = [buf EXCEPT ![c] = Append(@, Value(g, i))]
    /\ Respond(g, Result("ok", i, <<>>))
    /\ UNCHANGED <<closed, req, log>>

Take(g, i, c) ==
    /\ Offers(g, i, c, FALSE)
    /\ buf[c] # <<>>
    /\ buf' = [buf EXCEPT ![c] = Tail(@)]
    /\ Respond(g, Result("ok", i, Head(buf[c])))
    /\ UNCHANGED <<closed, req, log>>

\* On a closed channel a send panics, and a receive reports it once it is drained.
SendOnClosed(g, i, c) ==
    /\ Offers(g, i, c, TRUE)
    /\ closed[c]
    /\ Respond(g, Result("panic", i, <<>>))
    /\ UNCHANGED <<closed, buf, req, log>>

RecvOnClosed(g, i, c) ==
    /\ Offers(g, i, c, FALSE)
    /\ closed[c] /\ buf[c] = <<>>
    /\ Respond(g, Result("closed", i, <<>>))
    /\ UNCHANGED <<closed, buf, req, log>>

Default(g) ==
    /\ req[g].kind = "try" /\ resp[g] = Pending
    /\ Respond(g, Result("default", 0, <<>>))
    /\ UNCHANGED <<closed, buf, req, log>>

CloseChan(g, c) ==
    /\ req[g].kind = "close" /\ resp[g] = Pending
    /\ req[g].cases[1].ch = c
    /\ ~closed[c]
    /\ closed' = [closed EXCEPT ![c] = TRUE]
    /\ Respond(g, Result("closing", 1, <<>>))
    /\ UNCHANGED <<buf, req, log>>

ClosePanics(g) ==
    /\ req[g].kind = "close" /\ resp[g] = Pending
    /\ req[g].cases[1].ch # NilChan => closed[req[g].cases[1].ch]
    /\ Respond(g, Result("panic", 0, <<>>))
    /\ UNCHANGED <<closed, buf, req, log>>

Return(g) ==
    LET r == resp[g]
        k == IF r.sel = 0 THEN [ch |-> NilChan, send |-> FALSE] ELSE req[g].cases[r.sel]
    IN
    /\ r # Pending
    /\ log' = [log EXCEPT ![g] = Append(@,
                 [ch |-> k.ch, send |-> k.send, res |-> r.res,
                  val |-> IF r.res = "ok" /\ k.send THEN Value(g, r.sel) ELSE r.val])]
    /\ req' = [req EXCEPT ![g] = Idle]
    /\ resp' = [resp EXCEPT ![g] = Pending]
    /\ UNCHANGED <<closed, buf>>

AbsInit ==
    /\ closed = [c \in Chans |-> FALSE]
    /\ buf = [c \in Chans |-> <<>>]
    /\ req = [g \in Goroutines |-> Idle]
    /\ resp = [g \in Goroutines |-> Pending]
    /\ log = [g \in Goroutines |-> <<>>]
    /\ menu \in Menus

Effect(g) ==
    \/ \E c \in Chans : \E i \in DOMAIN req[g].cases :
        \/ Put(g, i, c) \/ Take(g, i, c) \/ SendOnClosed(g, i, c) \/ RecvOnClosed(g, i, c)
        \/ \E r \in Goroutines : \E j \in DOMAIN req[r].cases : HandOff(g, i, r, j, c)
        \/ CloseChan(g, c)
    \/ Default(g) \/ ClosePanics(g)

AbsNext == UNCHANGED menu /\ \E g \in Goroutines : Invoke(g) \/ Effect(g) \/ Return(g)

AbsSpec == AbsInit /\ [][AbsNext]_absVars
=============================================================================
