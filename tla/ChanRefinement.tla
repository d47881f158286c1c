--------------------------- MODULE ChanRefinement ---------------------------
(***************************************************************************)
(* Chan implements ChannelSpec.  An operation has taken effect once its    *)
(* goroutine has decided it, or another one has claimed its waiter.        *)
(***************************************************************************)
EXTENDS Chan

Claimant(g) == {p \in Goroutines : target[p] # NoWaiter /\ target[p][1] = g}

Decisions == {"ok", "closed", "panic", "default", "closing"}

WaitResult(s) ==
    CASE s = "recvClosed" -> "closed" [] s = "sendClosed" -> "panic" [] OTHER -> "ok"

\* A close panics when it finds the channel closed, not when it starts.
OwnDecision(g) ==
    /\ out[g] \in Decisions
    /\ op[g].kind = "close" /\ out[g] = "panic" => pc[g] = "return"

AbsResult(g) ==
    LET sel == IF op[g].kind = "select" THEN chosen[g] ELSE 1 IN
    IF OwnDecision(g) THEN
        [res |-> out[g],
         sel |-> IF isel[g] # 0 THEN isel[g]
                 ELSE IF out[g] \in {"ok", "closed", "panic", "closing"}
                         /\ pc[g] # "return" THEN Cur(g) ELSE 0,
         val |-> dst[g]]
    ELSE IF alive[g] /\ done(status[g]) THEN
        [res |-> WaitResult(status[g]), sel |-> sel, val |-> dst[g]]
    ELSE IF Claimant(g) # {} THEN
        [res |-> WaitResult(deliver[CHOOSE p \in Claimant(g) : TRUE]), sel |-> sel,
         val |-> dst[g]]
    ELSE [res |-> "pending", sel |-> 0, val |-> <<>>]

Abs == INSTANCE ChannelSpec WITH req <- op, resp <- [g \in Goroutines |-> AbsResult(g)]

\* Every operation takes effect in one step, through exactly one case, while it
\* runs: the locks, queues, claims and wake-ups of z_chan.go implement ChannelSpec.
ImplementsChannelSpec == Abs!AbsSpec
=============================================================================
