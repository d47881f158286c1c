----------------------------- MODULE ChanLocks ------------------------------
(***************************************************************************)
(* The lock discipline of z_chan.go, as an inductive invariant: whoever    *)
(* changes a channel holds its mutex, also across the helpers and the      *)
(* passes of a select, and whoever releases it has just published.  This   *)
(* module says what a step must do to keep the invariant, and shows that   *)
(* the steps that leave the channels alone do it.                          *)
(***************************************************************************)
EXTENDS Chan, TLAPS

Cases == [ch : Chans \cup {NilChan}, send : BOOLEAN]

IsFun(f, S) == f = [x \in S |-> f[x]]

\* What the steps need of the types.  Waiters, values and results are left open.
Types ==
    /\ lock \in [Chans -> Goroutines \cup {None}]
    /\ closed \in [Chans -> BOOLEAN] /\ recvReady \in [Chans -> BOOLEAN]
    /\ IsFun(buf, Chans) /\ IsFun(queue, Chans)
    /\ IsFun(pc, Goroutines) /\ IsFun(phase, Goroutines) /\ IsFun(back, Goroutines)
    /\ start \in [Goroutines -> Nat] /\ n \in [Goroutines -> Nat]
    /\ op \in [Goroutines -> Ops \cup {NoOp}]
    /\ menu \in Menus

\* The places where a goroutine holds the channel of its current case.
Inside == {"body", "finish", "ready", "decide", "refill", "close", "drainRecv",
           "drainSend", "remove"}
\* The places of the second pass of a select.
Passing == {"pass", "body", "finish", "ready", "decide", "refill"}

\* The places where no second pass has begun.
Calm == {"idle", "next", "lock", "lockAll", "close", "drainRecv", "drainSend"}

\* What g holds where it is.
Held(g) ==
    /\ pc[g] \in Inside => Chn(g) \in Chans /\ lock[Chn(g)] = g
    /\ pc[g] \in Passing /\ phase[g] = "all" => \A c \in SelectChans(g) : lock[c] = g
    /\ pc[g] \in Calm => phase[g] = "one"
    /\ pc[g] = "lock" => Chn(g) \in Chans
    /\ pc[g] = "pass" => phase[g] = "all"
    /\ pc[g] \in {"finish", "ready"} =>
          /\ back[g] \in {"decide", "drainRecv", "drainSend"}
          /\ back[g] # "decide" => phase[g] = "one"

Exact(c) ==
    lock[c] = None =>
        recvReady[c] = (closed[c] \/ buf[c] # <<>> \/ queue[c].send # <<>>)

Inv == Types /\ (\A g \in Goroutines : Held(g)) /\ (\A c \in Chans : Exact(c))

\* A step of g takes free locks and releases its own.
Locks(g) ==
    \A c \in Chans : \/ lock'[c] = lock[c]
                     \/ lock[c] = None /\ lock'[c] = g
                     \/ lock[c] = g /\ lock'[c] = None

\* A step of g leaves the other goroutines where they are, or wakes them.
Others(g) ==
    \A h \in Goroutines \ {g} :
        /\ pc'[h] = pc[h] \/ (pc[h] = "parked" /\ pc'[h] = "relock")
        /\ op'[h] = op[h] /\ start'[h] = start[h] /\ n'[h] = n[h]
        /\ phase'[h] = phase[h] /\ back'[h] = back[h]

\* Channel c is left alone.
Untouched(c) ==
    /\ lock'[c] = lock[c] /\ recvReady'[c] = recvReady[c] /\ closed'[c] = closed[c]
    /\ buf'[c] = buf[c] /\ queue'[c] = queue[c]

\* Channel c is held after the step, or was just published and released.
Kept(g, c) ==
    \/ Untouched(c)
    \/ lock'[c] = g
    \/ recvReady'[c] = Ready(c)

\* The cases of an operation name channels or nil, and its channels are among Chans.
LEMMA CaseTypes ==
    ASSUME Types, NEW g \in Goroutines
    PROVE  /\ op[g].cases \in Seq(Cases)
           /\ SelectChans(g) \subseteq Chans
           /\ \A i \in DOMAIN op[g].cases :
                op[g].cases[i].ch # NilChan => op[g].cases[i].ch \in SelectChans(g)
<1>1. op[g].cases \in Seq(Cases)
  <2>1. op[g] \in Ops \cup {NoOp} BY DEF Types
  <2>2. CASE op[g] \in Ops BY <2>2 DEF Ops, Cases
  <2>3. CASE op[g] = NoOp BY <2>3 DEF NoOp
  <2> QED BY <2>1, <2>2, <2>3
<1>2. ASSUME NEW i \in DOMAIN op[g].cases PROVE op[g].cases[i].ch \in Chans \cup {NilChan}
  <2>1. op[g].cases[i] \in Cases BY <1>1
  <2> QED BY <2>1 DEF Cases
<1>3. SelectChans(g) \subseteq Chans BY <1>2 DEF SelectChans
<1>4. \A i \in DOMAIN op[g].cases :
         op[g].cases[i].ch # NilChan => op[g].cases[i].ch \in SelectChans(g)
  BY DEF SelectChans
<1> QED BY <1>1, <1>3, <1>4

\* The cyclic index of a pass (selectStart + i, modulo the length) names a case.
LEMMA CurTypes ==
    ASSUME Types, NEW g \in Goroutines, Len(op[g].cases) # 0
    PROVE  /\ Cur(g) \in DOMAIN op[g].cases
           /\ Chn(g) # NilChan => Chn(g) \in SelectChans(g) /\ Chn(g) \in Chans
<1>1. op[g].cases \in Seq(Cases) BY CaseTypes
<1>2. Len(op[g].cases) \in Nat /\ DOMAIN op[g].cases = 1 .. Len(op[g].cases)
  BY <1>1
<1>3. Cur(g) \in DOMAIN op[g].cases
  <2>1. start[g] + n[g] \in Nat BY DEF Types
  <2>2. ((start[g] + n[g]) % Len(op[g].cases)) \in 0 .. (Len(op[g].cases) - 1)
    BY <2>1, <1>2
  <2> QED BY <2>2, <1>2 DEF Cur, CaseIndex
<1> QED BY <1>3, CaseTypes DEF Chn, CurCase

\* A step of g keeps the invariant if g holds, afterwards, what its new place
\* requires, and every channel it touched is still held or was just published.
LEMMA StepKeeps ==
    ASSUME ChanAssumption, NEW g \in Goroutines, Inv, Types', Locks(g), Others(g), Held(g)',
           \A c \in Chans : Kept(g, c)
    PROVE  Inv'
<1>1. \A h \in Goroutines : Held(h)'
  <2> SUFFICES ASSUME NEW h \in Goroutines, h # g PROVE Held(h)'
    OBVIOUS
  <2>1. Held(h) BY DEF Inv
  <2>2. h # None BY DEF ChanAssumption
  <2>3. \A c \in Chans : lock[c] = h => lock'[c] = h BY <2>2 DEF Locks
  <2>4. op'[h] = op[h] /\ start'[h] = start[h] /\ n'[h] = n[h] /\ phase'[h] = phase[h]
        /\ back'[h] = back[h] /\ (pc'[h] = pc[h] \/ pc'[h] = "relock")
    BY DEF Others
  <2>5. Chn(h)' = Chn(h) /\ SelectChans(h)' = SelectChans(h)
    BY <2>4 DEF Chn, CurCase, Cur, CaseIndex, SelectChans
  <2>6. SelectChans(h) \subseteq Chans BY CaseTypes DEF Inv
  <2> QED BY <2>1, <2>3, <2>4, <2>5, <2>6, Zenon DEF Held, Inside, Passing, Calm
<1>2. \A c \in Chans : Exact(c)'
  <2> SUFFICES ASSUME NEW c \in Chans PROVE Exact(c)'
    OBVIOUS
  <2>1. CASE Untouched(c) BY <2>1, Zenon DEF Untouched, Inv, Exact
  <2>2. CASE lock'[c] = g BY <2>2 DEF Exact, ChanAssumption
  <2>3. CASE recvReady'[c] = Ready(c) BY <2>3 DEF Exact, Ready
  <2> QED BY <2>1, <2>2, <2>3 DEF Kept
<1> QED BY <1>1, <1>2 DEF Inv

(***************************************************************************)
(* Where a goroutine may go                                                *)
(***************************************************************************)
\* g moves to another place, and may go on to another case.
Moves(g) ==
    /\ pc' = [pc EXCEPT ![g] = pc'[g]]
    /\ n' = [n EXCEPT ![g] = n'[g]] /\ n'[g] \in Nat
    /\ UNCHANGED <<op, phase, start, back, menu>>

\* The new place asks for no lock that the old one did not give.
MayMove(g) ==
    /\ pc'[g] \in Inside => pc[g] \in Inside /\ n' = n
    /\ pc'[g] \in Passing => pc[g] \in Passing \/ phase[g] = "one"
    /\ pc'[g] \in Calm => phase[g] = "one"
    /\ pc'[g] = "lock" => Chn(g) \in Chans /\ n' = n
    /\ pc'[g] = "pass" => phase[g] = "all"
    /\ pc'[g] \in {"finish", "ready"} => pc[g] \in {"finish", "ready"}

\* A move of g is invisible to the others and keeps its operation.
LEMMA Moving ==
    ASSUME Types, NEW g \in Goroutines, Moves(g)
    PROVE  /\ Others(g)
           /\ SelectChans(g)' = SelectChans(g)
           /\ n' = n => Chn(g)' = Chn(g)
           /\ IsFun(pc', Goroutines) /\ n' \in [Goroutines -> Nat]
<1>1. Others(g) /\ IsFun(pc', Goroutines) /\ n' \in [Goroutines -> Nat]
  BY DEF Moves, Others, Types, IsFun
<1>2. SelectChans(g)' = SelectChans(g) BY DEF Moves, SelectChans
<1>3. n' = n => Chn(g)' = Chn(g) BY DEF Moves, Chn, CurCase, Cur, CaseIndex
<1> QED BY <1>1, <1>2, <1>3

\* A move that leaves the channels alone.
LEMMA QuietMove ==
    ASSUME ChanAssumption, Inv, NEW g \in Goroutines, UNCHANGED chans, Moves(g), MayMove(g)
    PROVE  Inv'
<1>0. Types /\ Held(g) BY DEF Inv
<1>1. Types' BY <1>0, Moving, Zenon DEF Types, chans, Moves, IsFun
<1>2. Held(g)'
  BY <1>0, Moving DEF Held, Moves, MayMove, Inside, Passing, Calm, chans
<1>3. Locks(g) /\ \A c \in Chans : Kept(g, c) BY DEF Locks, Kept, Untouched, chans
<1> QED BY <1>0, <1>1, <1>2, <1>3, Moving, StepKeeps

\* A move that takes a free lock.
LEMMA LockMove ==
    ASSUME ChanAssumption, Inv, NEW g \in Goroutines, Moves(g),
           NEW c \in Chans, lock[c] = None, lock' = [lock EXCEPT ![c] = g],
           UNCHANGED <<closed, buf, recvReady, queue>>,
           \/ pc'[g] \in {"close", "body", "remove"} /\ c = Chn(g) /\ n' = n
           \/ pc'[g] = "lockAll",
           pc'[g] # "remove" => phase[g] = "one"
    PROVE  Inv'
<1>0. Types /\ Held(g) BY DEF Inv
<1>1. Types' BY <1>0, Moving DEF Types, Moves, IsFun
<1>2. lock'[c] = g /\ \A d \in Chans \ {c} : lock'[d] = lock[d] BY <1>0 DEF Types
<1>3. Held(g)' BY <1>0, <1>2, Moving DEF Held, Moves, Inside, Passing, Calm
<1>4. Locks(g) BY <1>2 DEF Locks
<1>5. \A d \in Chans : Kept(g, d) BY <1>2 DEF Kept, Untouched
<1> QED BY <1>0, <1>1, <1>3, <1>4, <1>5, Moving, StepKeeps

\* The places where a goroutine holds nothing, or releases one by one.
Free == {"return", "next", "check", "unlockAll", "relock", "cleanup"}

\* Channel c may have changed, the others not.
OnlyAt(c) == /\ closed' \in [Chans -> BOOLEAN] /\ recvReady' \in [Chans -> BOOLEAN]
             /\ IsFun(buf', Chans) /\ IsFun(queue', Chans)
             /\ \A d \in Chans \ {c} : /\ closed'[d] = closed[d] /\ buf'[d] = buf[d]
                                       /\ recvReady'[d] = recvReady[d]
                                       /\ queue'[d] = queue[d]

\* A move that releases a lock, publishing the channel as it leaves it.
LEMMA UnlockMove ==
    ASSUME ChanAssumption, Inv, NEW g \in Goroutines, Moves(g),
           NEW c \in Chans, lock[c] = g, unlock(c), OnlyAt(c), pc'[g] \in Free,
           pc'[g] = "next" => phase[g] = "one"
    PROVE  Inv'
<1>0. Types /\ Held(g) BY DEF Inv
<1>1. /\ lock' \in [Chans -> Goroutines \cup {None}]
      /\ lock'[c] = None /\ \A d \in Chans \ {c} : lock'[d] = lock[d]
  BY <1>0 DEF Types, unlock
<1>2. Types' BY <1>0, <1>1, Moving, Zenon DEF Types, Moves, OnlyAt
<1>3. Held(g)' BY <1>0, Moving DEF Held, Moves, Inside, Passing, Calm, Free
<1>4. Locks(g) BY <1>1 DEF Locks
<1>5. recvReady'[c] = Ready(c) BY <1>0 DEF Types, unlock
<1>6. \A d \in Chans : Kept(g, d) BY <1>1, <1>5 DEF Kept, Untouched, OnlyAt
<1> QED BY <1>0, <1>2, <1>3, <1>4, <1>6, Moving, StepKeeps

\* A move that changes the channel that g holds.
LEMMA ChangeMove ==
    ASSUME ChanAssumption, Inv, NEW g \in Goroutines, Moves(g), MayMove(g),
           pc[g] \in Inside, UNCHANGED lock, OnlyAt(Chn(g))
    PROVE  Inv'
<1>0. Types /\ Held(g) BY DEF Inv
<1>1. lock[Chn(g)] = g BY <1>0 DEF Held
<1>2. Types' BY <1>0, Moving DEF Types, Moves, OnlyAt
<1>3. Held(g)' BY <1>0, Moving DEF Held, Moves, MayMove, Inside, Passing, Calm
<1>4. Locks(g) BY DEF Locks
<1>5. \A d \in Chans : Kept(g, d) BY <1>1 DEF Kept, Untouched, OnlyAt
<1> QED BY <1>0, <1>2, <1>3, <1>4, <1>5, Moving, StepKeeps

(***************************************************************************)
(* Steps that leave the channels alone                                     *)
(***************************************************************************)
QuietStep(g) ==
    \/ TrySkip(g) \/ TryCase(g) \/ TryFailed(g) \/ FinishStatus(g)
    \/ SendClosed(g) \/ SendBlocks(g) \/ RefillDone(g) \/ RecvEmpty(g)
    \/ PassCase(g) \/ PassDecided(g) \/ CleanedUp(g)
    \/ Relock(g) \/ Park(g) \/ Woken(g) \/ Destroy(g) \/ DrainedRecv(g)
    \/ SpuriousWakeup(g)

\* The steps between the locked sections, and those inside them that only decide.
LEMMA QuietSteps ==
    ASSUME ChanAssumption, Inv, NEW g \in Goroutines, UNCHANGED menu, QuietStep(g)
    PROVE  Inv'
<1>0. Types /\ Held(g) BY DEF Inv
<1>1. n[g] \in Nat /\ n[g] + 1 \in Nat /\ Len(op[g].cases) \in Nat
  <2>1. op[g].cases \in Seq(Cases) BY <1>0, CaseTypes
  <2>2. Len(op[g].cases) \in Nat BY <2>1
  <2> QED BY <1>0, <2>2 DEF Types
<1>2. CASE TrySkip(g)
  <2>1. pc' = pc /\ pc[g] = "next" /\ n' = [n EXCEPT ![g] = n[g] + 1]
        /\ UNCHANGED <<chans, op, phase, start, back>>
    BY <1>2 DEF TrySkip, finishing
  <2>2. Moves(g) BY <1>0, <1>1, <2>1 DEF Types, IsFun, Moves
  <2>3. MayMove(g) BY <1>0, <2>1 DEF MayMove, Held, Inside, Passing, Calm
  <2> QED BY <2>1, <2>2, <2>3, QuietMove
<1>3. CASE TryCase(g)
  <2>1. Moves(g) /\ pc'[g] = "lock" /\ n' = n
    BY <1>0, <1>3 DEF Goto, Types, IsFun, Moves, TryCase, control, finishing
  <2>2. pc[g] = "next" /\ Chn(g) # NilChan /\ n[g] < Len(op[g].cases) /\ UNCHANGED chans
    BY <1>3 DEF TryCase, Chn
  <2>3. Chn(g) \in Chans BY <1>0, <1>1, <2>2, CurTypes
  <2>4. MayMove(g) BY <1>0, <2>1, <2>2, <2>3 DEF MayMove, Held, Inside, Passing, Calm
  <2> QED BY <2>1, <2>2, <2>4, QuietMove
<1>4. CASE TryFailed(g)
  <2>1. PICK l \in {"return", "forever", "lockAll"} : Goto(g, l) BY <1>4 DEF TryFailed
  <2>2. pc[g] = "next" /\ UNCHANGED chans /\ UNCHANGED <<op, phase, start, n, back>>
    BY <1>4 DEF TryFailed, place, finishing
  <2>3. Moves(g) /\ pc'[g] = l BY <1>0, <2>1, <2>2 DEF Goto, Types, IsFun, Moves
  <2>4. MayMove(g) BY <1>0, <2>2, <2>3 DEF MayMove, Held, Inside, Passing, Calm
  <2> QED BY <2>2, <2>3, <2>4, QuietMove
<1>5. CASE FinishStatus(g)
  <2>1. Moves(g) /\ pc'[g] = "ready" /\ n' = n
    BY <1>0, <1>5 DEF Goto, Types, IsFun, Moves, FinishStatus, control, finishing
  <2>2. pc[g] = "finish" /\ UNCHANGED chans BY <1>5 DEF FinishStatus
  <2>3. MayMove(g) BY <1>0, <2>1, <2>2 DEF MayMove, Held, Inside, Passing, Calm
  <2> QED BY <2>1, <2>2, <2>3, QuietMove
<1>6. CASE SendClosed(g)
  <2>1. Moves(g) /\ pc'[g] = "decide" /\ n' = n
    BY <1>0, <1>6 DEF Goto, Types, IsFun, Moves, SendClosed, Decide, place, finishing
  <2>2. pc[g] = "body" /\ UNCHANGED chans BY <1>6 DEF SendClosed
  <2>3. MayMove(g) BY <1>0, <2>1, <2>2 DEF MayMove, Held, Inside, Passing, Calm
  <2> QED BY <2>1, <2>2, <2>3, QuietMove
<1>7. CASE SendBlocks(g)
  <2>1. Moves(g) /\ pc'[g] = "decide" /\ n' = n
    BY <1>0, <1>7 DEF Goto, Types, IsFun, Moves, SendBlocks, Decide, place, finishing
  <2>2. pc[g] = "body" /\ UNCHANGED chans BY <1>7 DEF SendBlocks
  <2>3. MayMove(g) BY <1>0, <2>1, <2>2 DEF MayMove, Held, Inside, Passing, Calm
  <2> QED BY <2>1, <2>2, <2>3, QuietMove
<1>8. CASE RefillDone(g)
  <2>1. Moves(g) /\ pc'[g] = "decide" /\ n' = n
    BY <1>0, <1>8 DEF Goto, Types, IsFun, Moves, RefillDone, control, finishing
  <2>2. pc[g] = "refill" /\ UNCHANGED chans BY <1>8 DEF RefillDone
  <2>3. MayMove(g) BY <1>0, <2>1, <2>2 DEF MayMove, Held, Inside, Passing, Calm
  <2> QED BY <2>1, <2>2, <2>3, QuietMove
<1>9. CASE RecvEmpty(g)
  <2>1. Moves(g) /\ pc'[g] = "decide" /\ n' = n
    BY <1>0, <1>9 DEF Goto, Types, IsFun, Moves, RecvEmpty, Decide, place, finishing
  <2>2. pc[g] = "body" /\ UNCHANGED chans BY <1>9 DEF RecvEmpty
  <2>3. MayMove(g) BY <1>0, <2>1, <2>2 DEF MayMove, Held, Inside, Passing, Calm
  <2> QED BY <2>1, <2>2, <2>3, QuietMove
<1>10. CASE DrainedRecv(g)
  <2>1. Moves(g) /\ pc'[g] = "drainSend" /\ n' = n
    BY <1>0, <1>10 DEF Goto, Types, IsFun, Moves, DrainedRecv, control, finishing
  <2>2. pc[g] = "drainRecv" /\ UNCHANGED chans BY <1>10 DEF DrainedRecv
  <2>3. MayMove(g) BY <1>0, <2>1, <2>2 DEF MayMove, Held, Inside, Passing, Calm
  <2> QED BY <2>1, <2>2, <2>3, QuietMove
<1>11. CASE CleanedUp(g)
  <2>1. Moves(g) /\ pc'[g] = "destroy" /\ n' = n
    BY <1>0, <1>11 DEF Goto, Types, IsFun, Moves, CleanedUp, control, finishing
  <2>2. pc[g] = "cleanup" /\ UNCHANGED chans BY <1>11 DEF CleanedUp
  <2>3. MayMove(g) BY <1>0, <2>1, <2>2 DEF MayMove, Held, Inside, Passing, Calm
  <2> QED BY <2>1, <2>2, <2>3, QuietMove
<1>12. CASE Relock(g)
  <2>1. Moves(g) /\ pc'[g] = "check" /\ n' = n
    BY <1>0, <1>12 DEF Goto, Types, IsFun, Moves, Relock, control, finishing
  <2>2. pc[g] = "relock" /\ UNCHANGED chans BY <1>12 DEF Relock
  <2>3. MayMove(g) BY <1>0, <2>1, <2>2 DEF MayMove, Held, Inside, Passing, Calm
  <2> QED BY <2>1, <2>2, <2>3, QuietMove
<1>13. CASE Park(g)
  <2>1. Moves(g) /\ pc'[g] = "parked" /\ n' = n
    BY <1>0, <1>13 DEF Goto, Types, IsFun, Moves, Park, control, finishing
  <2>2. pc[g] = "check" /\ UNCHANGED chans BY <1>13 DEF Park
  <2>3. MayMove(g) BY <1>0, <2>1, <2>2 DEF MayMove, Held, Inside, Passing, Calm
  <2> QED BY <2>1, <2>2, <2>3, QuietMove
<1>14. CASE Destroy(g)
  <2>1. Moves(g) /\ pc'[g] = "return" /\ n' = n
    BY <1>0, <1>14 DEF Goto, Types, IsFun, Moves, Destroy, control, finishing
  <2>2. pc[g] = "destroy" /\ UNCHANGED chans BY <1>14 DEF Destroy
  <2>3. MayMove(g) BY <1>0, <2>1, <2>2 DEF MayMove, Held, Inside, Passing, Calm
  <2> QED BY <2>1, <2>2, <2>3, QuietMove
<1>15. CASE SpuriousWakeup(g)
  <2>1. Moves(g) /\ pc'[g] = "relock" /\ n' = n
    BY <1>0, <1>15 DEF Goto, Types, IsFun, Moves, SpuriousWakeup, control, finishing
  <2>2. pc[g] = "parked" /\ UNCHANGED chans BY <1>15 DEF SpuriousWakeup
  <2>3. MayMove(g) BY <1>0, <2>1, <2>2 DEF MayMove, Held, Inside, Passing, Calm
  <2> QED BY <2>1, <2>2, <2>3, QuietMove
<1>16. CASE PassCase(g)
  <2>1. pc[g] = "pass" /\ n[g] < Len(op[g].cases) /\ UNCHANGED <<chans, op, phase, start, back>>
    BY <1>16 DEF PassCase, finishing
  <2>2. phase[g] = "all" BY <1>0, <2>1 DEF Held
  <2>3. CASE pc' = pc /\ n' = [n EXCEPT ![g] = n[g] + 1]
    <3>1. Moves(g) BY <1>0, <1>1, <2>1, <2>3 DEF Types, IsFun, Moves
    <3>2. MayMove(g) BY <2>1, <2>2, <2>3 DEF MayMove, Inside, Passing, Calm
    <3> QED BY <2>1, <3>1, <3>2, QuietMove
  <2>4. CASE Chn(g) # NilChan /\ Goto(g, "body") /\ n' = n
    <3>1. Moves(g) /\ pc'[g] = "body" BY <1>0, <2>1, <2>4 DEF Goto, Types, IsFun, Moves
    <3>2. Types' BY <1>0, <2>1, <3>1, Moving, Zenon DEF Types, chans, Moves, IsFun
    <3>3. Chn(g) \in SelectChans(g) /\ Chn(g) \in Chans BY <1>0, <1>1, <2>1, <2>4, CurTypes
    <3>4. \A c \in SelectChans(g) : lock[c] = g BY <1>0, <2>1, <2>2 DEF Held, Passing
    <3>5. Held(g)'
      BY <1>0, <2>1, <2>2, <2>4, <3>1, <3>3, <3>4, Moving DEF Held, Moves, Inside, Calm, chans
    <3>6. Locks(g) /\ \A c \in Chans : Kept(g, c) BY <2>1 DEF Locks, Kept, Untouched, chans
    <3> QED BY <1>0, <3>1, <3>2, <3>5, <3>6, Moving, StepKeeps
  <2> QED BY <1>16, <2>3, <2>4 DEF PassCase, Chn
<1>17. CASE PassDecided(g)
  <2>1. pc[g] = "decide" /\ phase[g] = "all" /\ UNCHANGED <<chans, op, phase, start, back>>
    BY <1>17 DEF PassDecided, finishing
  <2>2. CASE Goto(g, "pass") /\ n' = [n EXCEPT ![g] = n[g] + 1]
    <3>1. Moves(g) /\ pc'[g] = "pass" BY <1>0, <1>1, <2>1, <2>2 DEF Goto, Types, IsFun, Moves
    <3>2. MayMove(g) BY <2>1, <3>1 DEF MayMove, Inside, Passing, Calm
    <3> QED BY <2>1, <3>1, <3>2, QuietMove
  <2>3. CASE Goto(g, "unlockAll") /\ n' = n
    <3>1. Moves(g) /\ pc'[g] = "unlockAll" BY <1>0, <2>1, <2>3 DEF Goto, Types, IsFun, Moves
    <3>2. MayMove(g) BY <3>1 DEF MayMove, Inside, Passing, Calm
    <3> QED BY <2>1, <3>1, <3>2, QuietMove
  <2> QED BY <1>17, <2>2, <2>3 DEF PassDecided
<1>18. CASE Woken(g)
  <2>1. PICK l \in {"cleanup", "destroy"} : Goto(g, l) BY <1>18 DEF Woken
  <2>2. n' = [n EXCEPT ![g] = 0] /\ UNCHANGED <<chans, op, phase, start, back>>
    BY <1>18 DEF Woken, finishing
  <2>3. Moves(g) /\ pc'[g] = l BY <1>0, <2>1, <2>2 DEF Goto, Types, IsFun, Moves
  <2>4. MayMove(g) BY <2>3 DEF MayMove, Inside, Passing, Calm
  <2> QED BY <2>2, <2>3, <2>4, QuietMove
<1> QED
  BY <1>2, <1>3, <1>4, <1>5, <1>6, <1>7, <1>8, <1>9, <1>10, <1>11, <1>12, <1>13, <1>14, <1>15,
     <1>16, <1>17, <1>18
  DEF QuietStep
=============================================================================
