------------------------------- MODULE Chan --------------------------------
(***************************************************************************)
(* Go channels of the hosted runtime (runtime/internal/runtime/z_chan.go,  *)
(* chan_recv_ready.go, chan_sync_hosted.go).                               *)
(*                                                                         *)
(* Each goroutine runs operations one after the other.  An operation is a  *)
(* list of cases: ChanSend and ChanRecv ("plain") have one, ChanTrySend,   *)
(* ChanTryRecv and TrySelect ("try") and Select ("select") have any        *)
(* number, ChanClose ("close") names its channel in one.  A step is the    *)
(* part of the code between two points where another goroutine can look:   *)
(* taking a channel lock, claiming a waiter, writing its status, signalling*)
(* it, and releasing the lock are steps of their own.                      *)
(*                                                                         *)
(* A waiter <<g, i>> is the chanWaiter of case i of goroutine g.  Its      *)
(* status, signal and (for a select) selectState are per goroutine, since  *)
(* a goroutine waits in one operation at a time.                           *)
(***************************************************************************)
EXTENDS Integers, Sequences, FiniteSets

CONSTANTS
    Goroutines,
    Chans,      \* channels, named by their addresses
    NilChan,    \* the nil channel
    Cap,        \* dataqsiz of each channel
    Menus,      \* bound: programs, giving each goroutine the choices for its successive operations
    None        \* no goroutine

Ops == [kind : {"plain", "try", "select", "close"},
        cases : Seq([ch : Chans \cup {NilChan}, send : BOOLEAN])]

ASSUME ChanAssumption ==
    /\ Chans \subseteq Nat
    /\ NilChan \notin Chans
    /\ None \notin Goroutines
    /\ Cap \in [Chans -> Nat]
    /\ \A m \in Menus : m \in [Goroutines -> Seq(SUBSET Ops)]
    /\ \A m \in Menus : \A g \in Goroutines : \A i \in DOMAIN m[g] : \A o \in m[g][i] :
          o.kind \in {"plain", "close"} => Len(o.cases) = 1

VARIABLES
    closed, buf, recvReady, lock,   \* of a Chan
    queue,                          \* recvq and sendq of a Chan
    status, chosen,                 \* of a waiter or selectState
    dst,                            \* the memory its value is received into
    sig,                            \* holder of its chanSignal mutex
    alive,                          \* its signal is initialised, not yet destroyed
    pc, op, phase, start, n,        \* where a goroutine is in its operation
    out, isel,                      \* its result and the case that produced it
    target, deliver, back,          \* the waiter it completes, and the way back
    log, known,                     \* history: results, closes known at the start
    menu                            \* the program that runs, chosen at the start

chans == <<closed, buf, recvReady, lock, queue>>
waiters == <<status, chosen, dst, sig, alive>>
place == <<op, phase, start, n>>
control == <<op, phase, start, n, out, isel>>
finishing == <<target, deliver, back>>
history == <<log, known>>
vars == <<closed, buf, recvReady, lock, queue, status, chosen, dst, sig, alive,
          pc, op, phase, start, n, out, isel, target, deliver, back, log, known, menu>>

done(s) == s \notin {"pending", "claimed"}

NoOp == [kind |-> "none", cases |-> <<>>]
Zero == <<>>
NoWaiter == <<>>
Value(w) == <<w[1], Len(log[w[1]]) + 1, w[2]>>

\* Case number n of the pass, counted cyclically from the random start.
CaseIndex(g, i) == 1 + ((start[g] + i) % Len(op[g].cases))
Cur(g) == CaseIndex(g, n[g])
Case(w) == op[w[1]].cases[w[2]]
CurCase(g) == op[g].cases[Cur(g)]
SelectChans(g) == {op[g].cases[i].ch : i \in DOMAIN op[g].cases} \ {NilChan}

Goto(g, l) == pc' = [pc EXCEPT ![g] = l]

\* publishRecvReady for the state the channel is left in.
Ready(c) == closed'[c] \/ buf'[c] # <<>> \/ queue'[c].send # <<>>

\* Mutated form: the mutex is released without publishing.
UnlockSilent(c) ==
    /\ lock' = [lock EXCEPT ![c] = None]
    /\ UNCHANGED recvReady

\* unlock: publish the readiness, release the mutex.
unlock(c) ==
    /\ recvReady' = [recvReady EXCEPT ![c] = Ready(c)]
    /\ lock' = [lock EXCEPT ![c] = None]

(***************************************************************************)
(* Start of an operation                                                   *)
(***************************************************************************)
SelectStart(g, len) ==
    \E s \in 0 .. (IF len <= 1 THEN 0 ELSE len - 1) : start' = [start EXCEPT ![g] = s]

\* A plain operation on nil blocks forever.
Begin(g) ==
    /\ pc[g] = "idle"
    /\ Len(log[g]) + 1 \in DOMAIN menu[g]
    /\ \E o \in menu[g][Len(log[g]) + 1] :
        /\ op' = [op EXCEPT ![g] = o]
        /\ SelectStart(g, Len(o.cases))
        /\ Goto(g, IF o.kind \in {"try", "select"} THEN "next"
                   ELSE IF o.cases[1].ch \in Chans THEN "lock"
                   ELSE IF o.kind = "close" THEN "return" ELSE "forever")
        /\ out' = [out EXCEPT ![g] = IF o.kind = "close" THEN "panic" ELSE "none"]
    /\ n' = [n EXCEPT ![g] = 0]
    /\ dst' = [dst EXCEPT ![g] = Zero]
    /\ known' = [known EXCEPT ![g] =
                    {c \in Chans : \E h \in Goroutines : \E i \in DOMAIN log[h] :
                        log[h][i].ch = c /\ log[h][i].res \in {"closed", "closing"}}]
    /\ UNCHANGED <<chans, status, chosen, sig, alive, phase, isel, finishing, log>>

(***************************************************************************)
(* TrySelect, ChanTrySend, ChanTryRecv                                     *)
(***************************************************************************)
\* A nil channel, and a receive whose channel is not ready, is skipped unlocked.
TrySkip(g) ==
    /\ pc[g] = "next"
    /\ n[g] < Len(op[g].cases)
    /\ CurCase(g).ch # NilChan => ~CurCase(g).send /\ ~recvReady[CurCase(g).ch]
    /\ n' = [n EXCEPT ![g] = @ + 1]
    /\ UNCHANGED <<chans, waiters, pc, op, phase, start, out, isel, finishing, history>>

TryCase(g) ==
    /\ pc[g] = "next"
    /\ n[g] < Len(op[g].cases)
    /\ CurCase(g).ch # NilChan
    /\ CurCase(g).send \/ recvReady[CurCase(g).ch]
    /\ Goto(g, "lock")
    /\ UNCHANGED <<chans, waiters, control, finishing, history>>

\* No case was ready: default, or on to the blocking part of Select.
TryFailed(g) ==
    /\ pc[g] = "next"
    /\ n[g] = Len(op[g].cases)
    /\ \/ /\ op[g].kind = "try"
          /\ Goto(g, "return")
          /\ out' = [out EXCEPT ![g] = "default"]
       \/ /\ op[g].kind = "select"
          /\ Goto(g, IF SelectChans(g) = {} THEN "forever" ELSE "lockAll")
          /\ UNCHANGED out
    /\ UNCHANGED <<chans, waiters, place, isel, finishing, history>>

LockChan(g) ==
    /\ pc[g] = "lock"
    /\ lock[CurCase(g).ch] = None
    /\ lock' = [lock EXCEPT ![CurCase(g).ch] = g]
    /\ Goto(g, IF op[g].kind = "close" THEN "close" ELSE "body")
    /\ UNCHANGED <<closed, buf, recvReady, queue, waiters, control, finishing, history>>

(***************************************************************************)
(* chanTrySendLocked, chanTryRecvLocked, the drain loops of ChanClose.     *)
(* Probing(g): the loop is about to dequeue from queue[Chn(g)][Side(g)].   *)
(***************************************************************************)
Chn(g) == CurCase(g).ch
Side(g) == IF pc[g] = "drainRecv" \/ (pc[g] = "body" /\ CurCase(g).send)
           THEN "recv" ELSE "send"

Probing(g) ==
    \/ pc[g] \in {"drainRecv", "drainSend"}
    \/ pc[g] = "refill" /\ Len(buf[Chn(g)]) < Cap[Chn(g)]
    \/ pc[g] = "body" /\ CurCase(g).send /\ ~closed[Chn(g)]
    \/ pc[g] = "body" /\ ~CurCase(g).send /\ Cap[Chn(g)] = 0

First(g) == queue[Chn(g)][Side(g)][1]
dequeue(g) == queue' = [queue EXCEPT ![Chn(g)][Side(g)] = Tail(@)]
IsSelect(w) == op[w[1]].kind = "select"

\* The dequeued waiter's select was already claimed: drop it, try the next one.
DropClaimed(g) ==
    /\ Probing(g)
    /\ queue[Chn(g)][Side(g)] # <<>>
    /\ IsSelect(First(g))
    /\ sig[First(g)[1]] = None
    /\ status[First(g)[1]] # "pending"
    /\ dequeue(g)
    /\ UNCHANGED <<closed, buf, recvReady, lock, waiters, pc, control, finishing,
                   history>>

\* Mutated form: the case that was claimed is not recorded.
ClaimUnrecorded(w) ==
    /\ IsSelect(w) => sig[w[1]] = None /\ status[w[1]] = "pending"
    /\ status' = IF IsSelect(w) THEN [status EXCEPT ![w[1]] = "claimed"] ELSE status
    /\ UNCHANGED chosen

\* claimWaiter, under the select's signal lock; a plain waiter has one claimant.
claimWaiter(w) ==
    IF IsSelect(w)
    THEN /\ sig[w[1]] = None
         /\ status[w[1]] = "pending"
         /\ status' = [status EXCEPT ![w[1]] = "claimed"]
         /\ chosen' = [chosen EXCEPT ![w[1]] = w[2]]
    ELSE UNCHANGED <<status, chosen>>

\* The value moved when waiter w is claimed, and the status it will be given.
CopyElem(g, w) ==
    /\ dst' = CASE pc[g] = "body" /\ CurCase(g).send ->
                       [dst EXCEPT ![w[1]] = Value(<<g, Cur(g)>>)]
                [] pc[g] = "body" /\ ~CurCase(g).send -> [dst EXCEPT ![g] = Value(w)]
                [] pc[g] = "drainRecv" -> [dst EXCEPT ![w[1]] = Zero]
                [] OTHER -> dst
    /\ buf' = IF pc[g] = "refill" THEN [buf EXCEPT ![Chn(g)] = Append(@, Value(w))]
              ELSE buf
    /\ deliver' = [deliver EXCEPT ![g] =
                     CASE pc[g] = "body" /\ CurCase(g).send -> "recvOK"
                       [] pc[g] = "drainRecv" -> "recvClosed"
                       [] pc[g] = "drainSend" -> "sendClosed"
                       [] OTHER -> "sendOK"]
    /\ out' = IF pc[g] = "body" THEN [out EXCEPT ![g] = "ok"] ELSE out

TakeWaiter(g) ==
    /\ Probing(g)
    /\ queue[Chn(g)][Side(g)] # <<>>
    /\ claimWaiter(First(g))
    /\ CopyElem(g, First(g))
    /\ dequeue(g)
    /\ target' = [target EXCEPT ![g] = First(g)]
    /\ back' = [back EXCEPT ![g] = IF pc[g] \in {"body", "refill"} THEN "decide"
                                   ELSE pc[g]]
    /\ Goto(g, "finish")
    /\ UNCHANGED <<closed, recvReady, lock, sig, alive, place, isel, history>>

\* Mutated form: the signal lock is released before the waiter is signalled.
FinishStatusUnlocked(g) ==
    LET h == target[g][1] IN
    /\ pc[g] = "finish"
    /\ sig[h] = None
    /\ status' = [status EXCEPT ![h] = deliver[g]]
    /\ Goto(g, "ready")
    /\ UNCHANGED <<chans, chosen, dst, sig, alive, control, finishing, history>>

\* finish: the status is written and the waiter signalled under its signal lock.
FinishStatus(g) ==
    LET h == target[g][1] IN
    /\ pc[g] = "finish"
    /\ sig[h] = None
    /\ sig' = [sig EXCEPT ![h] = g]
    /\ status' = [status EXCEPT ![h] = deliver[g]]
    /\ Goto(g, "ready")
    /\ UNCHANGED <<chans, chosen, dst, alive, control, finishing, history>>

FinishReady(g) ==
    LET h == target[g][1] IN
    /\ pc[g] = "ready"
    /\ sig' = [sig EXCEPT ![h] = IF @ = g THEN None ELSE @]
    /\ pc' = [pc EXCEPT ![g] = back[g],
                        ![h] = IF @ = "parked" THEN "relock" ELSE @]
    /\ target' = [target EXCEPT ![g] = NoWaiter]
    /\ deliver' = [deliver EXCEPT ![g] = "pending"]
    /\ back' = [back EXCEPT ![g] = "idle"]
    /\ UNCHANGED <<chans, status, chosen, dst, alive, control, history>>

Decide(g, o) ==
    /\ out' = [out EXCEPT ![g] = o]
    /\ Goto(g, "decide")

SendClosed(g) ==
    /\ pc[g] = "body" /\ CurCase(g).send
    /\ closed[Chn(g)]
    /\ Decide(g, "panic")
    /\ UNCHANGED <<chans, waiters, place, isel, finishing, history>>

SendBuffer(g) ==
    /\ pc[g] = "body" /\ CurCase(g).send
    /\ ~closed[Chn(g)] /\ queue[Chn(g)].recv = <<>>
    /\ Len(buf[Chn(g)]) < Cap[Chn(g)]
    /\ buf' = [buf EXCEPT ![Chn(g)] = Append(@, Value(<<g, Cur(g)>>))]
    /\ Decide(g, "ok")
    /\ UNCHANGED <<closed, recvReady, lock, queue, waiters, place, isel, finishing,
                   history>>

SendBlocks(g) ==
    /\ pc[g] = "body" /\ CurCase(g).send
    /\ ~closed[Chn(g)] /\ queue[Chn(g)].recv = <<>>
    /\ Len(buf[Chn(g)]) >= Cap[Chn(g)]
    /\ Decide(g, "block")
    /\ UNCHANGED <<chans, waiters, place, isel, finishing, history>>

RecvBuffer(g) ==
    /\ pc[g] = "body" /\ ~CurCase(g).send
    /\ buf[Chn(g)] # <<>>
    /\ dst' = [dst EXCEPT ![g] = Head(buf[Chn(g)])]
    /\ buf' = [buf EXCEPT ![Chn(g)] = Tail(@)]
    /\ out' = [out EXCEPT ![g] = "ok"]
    /\ Goto(g, "refill")
    /\ UNCHANGED <<closed, recvReady, lock, queue, status, chosen, sig, alive, place,
                   isel, finishing, history>>

\* No sender to refill the buffer from.
RefillDone(g) ==
    /\ pc[g] = "refill"
    /\ queue[Chn(g)].send = <<>>
    /\ Goto(g, "decide")
    /\ UNCHANGED <<chans, waiters, control, finishing, history>>

RecvEmpty(g) ==
    /\ pc[g] = "body" /\ ~CurCase(g).send
    /\ buf[Chn(g)] = <<>>
    /\ Cap[Chn(g)] = 0 => queue[Chn(g)].send = <<>>
    /\ Decide(g, IF closed[Chn(g)] THEN "closed" ELSE "block")
    /\ dst' = IF closed[Chn(g)] THEN [dst EXCEPT ![g] = Zero] ELSE dst
    /\ UNCHANGED <<chans, status, chosen, sig, alive, place, isel, finishing, history>>

(***************************************************************************)
(* After the locked part: TrySelect, ChanSend, ChanRecv                    *)
(***************************************************************************)
Decided(g) ==
    /\ pc[g] = "decide" /\ phase[g] = "one"
    /\ out[g] # "block"
    /\ isel' = [isel EXCEPT ![g] = Cur(g)]
    /\ UNCHANGED <<closed, buf, queue, waiters, place, out, finishing, history>>
    /\ unlock(Chn(g))
    /\ Goto(g, "return")

TryBlocked(g) ==
    /\ pc[g] = "decide" /\ phase[g] = "one"
    /\ out[g] = "block" /\ op[g].kind # "plain"
    /\ n' = [n EXCEPT ![g] = @ + 1]
    /\ UNCHANGED <<closed, buf, queue, waiters, op, phase, start, out, isel, finishing,
                   history>>
    /\ unlock(Chn(g))
    /\ Goto(g, "next")

\* newChanWaiter initialises and locks the signal; it stays locked until the wait.
PlainBlocks(g) ==
    LET side == IF CurCase(g).send THEN "send" ELSE "recv" IN
    /\ pc[g] = "decide"
    /\ out[g] = "block" /\ op[g].kind = "plain"
    /\ status' = [status EXCEPT ![g] = "pending"]
    /\ alive' = [alive EXCEPT ![g] = TRUE]
    /\ sig' = [sig EXCEPT ![g] = g]
    /\ queue' = [queue EXCEPT ![Chn(g)][side] = Append(@, <<g, 1>>)]
    /\ UNCHANGED <<closed, buf, chosen, dst, control, finishing, history>>
    /\ unlock(Chn(g))
    /\ Goto(g, "check")

(***************************************************************************)
(* Select                                                                  *)
(***************************************************************************)
\* Mutated form: the channels are locked in the order of the cases.
LockNextCase(g, c) ==
    LET at(d) == {i \in DOMAIN op[g].cases : op[g].cases[i].ch = d} IN
    /\ pc[g] = "lockAll"
    /\ lock[c] = None
    /\ \A d \in SelectChans(g) : (\E i \in at(d) : \A j \in at(c) : i < j) => lock[d] = g
    /\ lock' = [lock EXCEPT ![c] = g]
    /\ UNCHANGED <<closed, buf, recvReady, queue, waiters, control, pc, finishing,
                   history>>

\* lockSelectChannels: in the order of the channels' addresses, each one once.
LockNext(g, c) ==
    /\ pc[g] = "lockAll"
    /\ lock[c] = None
    /\ \A d \in SelectChans(g) : d < c => lock[d] = g
    /\ lock' = [lock EXCEPT ![c] = g]
    /\ UNCHANGED <<closed, buf, recvReady, queue, waiters, control, pc, finishing,
                   history>>

\* Mutated form: no second pass once the channels are locked.
LockedAllNoPass(g) ==
    /\ pc[g] = "lockAll"
    /\ \A c \in SelectChans(g) : lock[c] = g
    /\ SelectStart(g, Len(op[g].cases))
    /\ n' = [n EXCEPT ![g] = Len(op[g].cases)]
    /\ phase' = [phase EXCEPT ![g] = "all"]
    /\ Goto(g, "pass")
    /\ UNCHANGED <<chans, waiters, op, out, isel, finishing, history>>

LockedAll(g) ==
    /\ pc[g] = "lockAll"
    /\ \A c \in SelectChans(g) : lock[c] = g
    /\ SelectStart(g, Len(op[g].cases))
    /\ n' = [n EXCEPT ![g] = 0]
    /\ phase' = [phase EXCEPT ![g] = "all"]
    /\ Goto(g, "pass")
    /\ UNCHANGED <<chans, waiters, op, out, isel, finishing, history>>

\* The second pass, with every channel locked.
PassCase(g) ==
    /\ pc[g] = "pass"
    /\ n[g] < Len(op[g].cases)
    /\ \/ /\ CurCase(g).ch = NilChan
          /\ n' = [n EXCEPT ![g] = @ + 1]
          /\ UNCHANGED pc
       \/ /\ CurCase(g).ch # NilChan
          /\ Goto(g, "body")
          /\ UNCHANGED n
    /\ UNCHANGED <<chans, waiters, op, phase, start, out, isel, finishing, history>>

PassDecided(g) ==
    /\ pc[g] = "decide" /\ phase[g] = "all"
    /\ \/ /\ out[g] = "block"
          /\ n' = [n EXCEPT ![g] = @ + 1]
          /\ Goto(g, "pass")
          /\ UNCHANGED isel
       \/ /\ out[g] # "block"
          /\ isel' = [isel EXCEPT ![g] = Cur(g)]
          /\ Goto(g, "unlockAll")
          /\ UNCHANGED n
    /\ UNCHANGED <<chans, waiters, op, phase, start, out, finishing, history>>

\* newSelectState, and one waiter per case enqueued in the order of the pass.
SelectWaiters(g, c, send) ==
    LET order == [i \in 1 .. Len(op[g].cases) |-> <<g, CaseIndex(g, i - 1)>>]
    IN  SelectSeq(order, LAMBDA w : Case(w) = [ch |-> c, send |-> send])

SelectEnqueue(g) ==
    /\ pc[g] = "pass"
    /\ n[g] = Len(op[g].cases)
    /\ status' = [status EXCEPT ![g] = "pending"]
    /\ alive' = [alive EXCEPT ![g] = TRUE]
    /\ queue' = [c \in Chans |->
                    IF c \in SelectChans(g)
                    THEN [recv |-> queue[c].recv \o SelectWaiters(g, c, FALSE),
                          send |-> queue[c].send \o SelectWaiters(g, c, TRUE)]
                    ELSE queue[c]]
    /\ out' = [out EXCEPT ![g] = "wait"]
    /\ Goto(g, "unlockAll")
    /\ UNCHANGED <<closed, buf, recvReady, lock, chosen, dst, sig, place, isel,
                   finishing, history>>

\* unlockSelectChannels: in the reverse order.
UnlockNext(g, c) ==
    /\ pc[g] = "unlockAll"
    /\ lock[c] = g
    /\ \A d \in SelectChans(g) : d > c => lock[d] # g
    /\ UNCHANGED <<closed, buf, queue, waiters, control, finishing, history>>
    /\ unlock(c)
    /\ Goto(g, IF \E d \in SelectChans(g) : d < c THEN "unlockAll"
               ELSE IF out[g] = "wait" THEN "relock" ELSE "return")

(***************************************************************************)
(* Waiting: chanWaiter.wait and the end of Select                          *)
(***************************************************************************)
\* The signal lock is taken by Select, and again by the condition wait's return.
Relock(g) ==
    /\ pc[g] = "relock"
    /\ sig[g] = None
    /\ sig' = [sig EXCEPT ![g] = g]
    /\ Goto(g, "check")
    /\ UNCHANGED <<chans, status, chosen, dst, alive, control, finishing, history>>

\* cond.Wait releases the signal lock and sleeps in one step.
Park(g) ==
    /\ pc[g] = "check"
    /\ ~done(status[g])
    /\ sig' = [sig EXCEPT ![g] = None]
    /\ Goto(g, "parked")
    /\ UNCHANGED <<chans, status, chosen, dst, alive, control, finishing, history>>

\* A condition wait may return without a signal.
SpuriousWakeup(g) ==
    /\ pc[g] = "parked"
    /\ Goto(g, "relock")
    /\ UNCHANGED <<chans, waiters, control, finishing, history>>

Woken(g) ==
    /\ pc[g] = "check"
    /\ done(status[g])
    /\ sig' = [sig EXCEPT ![g] = None]
    /\ out' = [out EXCEPT ![g] = CASE status[g] = "recvClosed" -> "closed"
                                   [] status[g] = "sendClosed" -> "panic"
                                   [] OTHER -> "ok"]
    /\ isel' = [isel EXCEPT ![g] = IF op[g].kind = "select" THEN chosen[g] ELSE 1]
    /\ n' = [n EXCEPT ![g] = 0]
    /\ Goto(g, IF op[g].kind = "select" THEN "cleanup" ELSE "destroy")
    /\ UNCHANGED <<chans, status, chosen, dst, alive, op, phase, start, finishing,
                   history>>

\* cleanupSelectWaiter, for every waiter of the select in turn.
CleanupLock(g) ==
    /\ pc[g] = "cleanup"
    /\ n[g] < Len(op[g].cases)
    /\ \/ /\ Chn(g) = NilChan
          /\ n' = [n EXCEPT ![g] = @ + 1]
          /\ UNCHANGED <<lock, pc>>
       \/ /\ Chn(g) # NilChan
          /\ lock[Chn(g)] = None
          /\ lock' = [lock EXCEPT ![Chn(g)] = g]
          /\ Goto(g, "remove")
          /\ UNCHANGED n
    /\ UNCHANGED <<closed, buf, recvReady, queue, waiters, op, phase, start, out, isel,
                   finishing, history>>

CleanupUnlock(g) ==
    LET side == IF CurCase(g).send THEN "send" ELSE "recv" IN
    /\ pc[g] = "remove"
    /\ queue' = [queue EXCEPT ![Chn(g)][side] = SelectSeq(@, LAMBDA w : w # <<g, Cur(g)>>)]
    /\ n' = [n EXCEPT ![g] = @ + 1]
    /\ UNCHANGED <<closed, buf, waiters, op, phase, start, out, isel, finishing, history>>
    /\ unlock(Chn(g))
    /\ Goto(g, "cleanup")

CleanedUp(g) ==
    /\ pc[g] = "cleanup"
    /\ n[g] = Len(op[g].cases)
    /\ Goto(g, "destroy")
    /\ UNCHANGED <<chans, waiters, control, finishing, history>>

\* signal.destroy; freeSelectState and freeSelectWaiters.
Destroy(g) ==
    /\ pc[g] = "destroy"
    /\ alive' = [alive EXCEPT ![g] = FALSE]
    /\ Goto(g, "return")
    /\ UNCHANGED <<chans, status, chosen, dst, sig, control, finishing, history>>

(***************************************************************************)
(* ChanClose                                                               *)
(***************************************************************************)
\* Mutated form: the close is published only by the final unlock.
SetClosedLate(g) ==
    /\ pc[g] = "close"
    /\ ~closed[Chn(g)]
    /\ closed' = [closed EXCEPT ![Chn(g)] = TRUE]
    /\ out' = [out EXCEPT ![g] = "closing"]
    /\ Goto(g, "drainRecv")
    /\ UNCHANGED <<buf, recvReady, lock, queue, waiters, place, isel, finishing, history>>

\* The close is published before the waiters are woken.
SetClosed(g) ==
    /\ pc[g] = "close"
    /\ ~closed[Chn(g)]
    /\ closed' = [closed EXCEPT ![Chn(g)] = TRUE]
    /\ recvReady' = [recvReady EXCEPT ![Chn(g)] = TRUE]
    /\ out' = [out EXCEPT ![g] = "closing"]
    /\ Goto(g, "drainRecv")
    /\ UNCHANGED <<buf, lock, queue, waiters, place, isel, finishing, history>>

CloseOfClosed(g) ==
    /\ pc[g] = "close"
    /\ closed[Chn(g)]
    /\ UNCHANGED <<closed, buf, queue, waiters, control, finishing, history>>
    /\ unlock(Chn(g))
    /\ Goto(g, "return")

DrainedRecv(g) ==
    /\ pc[g] = "drainRecv"
    /\ queue[Chn(g)].recv = <<>>
    /\ Goto(g, "drainSend")
    /\ UNCHANGED <<chans, waiters, control, finishing, history>>

DrainedSend(g) ==
    /\ pc[g] = "drainSend"
    /\ queue[Chn(g)].send = <<>>
    /\ isel' = [isel EXCEPT ![g] = 1]
    /\ UNCHANGED <<closed, buf, queue, waiters, place, out, finishing, history>>
    /\ unlock(Chn(g))
    /\ Goto(g, "return")

(***************************************************************************)
(* Return to the caller; the locals of the operation are dead.             *)
(***************************************************************************)
Return(g) ==
    LET hit == isel[g] # 0
        send == hit /\ op[g].cases[isel[g]].send
        val == IF out[g] # "ok" THEN Zero
               ELSE IF send THEN Value(<<g, isel[g]>>) ELSE dst[g]
    IN
    /\ pc[g] = "return"
    /\ log' = [log EXCEPT ![g] = Append(@,
                 [ch |-> IF hit THEN op[g].cases[isel[g]].ch ELSE NilChan,
                  send |-> send, res |-> out[g], val |-> val])]
    /\ Goto(g, "idle")
    /\ op' = [op EXCEPT ![g] = NoOp]
    /\ phase' = [phase EXCEPT ![g] = "one"]
    /\ start' = [start EXCEPT ![g] = 0]
    /\ n' = [n EXCEPT ![g] = 0]
    /\ out' = [out EXCEPT ![g] = "none"]
    /\ isel' = [isel EXCEPT ![g] = 0]
    /\ status' = [status EXCEPT ![g] = "pending"]
    /\ chosen' = [chosen EXCEPT ![g] = 0]
    /\ dst' = [dst EXCEPT ![g] = Zero]
    /\ known' = [known EXCEPT ![g] = {}]
    /\ UNCHANGED <<chans, sig, alive, finishing>>

-----------------------------------------------------------------------------
Init ==
    /\ closed = [c \in Chans |-> FALSE]
    /\ buf = [c \in Chans |-> <<>>]
    /\ recvReady = [c \in Chans |-> FALSE]
    /\ lock = [c \in Chans |-> None]
    /\ queue = [c \in Chans |-> [recv |-> <<>>, send |-> <<>>]]
    /\ status = [g \in Goroutines |-> "pending"]
    /\ chosen = [g \in Goroutines |-> 0]
    /\ dst = [g \in Goroutines |-> Zero]
    /\ sig = [g \in Goroutines |-> None]
    /\ alive = [g \in Goroutines |-> FALSE]
    /\ pc = [g \in Goroutines |-> "idle"]
    /\ op = [g \in Goroutines |-> NoOp]
    /\ phase = [g \in Goroutines |-> "one"]
    /\ start = [g \in Goroutines |-> 0]
    /\ n = [g \in Goroutines |-> 0]
    /\ out = [g \in Goroutines |-> "none"]
    /\ isel = [g \in Goroutines |-> 0]
    /\ target = [g \in Goroutines |-> NoWaiter]
    /\ deliver = [g \in Goroutines |-> "pending"]
    /\ back = [g \in Goroutines |-> "idle"]
    /\ log = [g \in Goroutines |-> <<>>]
    /\ known = [g \in Goroutines |-> {}]
    /\ menu \in Menus

TryStep(g) == TrySkip(g) \/ TryCase(g) \/ TryFailed(g) \/ LockChan(g)

LockedStep(g) ==
    \/ DropClaimed(g) \/ TakeWaiter(g) \/ FinishStatus(g) \/ FinishReady(g)
    \/ SendClosed(g) \/ SendBuffer(g) \/ SendBlocks(g)
    \/ RecvBuffer(g) \/ RefillDone(g) \/ RecvEmpty(g)
    \/ Decided(g) \/ TryBlocked(g) \/ PlainBlocks(g)

SelectStep(g) ==
    \/ \E c \in SelectChans(g) : LockNext(g, c) \/ UnlockNext(g, c)
    \/ LockedAll(g) \/ PassCase(g) \/ PassDecided(g) \/ SelectEnqueue(g)
    \/ CleanupLock(g) \/ CleanupUnlock(g) \/ CleanedUp(g)

WaitStep(g) == Relock(g) \/ Park(g) \/ Woken(g) \/ Destroy(g)

CloseStep(g) == SetClosed(g) \/ CloseOfClosed(g) \/ DrainedRecv(g) \/ DrainedSend(g)

Step(g) ==
    \/ TryStep(g) \/ LockedStep(g) \/ SelectStep(g) \/ WaitStep(g) \/ CloseStep(g)
    \/ Return(g)

Next == UNCHANGED menu /\ \E g \in Goroutines : Begin(g) \/ Step(g) \/ SpuriousWakeup(g)

Spec == Init /\ [][Next]_vars

\* A goroutine inside an operation is a thread that keeps running; it need not
\* start another operation, and a condition wait need not return by itself.
\* Strong fairness: a mutex that is free again and again is eventually granted,
\* also against a waiter whose condition wait returns spuriously for ever.
FairSpec == Spec /\ \A g \in Goroutines : SF_vars(Step(g) /\ UNCHANGED menu)

-----------------------------------------------------------------------------

\* A waiter reachable by another goroutine (queued, or being completed) still has
\* its signal and select state: wait and Select destroy and free them only when
\* finish and claimWaiter are done with them.
SignalLifetime ==
    \A g \in Goroutines :
        /\ target[g] # NoWaiter => alive[target[g][1]]
        /\ ~alive[g] => \A c \in Chans : \A q \in {queue[c].recv, queue[c].send} :
                            \A i \in DOMAIN q : q[i][1] # g

\* A nonblocking receive that starts when some goroutine already knows that the
\* channel is closed does not take default (publishRecvClosed precedes the wakes).
CloseNotMissed ==
    \A g \in Goroutines :
        pc[g] = "return" /\ out[g] = "default" =>
            \A i \in DOMAIN op[g].cases :
                ~op[g].cases[i].send => op[g].cases[i].ch \notin known[g]

Waiting(c, side) == {g \in Goroutines :
    status[g] = "pending" /\ \E i \in DOMAIN queue[c][side] : queue[c][side][i][1] = g}

\* When nobody holds the channel, no unclaimed receiver waits for something that
\* is there, and no unclaimed sender waits in front of a free slot.
NoMissedPartner ==
    \A c \in Chans : lock[c] = None =>
        /\ Waiting(c, "recv") # {} => buf[c] = <<>> /\ ~closed[c]
        /\ Waiting(c, "send") # {} => Len(buf[c]) = Cap[c] /\ ~closed[c]
        /\ \A r \in Waiting(c, "recv"), s \in Waiting(c, "send") : r = s

\* After every unlock recvReady tells exactly whether a receive may find
\* something, so that the unlocked check of ChanTryRecv misses nothing.
RecvReadyExact ==
    \A c \in Chans : lock[c] = None =>
        recvReady[c] = (closed[c] \/ buf[c] # <<>> \/ queue[c].send # <<>>)

\* g is between operations, or waits for a partner that has not come.
Rests(g) == pc[g] \in {"idle", "forever"} \/ (pc[g] = "parked" /\ status[g] = "pending")

\* An operation that needs no partner, or has found one, returns: it gets the locks
\* it asks for, and the wake-up of a completed waiter is not lost.
OperationsEnd == \A g \in Goroutines : []<>Rests(g)
=============================================================================
