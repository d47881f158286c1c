---------------------------- MODULE ChanProofs ------------------------------
(***************************************************************************)
(* recvReady is exact whenever a channel is unlocked, for any number of    *)
(* goroutines and channels, any capacities and any programs.               *)
(***************************************************************************)
EXTENDS ChanLocks

(***************************************************************************)
(* Steps that take a lock                                                  *)
(***************************************************************************)
\* lock in TrySelect and the plain operations, in lockSelectChannels and in
\* cleanupSelectWaiter.
LEMMA LockSteps ==
    ASSUME ChanAssumption, Inv, NEW g \in Goroutines, UNCHANGED menu,
           \/ LockChan(g) \/ CleanupLock(g)
           \/ \E c \in SelectChans(g) : LockNext(g, c)
    PROVE  Inv'
<1>0. Types /\ Held(g) BY DEF Inv
<1>1. n[g] \in Nat /\ n[g] + 1 \in Nat /\ Len(op[g].cases) \in Nat
  <2>1. op[g].cases \in Seq(Cases) BY <1>0, CaseTypes
  <2>2. Len(op[g].cases) \in Nat BY <2>1
  <2> QED BY <1>0, <2>2 DEF Types
<1>2. CASE LockChan(g)
  <2>1. /\ pc[g] = "lock" /\ lock[Chn(g)] = None /\ lock' = [lock EXCEPT ![Chn(g)] = g]
        /\ UNCHANGED <<closed, buf, recvReady, queue, op, phase, start, n, back>>
    BY <1>2 DEF LockChan, Chn, control, finishing
  <2>2. PICK l \in {"close", "body"} : Goto(g, l) BY <1>2 DEF LockChan
  <2>3. Moves(g) /\ pc'[g] = l /\ n' = n BY <1>0, <2>1, <2>2 DEF Goto, Types, IsFun, Moves
  <2>4. Chn(g) \in Chans /\ phase[g] = "one" BY <1>0, <2>1 DEF Held, Calm
  <2> QED BY <2>1, <2>3, <2>4, LockMove, Zenon
<1>3. CASE CleanupLock(g)
  <2>1. /\ pc[g] = "cleanup" /\ n[g] < Len(op[g].cases)
        /\ UNCHANGED <<closed, buf, recvReady, queue, op, phase, start, back>>
    BY <1>3 DEF CleanupLock, finishing
  <2>2. CASE n' = [n EXCEPT ![g] = n[g] + 1] /\ UNCHANGED <<lock, pc>>
    <3>1. Moves(g) BY <1>0, <1>1, <2>1, <2>2 DEF Types, IsFun, Moves
    <3>2. MayMove(g) BY <2>1, <2>2 DEF MayMove, Inside, Passing, Calm
    <3>3. UNCHANGED chans BY <2>1, <2>2 DEF chans
    <3> QED BY <3>1, <3>2, <3>3, QuietMove
  <2>3. CASE /\ Chn(g) # NilChan /\ lock[Chn(g)] = None /\ lock' = [lock EXCEPT ![Chn(g)] = g]
             /\ Goto(g, "remove") /\ n' = n
    <3>1. Moves(g) /\ pc'[g] = "remove" BY <1>0, <2>1, <2>3 DEF Goto, Types, IsFun, Moves
    <3>2. Chn(g) \in Chans BY <1>0, <1>1, <2>1, <2>3, CurTypes
    <3> QED BY <2>1, <2>3, <3>1, <3>2, LockMove, Zenon
  <2> QED BY <1>3, <2>2, <2>3 DEF CleanupLock
<1>4. ASSUME NEW c \in SelectChans(g), LockNext(g, c) PROVE Inv'
  <2>1. /\ pc[g] = "lockAll" /\ lock[c] = None /\ lock' = [lock EXCEPT ![c] = g] /\ pc' = pc
        /\ UNCHANGED <<closed, buf, recvReady, queue, op, phase, start, n, back>>
    BY <1>4 DEF LockNext, control, finishing
  <2>2. Moves(g) BY <1>0, <2>1 DEF Types, IsFun, Moves
  <2>3. c \in Chans BY <1>0, CaseTypes
  <2>4. phase[g] = "one" BY <1>0, <2>1 DEF Held, Calm
  <2> QED BY <2>1, <2>2, <2>3, <2>4, LockMove, Zenon
<1> QED BY <1>2, <1>3, <1>4

(***************************************************************************)
(* Steps that change the channel they hold                                 *)
(***************************************************************************)
\* The ring, the queues and the closed flag are changed by the holder of the lock.
LEMMA ChangeSteps ==
    ASSUME ChanAssumption, Inv, NEW g \in Goroutines, UNCHANGED menu,
           DropClaimed(g) \/ SendBuffer(g) \/ RecvBuffer(g) \/ SetClosed(g)
    PROVE  Inv'
<1>0. Types /\ Held(g) BY DEF Inv
<1>1. pc[g] \in {"body", "refill", "close", "drainRecv", "drainSend"}
  BY Zenon DEF DropClaimed, Probing, SendBuffer, RecvBuffer, SetClosed
<1>2. Chn(g) \in Chans /\ pc[g] \in Inside BY <1>0, <1>1 DEF Held, Inside
<1>3. CASE DropClaimed(g)
  <2>1. UNCHANGED <<closed, buf, recvReady, lock, pc, op, phase, start, n, back>>
    BY <1>3, Zenon DEF DropClaimed, control, finishing
  <2>2. queue' = [queue EXCEPT ![Chn(g)][Side(g)] = Tail(@)] BY <1>3 DEF DropClaimed, dequeue
  <2>3. OnlyAt(Chn(g)) BY <1>0, <2>1, <2>2, Zenon DEF Types, IsFun, OnlyAt
  <2>4. Moves(g) BY <1>0, <2>1 DEF Types, IsFun, Moves
  <2>5. MayMove(g) BY <1>0, <1>1, <2>1 DEF MayMove, Held, Inside, Passing, Calm
  <2> QED BY <1>2, <2>1, <2>3, <2>4, <2>5, ChangeMove
<1>4. CASE SendBuffer(g)
  <2>1. pc[g] = "body" /\ UNCHANGED <<closed, recvReady, lock, queue, op, phase, start, n, back>>
    BY <1>4 DEF SendBuffer, place, finishing
  <2>2. /\ buf' = [buf EXCEPT ![Chn(g)] = Append(@, Value(<<g, Cur(g)>>))]
        /\ Goto(g, "decide")
    BY <1>4, Zenon DEF SendBuffer, Decide
  <2>3. OnlyAt(Chn(g)) BY <1>0, <2>1, <2>2, Zenon DEF Types, IsFun, OnlyAt
  <2>4. Moves(g) /\ pc'[g] = "decide" BY <1>0, <2>1, <2>2 DEF Types, IsFun, Moves, Goto
  <2>5. MayMove(g) BY <1>0, <2>1, <2>4 DEF MayMove, Held, Inside, Passing, Calm
  <2> QED BY <1>2, <2>1, <2>3, <2>4, <2>5, ChangeMove
<1>5. CASE RecvBuffer(g)
  <2>1. pc[g] = "body" /\ UNCHANGED <<closed, recvReady, lock, queue, op, phase, start, n, back>>
    BY <1>5 DEF RecvBuffer, place, finishing
  <2>2. buf' = [buf EXCEPT ![Chn(g)] = Tail(@)] /\ Goto(g, "refill") BY <1>5 DEF RecvBuffer
  <2>3. OnlyAt(Chn(g)) BY <1>0, <2>1, <2>2, Zenon DEF Types, IsFun, OnlyAt
  <2>4. Moves(g) /\ pc'[g] = "refill" BY <1>0, <2>1, <2>2 DEF Types, IsFun, Moves, Goto
  <2>5. MayMove(g) BY <1>0, <2>1, <2>4 DEF MayMove, Held, Inside, Passing, Calm
  <2> QED BY <1>2, <2>1, <2>3, <2>4, <2>5, ChangeMove
<1>6. CASE SetClosed(g)
  <2>1. pc[g] = "close" /\ UNCHANGED <<buf, lock, queue, op, phase, start, n, back>>
    BY <1>6 DEF SetClosed, place, finishing
  <2>2. /\ closed' = [closed EXCEPT ![Chn(g)] = TRUE]
        /\ recvReady' = [recvReady EXCEPT ![Chn(g)] = TRUE] /\ Goto(g, "drainRecv")
    BY <1>6 DEF SetClosed
  <2>3. OnlyAt(Chn(g)) BY <1>0, <2>1, <2>2, Zenon DEF Types, OnlyAt
  <2>4. Moves(g) /\ pc'[g] = "drainRecv" BY <1>0, <2>1, <2>2 DEF Types, IsFun, Moves, Goto
  <2>5. MayMove(g) BY <1>0, <2>1, <2>4 DEF MayMove, Held, Inside, Passing, Calm
  <2> QED BY <1>2, <2>1, <2>3, <2>4, <2>5, ChangeMove
<1> QED BY <1>3, <1>4, <1>5, <1>6

\* dequeue and claimWaiter: a waiter is taken from the queue of the held channel.
LEMMA TakeWaiterStep ==
    ASSUME ChanAssumption, Inv, NEW g \in Goroutines, UNCHANGED menu, TakeWaiter(g)
    PROVE  Inv'
<1>0. Types /\ Held(g) BY DEF Inv
<1>1. pc[g] \in {"body", "refill", "drainRecv", "drainSend"} BY DEF TakeWaiter, Probing
<1>2. Chn(g) \in Chans /\ lock[Chn(g)] = g BY <1>0, <1>1 DEF Held, Inside
<1>3. UNCHANGED <<closed, recvReady, lock, op, phase, start, n>> BY DEF TakeWaiter, place
<1>4. /\ queue' = [queue EXCEPT ![Chn(g)][Side(g)] = Tail(@)]
      /\ pc' = [pc EXCEPT ![g] = "finish"]
      /\ back' = [back EXCEPT ![g] = IF pc[g] \in {"body", "refill"} THEN "decide" ELSE pc[g]]
  BY DEF TakeWaiter, dequeue, Goto
<1>5. buf' = buf \/ buf' = [buf EXCEPT ![Chn(g)] = Append(@, Value(First(g)))]
  BY DEF TakeWaiter, CopyElem
<1>6. /\ \A d \in Chans \ {Chn(g)} : buf'[d] = buf[d] /\ queue'[d] = queue[d]
      /\ IsFun(buf', Chans) /\ IsFun(queue', Chans)
  BY <1>0, <1>4, <1>5, Zenon DEF Types, IsFun
<1>7. Types' BY <1>0, <1>3, <1>4, <1>6, Zenon DEF Types, IsFun
<1>8. Others(g) BY <1>0, <1>3, <1>4 DEF Types, IsFun, Others
<1>9. Held(g)'
  <2>1. pc'[g] = "finish" /\ back'[g] \in {"decide", "drainRecv", "drainSend"}
        /\ (back'[g] # "decide" => pc[g] \in {"drainRecv", "drainSend"})
    BY <1>0, <1>1, <1>4 DEF Types, IsFun
  <2>2. Chn(g)' = Chn(g) /\ SelectChans(g)' = SelectChans(g)
    BY <1>3 DEF Chn, CurCase, Cur, CaseIndex, SelectChans
  <2>3. pc[g] \notin Passing => phase[g] = "one" BY <1>0, <1>1 DEF Held, Passing, Calm
  <2> QED BY <1>0, <1>2, <1>3, <2>1, <2>2, <2>3 DEF Held, Passing, Inside, Calm
<1>10. Locks(g) BY <1>3 DEF Locks
<1>11. \A d \in Chans : Kept(g, d) BY <1>2, <1>3, <1>6 DEF Kept, Untouched
<1> QED BY <1>0, <1>7, <1>8, <1>9, <1>10, <1>11, StepKeeps

\* Select enqueues on all its channels while it holds all of them.
LEMMA SelectEnqueueStep ==
    ASSUME ChanAssumption, Inv, NEW g \in Goroutines, UNCHANGED menu, SelectEnqueue(g)
    PROVE  Inv'
<1>0. Types /\ Held(g) BY DEF Inv
<1>1. /\ pc[g] = "pass" /\ Goto(g, "unlockAll")
      /\ UNCHANGED <<closed, buf, recvReady, lock, op, phase, start, n, back>>
  BY DEF SelectEnqueue, place, finishing
<1>2. IsFun(queue', Chans) /\ \A d \in Chans \ SelectChans(g) : queue'[d] = queue[d]
  BY Zenon DEF SelectEnqueue, IsFun
<1>3. Moves(g) /\ pc'[g] = "unlockAll" BY <1>0, <1>1 DEF Types, IsFun, Moves, Goto
<1>4. Types' BY <1>0, <1>1, <1>2, <1>3, Moving DEF Types, IsFun, Moves
<1>5. Held(g)' BY <1>3 DEF Held, Inside, Passing, Calm
<1>6. \A d \in SelectChans(g) : lock'[d] = g BY <1>0, <1>1 DEF Held, Passing
<1>7. \A d \in Chans : Kept(g, d) BY <1>1, <1>2, <1>6 DEF Kept, Untouched
<1>8. Locks(g) BY <1>1 DEF Locks
<1> QED BY <1>0, <1>3, <1>4, <1>5, <1>7, <1>8, Moving, StepKeeps

(***************************************************************************)
(* Steps that release a lock                                               *)
(***************************************************************************)
\* unlock publishes one channel and leaves the others alone.
LEMMA Publishing ==
    ASSUME Types, NEW c \in Chans, unlock(c), UNCHANGED <<closed, buf>>,
           \/ queue' = queue
           \/ \E side, q : queue' = [queue EXCEPT ![c][side] = q]
    PROVE  OnlyAt(c)
<1>1. /\ IsFun(buf', Chans) /\ IsFun(queue', Chans)
      /\ \A d \in Chans \ {c} : queue'[d] = queue[d]
  BY DEF Types, IsFun
<1>2. Ready(c) \in BOOLEAN BY DEF Types, Ready
<1>3. recvReady' = [recvReady EXCEPT ![c] = Ready(c)] BY DEF unlock
<1>4. recvReady' \in [Chans -> BOOLEAN] /\ \A d \in Chans \ {c} : recvReady'[d] = recvReady[d]
  BY <1>2, <1>3 DEF Types
<1> QED BY <1>1, <1>4 DEF OnlyAt, Types

\* The unlocks of one channel, with what is enqueued or removed just before.
LEMMA UnlockSteps ==
    ASSUME ChanAssumption, Inv, NEW g \in Goroutines, UNCHANGED menu,
           \/ Decided(g) \/ TryBlocked(g) \/ PlainBlocks(g)
           \/ CleanupUnlock(g) \/ CloseOfClosed(g) \/ DrainedSend(g)
    PROVE  Inv'
<1>0. Types /\ Held(g) BY DEF Inv
<1>1. n[g] \in Nat /\ n[g] + 1 \in Nat BY <1>0 DEF Types
<1>2. pc[g] \in Inside /\ unlock(Chn(g)) /\ UNCHANGED <<closed, buf, op, phase, start, back>>
  <2>1. CASE Decided(g) BY <2>1, Zenon DEF Decided, Inside, place, finishing
  <2>2. CASE TryBlocked(g) BY <2>2, Zenon DEF TryBlocked, Inside, finishing
  <2>3. CASE PlainBlocks(g) BY <2>3 DEF PlainBlocks, Inside, control, finishing
  <2>4. CASE CleanupUnlock(g) BY <2>4 DEF CleanupUnlock, Inside, finishing
  <2>5. CASE CloseOfClosed(g) BY <2>5, Zenon DEF CloseOfClosed, Inside, control, finishing
  <2>6. CASE DrainedSend(g) BY <2>6, Zenon DEF DrainedSend, Inside, place, finishing
  <2> QED BY <2>1, <2>2, <2>3, <2>4, <2>5, <2>6
<1>3. Chn(g) \in Chans /\ lock[Chn(g)] = g BY <1>0, <1>2, Zenon DEF Held
<1>4. \/ queue' = queue
      \/ \E side, q : queue' = [queue EXCEPT ![Chn(g)][side] = q]
  <2>1. CASE PlainBlocks(g) BY <2>1, Zenon DEF PlainBlocks
  <2>2. CASE CleanupUnlock(g) BY <2>2, Zenon DEF CleanupUnlock
  <2>3. CASE Decided(g) \/ TryBlocked(g) \/ CloseOfClosed(g) \/ DrainedSend(g)
    BY <2>3 DEF Decided, TryBlocked, CloseOfClosed, DrainedSend
  <2> QED BY <2>1, <2>2, <2>3, Zenon
<1>5. OnlyAt(Chn(g)) BY <1>0, <1>2, <1>3, <1>4, Publishing, Zenon
<1>6. CASE Decided(g) \/ CloseOfClosed(g) \/ DrainedSend(g) \/ PlainBlocks(g)
  <2>1. n' = n
    BY <1>6, Zenon DEF Decided, CloseOfClosed, DrainedSend, PlainBlocks, place, control
  <2>2. PICK l \in {"return", "check"} : Goto(g, l)
    BY <1>6, Zenon DEF Decided, CloseOfClosed, DrainedSend, PlainBlocks
  <2>3. Moves(g) /\ pc'[g] = l BY <1>0, <1>2, <2>1, <2>2 DEF Types, IsFun, Moves, Goto
  <2> QED BY <1>2, <1>3, <1>5, <2>3, UnlockMove, Zenon DEF Free
<1>7. CASE TryBlocked(g)
  <2>1. phase[g] = "one" /\ n' = [n EXCEPT ![g] = n[g] + 1] /\ Goto(g, "next")
    BY <1>7, Zenon DEF TryBlocked
  <2>2. Moves(g) BY <1>0, <1>1, <1>2, <2>1 DEF Types, IsFun, Moves, Goto
  <2>3. pc'[g] = "next" BY <1>0, <2>1 DEF Types, IsFun, Goto
  <2> QED BY <1>2, <1>3, <1>5, <2>1, <2>2, <2>3, UnlockMove, Zenon DEF Free
<1>8. CASE CleanupUnlock(g)
  <2>1. n' = [n EXCEPT ![g] = n[g] + 1] /\ Goto(g, "cleanup") BY <1>8 DEF CleanupUnlock
  <2>2. Moves(g) BY <1>0, <1>1, <1>2, <2>1 DEF Types, IsFun, Moves, Goto
  <2>3. pc'[g] = "cleanup" BY <1>0, <2>1 DEF Types, IsFun, Goto
  <2> QED BY <1>2, <1>3, <1>5, <2>2, <2>3, UnlockMove, Zenon DEF Free
<1> QED BY <1>6, <1>7, <1>8

\* unlockSelectChannels.
LEMMA UnlockNextStep ==
    ASSUME ChanAssumption, Inv, NEW g \in Goroutines, UNCHANGED menu,
           NEW c \in SelectChans(g), UnlockNext(g, c)
    PROVE  Inv'
<1>0. Types BY DEF Inv
<1>1. c \in Chans BY <1>0, CaseTypes
<1>2. lock[c] = g /\ unlock(c) /\ UNCHANGED <<closed, buf, queue, op, phase, start, n, back>>
  BY DEF UnlockNext, control, finishing
<1>3. OnlyAt(c) BY <1>0, <1>1, <1>2, Publishing
<1>4. PICK l \in {"unlockAll", "relock", "return"} : Goto(g, l) BY DEF UnlockNext
<1>5. Moves(g) /\ pc'[g] = l BY <1>0, <1>2, <1>4 DEF Types, IsFun, Moves, Goto
<1> QED BY <1>1, <1>2, <1>3, <1>5, UnlockMove DEF Free

(***************************************************************************)
(* The ends of a wait, of an operation and of the locking of a select      *)
(***************************************************************************)
\* The end of finish wakes at most a parked goroutine, which holds nothing.
LEMMA FinishReadyStep ==
    ASSUME ChanAssumption, Inv, NEW g \in Goroutines, UNCHANGED menu, FinishReady(g)
    PROVE  Inv'
<1>0. Types /\ Held(g) BY DEF Inv
<1> DEFINE h == target[g][1]
<1>1. /\ pc[g] = "ready" /\ UNCHANGED <<closed, buf, recvReady, lock, queue, op, phase, start, n>>
      /\ back' = [back EXCEPT ![g] = "idle"]
      /\ pc' = [pc EXCEPT ![g] = back[g], ![h] = IF @ = "parked" THEN "relock" ELSE @]
  BY DEF FinishReady, chans, control
<1>2. back[g] \in {"decide", "drainRecv", "drainSend"} /\ (back[g] # "decide" => phase[g] = "one")
  BY <1>0, <1>1 DEF Held
<1>3. IsFun(pc', Goroutines) /\ pc'[g] = back[g]
  <2>1. IsFun(pc', Goroutines) BY <1>0, <1>1, Zenon DEF Types, IsFun
  <2>2. CASE h = g BY <1>0, <1>1, <1>2, <2>2 DEF Types, IsFun
  <2>3. CASE h # g BY <1>0, <1>1, <2>3, Zenon DEF Types, IsFun
  <2> QED BY <2>1, <2>2, <2>3
<1>4. Types' BY <1>0, <1>1, <1>3, Zenon DEF Types, IsFun
<1>5. Others(g) BY <1>0, <1>1 DEF Types, IsFun, Others
<1>6. Chn(g)' = Chn(g) /\ SelectChans(g)' = SelectChans(g)
  BY <1>1 DEF Chn, CurCase, Cur, CaseIndex, SelectChans
<1>7. Held(g)' BY <1>0, <1>1, <1>2, <1>3, <1>6, Zenon DEF Held, Inside, Passing, Calm
<1>8. Locks(g) /\ \A c \in Chans : Kept(g, c) BY <1>1 DEF Locks, Kept, Untouched
<1> QED BY <1>0, <1>4, <1>5, <1>7, <1>8, StepKeeps

\* The second pass of a select starts once every channel is held.
LEMMA LockedAllStep ==
    ASSUME ChanAssumption, Inv, NEW g \in Goroutines, UNCHANGED menu, LockedAll(g)
    PROVE  Inv'
<1>0. Types BY DEF Inv
<1>1. /\ \A c \in SelectChans(g) : lock[c] = g
      /\ UNCHANGED <<closed, buf, recvReady, lock, queue, op, back>>
      /\ n' = [n EXCEPT ![g] = 0] /\ phase' = [phase EXCEPT ![g] = "all"]
      /\ pc' = [pc EXCEPT ![g] = "pass"]
  BY Zenon DEF LockedAll, chans, finishing, Goto
<1>2. PICK s \in Nat : start' = [start EXCEPT ![g] = s]
  <2>1. op[g].cases \in Seq(Cases) BY <1>0, CaseTypes
  <2>2. Len(op[g].cases) \in Nat BY <2>1
  <2>3. PICK s \in 0 .. (IF Len(op[g].cases) <= 1 THEN 0 ELSE Len(op[g].cases) - 1) :
          start' = [start EXCEPT ![g] = s]
    BY Zenon DEF LockedAll, SelectStart
  <2>4. s \in Nat BY <2>2
  <2> QED BY <2>3, <2>4, Zenon
<1>3. Types' BY <1>0, <1>1, <1>2, Zenon DEF Types, IsFun
<1>4. Others(g) BY <1>0, <1>1, <1>2 DEF Types, IsFun, Others
<1>5. SelectChans(g)' = SelectChans(g) BY <1>1 DEF SelectChans
<1>6. pc'[g] = "pass" /\ phase'[g] = "all" BY <1>0, <1>1 DEF Types, IsFun
<1>7. Held(g)' BY <1>1, <1>5, <1>6, Zenon DEF Held, Inside, Calm
<1>8. Locks(g) /\ \A c \in Chans : Kept(g, c) BY <1>1, Zenon DEF Locks, Kept, Untouched
<1> QED BY <1>0, <1>3, <1>4, <1>7, <1>8, StepKeeps, Zenon

\* A goroutine returns holding nothing.
LEMMA ReturnStep ==
    ASSUME ChanAssumption, Inv, NEW g \in Goroutines, UNCHANGED menu, Return(g)
    PROVE  Inv'
<1>0. Types BY DEF Inv
<1>1. /\ UNCHANGED <<closed, buf, recvReady, lock, queue, back>>
      /\ n' = [n EXCEPT ![g] = 0] /\ phase' = [phase EXCEPT ![g] = "one"]
      /\ start' = [start EXCEPT ![g] = 0] /\ op' = [op EXCEPT ![g] = NoOp]
      /\ pc' = [pc EXCEPT ![g] = "idle"]
  BY DEF Return, chans, finishing, Goto
<1>2. Types' BY <1>0, <1>1, Zenon DEF Types, IsFun
<1>3. Others(g) BY <1>0, <1>1 DEF Types, IsFun, Others
<1>4. pc'[g] = "idle" /\ phase'[g] = "one" BY <1>0, <1>1 DEF Types, IsFun
<1>5. Held(g)' BY <1>4 DEF Held, Inside, Passing
<1>6. Locks(g) /\ \A c \in Chans : Kept(g, c) BY <1>1 DEF Locks, Kept, Untouched
<1> QED BY <1>0, <1>2, <1>3, <1>5, <1>6, StepKeeps, Zenon

\* An operation starts at the lock of a channel that is not nil, or before it.
LEMMA BeginStep ==
    ASSUME ChanAssumption, Inv, NEW g \in Goroutines, UNCHANGED menu, Begin(g)
    PROVE  Inv'
<1>0. Types /\ Held(g) BY DEF Inv
<1>1. /\ pc[g] = "idle" /\ n' = [n EXCEPT ![g] = 0]
      /\ UNCHANGED <<closed, buf, recvReady, lock, queue, phase, back>>
  BY DEF Begin, chans, finishing
<1>2. PICK o \in menu[g][Len(log[g]) + 1] :
        /\ op' = [op EXCEPT ![g] = o]
        /\ SelectStart(g, Len(o.cases))
        /\ Goto(g, IF o.kind \in {"try", "select"} THEN "next"
                   ELSE IF o.cases[1].ch \in Chans THEN "lock"
                   ELSE IF o.kind = "close" THEN "return" ELSE "forever")
  BY Zenon DEF Begin
<1>3. o \in Ops /\ (o.kind \in {"plain", "close"} => Len(o.cases) = 1)
  <2>1. menu \in Menus /\ Len(log[g]) + 1 \in DOMAIN menu[g] BY <1>0, Zenon DEF Types, Begin
  <2>2. menu[g] \in Seq(SUBSET Ops) BY <2>1 DEF ChanAssumption
  <2>3. menu[g][Len(log[g]) + 1] \in SUBSET Ops BY <2>1, <2>2
  <2>4. o.kind \in {"plain", "close"} => Len(o.cases) = 1 BY <1>2, <2>1 DEF ChanAssumption
  <2> QED BY <1>2, <2>3, <2>4
<1>4. o.cases \in Seq(Cases) /\ Len(o.cases) \in Nat
  <2>1. o.cases \in Seq(Cases) BY <1>3 DEF Ops, Cases
  <2> QED BY <2>1
<1>5. PICK s \in Nat : start' = [start EXCEPT ![g] = s] /\ (Len(o.cases) = 1 => s = 0)
  <2>1. PICK s \in 0 .. (IF Len(o.cases) <= 1 THEN 0 ELSE Len(o.cases) - 1) :
          start' = [start EXCEPT ![g] = s]
    BY <1>2, Zenon DEF SelectStart
  <2>2. s \in Nat /\ (Len(o.cases) = 1 => s = 0)
    <3>1. CASE Len(o.cases) <= 1
      <4>1. s \in 0 .. 0 BY <3>1
      <4> QED BY <4>1
    <3>2. CASE ~(Len(o.cases) <= 1)
      <4>1. s \in 0 .. (Len(o.cases) - 1) BY <3>2
      <4>2. s \in Nat BY <1>4, <4>1
      <4>3. \A k \in Nat : ~(k <= 1) => k # 1 OBVIOUS
      <4>4. Len(o.cases) # 1 BY <1>4, <3>2, <4>3, Zenon
      <4> QED BY <4>2, <4>4
    <3> QED BY <3>1, <3>2
  <2> QED BY <2>1, <2>2, Zenon
<1>6. Types' BY <1>0, <1>1, <1>2, <1>3, <1>5, Zenon DEF Types, IsFun, Goto
<1>7. Others(g) BY <1>0, <1>1, <1>2, <1>5 DEF Types, IsFun, Others, Goto
<1>8. Held(g)'
  <2>1. pc'[g] \in {"next", "lock", "return", "forever"} BY <1>0, <1>2 DEF Types, IsFun, Goto
  <2>2. ASSUME pc'[g] = "lock" PROVE Chn(g)' \in Chans
    <3>1. o.cases[1].ch \in Chans /\ o.kind \notin {"try", "select"}
      BY <1>0, <1>2, <2>2 DEF Types, IsFun, Goto
    <3>2. Len(o.cases) = 1 BY <1>3, <3>1 DEF Ops
    <3>3. op'[g] = o /\ start'[g] = 0 /\ n'[g] = 0
      BY <1>0, <1>1, <1>2, <1>5, <3>2 DEF Types
    <3>4. Cur(g)' = 1
      <4>1. Cur(g)' = 1 + ((0 + 0) % 1) BY <3>2, <3>3, Zenon DEF Cur, CaseIndex
      <4>2. ((0 + 0) % 1) = 0 OBVIOUS
      <4> QED BY <4>1, <4>2
    <3> QED BY <3>1, <3>3, <3>4 DEF Chn, CurCase
  <2>3. phase'[g] = "one" BY <1>0, <1>1 DEF Held, Calm
  <2> QED BY <2>1, <2>2, <2>3 DEF Held, Inside, Passing
<1>9. Locks(g) /\ \A c \in Chans : Kept(g, c) BY <1>1 DEF Locks, Kept, Untouched
<1> QED BY <1>0, <1>6, <1>7, <1>8, <1>9, StepKeeps

-----------------------------------------------------------------------------
\* Whoever changes a channel holds its lock, and whoever releases it has published.
THEOREM Invariance == Spec => []Inv
<1>1. ChanAssumption BY ChanAssumption
<1>2. Init => Inv
  <2> SUFFICES ASSUME Init PROVE Inv
    OBVIOUS
  <2>1. Types BY DEF Init, Types, IsFun
  <2>2. \A g \in Goroutines : Held(g) BY DEF Init, Held, Inside, Passing
  <2>3. \A c \in Chans : Exact(c) BY Zenon DEF Init, Exact
  <2> QED BY <2>1, <2>2, <2>3 DEF Inv
<1>3. Inv /\ [Next]_vars => Inv'
  <2> SUFFICES ASSUME Inv, [Next]_vars PROVE Inv'
    OBVIOUS
  <2>1. CASE UNCHANGED vars
    <3>1. UNCHANGED <<closed, buf, recvReady, lock, queue, pc, op, phase, start, n, back, menu>>
      BY <2>1 DEF vars
    <3>2. Types' BY <3>1 DEF Inv, Types, IsFun
    <3>3. ASSUME NEW g \in Goroutines PROVE Held(g)'
      <4>1. Chn(g)' = Chn(g) /\ SelectChans(g)' = SelectChans(g)
        BY <3>1 DEF Chn, CurCase, Cur, CaseIndex, SelectChans
      <4> QED BY <3>1, <4>1 DEF Inv, Held
    <3>4. \A c \in Chans : Exact(c)' BY <3>1 DEF Inv, Exact
    <3> QED BY <3>2, <3>3, <3>4 DEF Inv
  <2>2. CASE Next
    <3>1. PICK g \in Goroutines : Begin(g) \/ Step(g) \/ SpuriousWakeup(g) BY <2>2 DEF Next
    <3>2. UNCHANGED menu BY <2>2 DEF Next
    <3>3. CASE Begin(g) BY <1>1, <3>2, <3>3, BeginStep
    <3>4. CASE Return(g) BY <1>1, <3>2, <3>4, ReturnStep
    <3>5. CASE LockedAll(g) BY <1>1, <3>2, <3>5, LockedAllStep
    <3>6. CASE FinishReady(g) BY <1>1, <3>2, <3>6, FinishReadyStep
    <3>7. CASE SelectEnqueue(g) BY <1>1, <3>2, <3>7, SelectEnqueueStep
    <3>8. CASE TakeWaiter(g) BY <1>1, <3>2, <3>8, TakeWaiterStep
    <3>9. CASE QuietStep(g) BY <1>1, <3>2, <3>9, QuietSteps
    <3>10. CASE DropClaimed(g) \/ SendBuffer(g) \/ RecvBuffer(g) \/ SetClosed(g)
      BY <1>1, <3>2, <3>10, ChangeSteps
    <3>11. CASE \/ Decided(g) \/ TryBlocked(g) \/ PlainBlocks(g)
                \/ CleanupUnlock(g) \/ CloseOfClosed(g) \/ DrainedSend(g)
      BY <1>1, <3>2, <3>11, UnlockSteps
    <3>12. CASE \E c \in SelectChans(g) : UnlockNext(g, c)
      BY <1>1, <3>2, <3>12, UnlockNextStep
    <3>13. CASE \/ LockChan(g) \/ CleanupLock(g)
                \/ \E c \in SelectChans(g) : LockNext(g, c)
      BY <1>1, <3>2, <3>13, LockSteps
    <3> QED
      BY <3>1, <3>3, <3>4, <3>5, <3>6, <3>7, <3>8, <3>9, <3>10, <3>11, <3>12, <3>13
      DEF Step, TryStep, LockedStep, SelectStep, WaitStep, CloseStep, QuietStep
  <2> QED BY <2>1, <2>2
<1> QED BY <1>2, <1>3, PTL DEF Spec

\* When nobody holds a channel, recvReady tells exactly whether it is closed or holds
\* a value or a sender, whatever programs run: the unlocked check of ChanTryRecv and
\* TrySelect rejects only a receive that would have found nothing.
THEOREM ReadinessIsExact == Spec => []RecvReadyExact
<1>1. Inv => RecvReadyExact BY DEF Inv, Exact, RecvReadyExact
<1> QED BY <1>1, Invariance, PTL
=============================================================================
