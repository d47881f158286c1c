-------------------------- MODULE WasiGCWorldProofs --------------------------
(***************************************************************************)
(* Safety of the threaded WASI stop-the-world, for every finite set of     *)
(* threads and every number of stops and of contended locks.               *)
(***************************************************************************)
EXTENDS WasiGCWorld, FiniteSetTheorems, TLAPS

\* Between world_begin_wait and the end of world_end_wait.
Blocking == {"waiting", "endWait", "endWaiting", "lockWait", "lockDone", "lockGeneration",
             "lockNotify", "yieldCount", "yieldSample", "yieldUnlock", "yield"}
\* Before the thread is on the root registry, or after.
Rootless == {"out", "entering", "left"}
Stopping == {"stopWait", "collect"}
\* With the allocator lock.
Holders == {"lockDone", "lockGeneration", "lockNotify", "held", "unlock", "finish",
            "yieldBegin", "yieldCount", "yieldSample", "yieldUnlock", "stop"} \cup Stopping
\* Where a contended lock() is, once it is in its wait.
Locking == {"lockWait", "lockDone", "lockGeneration", "lockNotify", "endWait", "endWaiting"}
PCs == Blocking \cup Rootless \cup Holders \cup {"go", "leaving", "c", "park", "parked", "lockBegin"}

Inside == PCs \ {"out"}
\* Held back by a stop: at a safepoint, or at the end of a wait.
HeldBack == {"parked", "endWaiting"}

Where(p, L) == {t \in Threads : p[t] \in L}

Types ==
    /\ pc \in [Threads -> PCs] /\ ret \in [Threads -> {"go", "held"}]
    /\ epoch \in Nat /\ seen \in [Threads -> Nat] /\ parkEpoch \in [Threads -> Nat]
    /\ isRegistered \in [Threads -> BOOLEAN] /\ isBlocked \in [Threads -> BOOLEAN]
    /\ published \in [Threads -> {"none", "older", "current"}] /\ contexts \subseteq Threads

\* What a thread has set says where it is.
Flags ==
    \A t \in Threads :
        /\ isRegistered[t] <=> pc[t] # "out"
        /\ isBlocked[t] <=> pc[t] \in Blocking
        /\ t \in contexts <=> pc[t] \notin Rootless
        /\ pc[t] \in Blocking \cup {"parked"} => published[t] = "current"

\* Only the holder of the allocator lock is inside it.
Holding ==
    \A t \in Threads :
        /\ pc[t] \in Holders => gcMutex = t
        /\ ret[t] = "held" => pc[t] \in Locking
        /\ ret[t] = "held" /\ pc[t] \in {"endWait", "endWaiting"} => gcMutex = t

\* The epoch is odd exactly during a stop, and the stop is its owner's.
Parity ==
    /\ \A t \in Threads : pc[t] \in Stopping => Odd(epoch) /\ owner = t
    /\ Odd(epoch) => \E t \in Threads : pc[t] \in Stopping

\* Who answered a stop is parked for it, and nobody is parked for an earlier one.
Answers ==
    \A t \in Threads :
        /\ seen[t] <= epoch
        /\ pc[t] = "parked" => parkEpoch[t] = seen[t]
        /\ Odd(epoch) => (seen[t] = epoch <=> pc[t] = "parked")

Counts ==
    /\ registered = Cardinality(Where(pc, Inside))
    /\ blocked = Cardinality(Where(pc, Blocking))
    /\ resuming = Cardinality(Where(pc, HeldBack))
    /\ Odd(epoch) => stopped = Cardinality(Where(pc, {"parked"}))

Alone ==
    \A t \in Threads : pc[t] = "collect" =>
        \A u \in Threads \ {t} : pc[u] \in Blocking \cup {"out", "parked"}

Inv == Types /\ Flags /\ Holding /\ Parity /\ Answers /\ Counts /\ Alone

\* The variables Inv speaks of.
core == <<epoch, owner, registered, stopped, blocked, resuming, seen, isRegistered, isBlocked,
          contexts, published, gcMutex, pc, parkEpoch, ret>>

-----------------------------------------------------------------------------
LEMMA OddNext == \A e \in Nat : Odd(e + 1) <=> ~Odd(e)
  BY DEF Odd

\* What a move from a to b adds to the number of threads at L.
Delta(L, a, b) == IF a \in L THEN IF b \in L THEN 0 ELSE -1
                             ELSE IF b \in L THEN 1 ELSE 0

LEMMA CountMove ==
    ASSUME pc \in [Threads -> PCs], NEW t \in Threads, NEW l, pc' = [pc EXCEPT ![t] = l], NEW L
    PROVE  /\ Cardinality(Where(pc, L)) \in Nat
           /\ Cardinality(Where(pc', L)) = Cardinality(Where(pc, L)) + Delta(L, pc[t], l)
<1>1. IsFiniteSet(Where(pc, L))
  BY WasiAssumption, FS_Subset DEF Where
<1>2. Cardinality(Where(pc, L)) \in Nat
  BY <1>1, FS_CardinalityType
<1>3. CASE pc[t] \in L <=> l \in L
  <2>1. Where(pc', L) = Where(pc, L)
    BY <1>3 DEF Where
  <2> QED
    BY <1>2, <1>3, <2>1 DEF Delta
<1>4. CASE pc[t] \notin L /\ l \in L
  <2>1. Where(pc', L) = Where(pc, L) \cup {t} /\ t \notin Where(pc, L)
    BY <1>4 DEF Where
  <2>2. Cardinality(Where(pc', L)) = Cardinality(Where(pc, L)) + 1
    BY <1>1, <2>1, FS_AddElement, Zenon
  <2> QED
    BY <1>2, <1>4, <2>2 DEF Delta
<1>5. CASE pc[t] \in L /\ l \notin L
  <2>1. Where(pc', L) = Where(pc, L) \ {t} /\ t \in Where(pc, L)
    BY <1>5 DEF Where
  <2>2. Cardinality(Where(pc', L)) = Cardinality(Where(pc, L)) - 1
    BY <1>1, <2>1, FS_RemoveElement, Zenon
  <2> QED
    BY <1>2, <1>5, <2>2 DEF Delta
<1> QED
  BY <1>2, <1>3, <1>4, <1>5

\* A step adds to the counters what its move adds to the places.
Adds(t, l) ==
    /\ registered' = registered + Delta(Inside, pc[t], l)
    /\ blocked' = blocked + Delta(Blocking, pc[t], l)
    /\ resuming' = resuming + Delta(HeldBack, pc[t], l)
    /\ Odd(epoch') => \/ Odd(epoch) /\ stopped' = stopped + Delta({"parked"}, pc[t], l)
                      \/ stopped' = 0 /\ Where(pc', {"parked"}) = {}

LEMMA CountsMove ==
    ASSUME Inv, NEW t \in Threads, NEW l, pc' = [pc EXCEPT ![t] = l], Adds(t, l)
    PROVE  Counts'
<1>1. pc \in [Threads -> PCs] /\ Counts
  BY DEF Inv, Types
<1>2. \A L : /\ Cardinality(Where(pc, L)) \in Nat
             /\ Cardinality(Where(pc', L)) = Cardinality(Where(pc, L)) + Delta(L, pc[t], l)
  BY <1>1, CountMove, Zenon
<1>3. /\ registered' = Cardinality(Where(pc', Inside))
      /\ blocked' = Cardinality(Where(pc', Blocking))
      /\ resuming' = Cardinality(Where(pc', HeldBack))
      /\ Odd(epoch') => stopped' = Cardinality(Where(pc', {"parked"}))
  BY <1>1, <1>2, FS_EmptySet DEF Counts, Adds
<1> QED
  BY <1>3 DEF Counts, Inside, Blocking, HeldBack, PCs, Rootless, Holders, Stopping

LEMMA CountTypes ==
    ASSUME Inv
    PROVE  /\ registered \in Nat /\ blocked \in Nat /\ resuming \in Nat
           /\ Odd(epoch) => stopped \in Nat
<1>1. \A L : Cardinality(Where(pc, L)) \in Nat
  BY WasiAssumption, FS_Subset, FS_CardinalityType DEF Where
<1> QED
  BY <1>1 DEF Inv, Counts

\* At most one thread is inside the allocator lock, so at most one stops.
LEMMA OneStops ==
    ASSUME Inv, NEW t \in Threads, pc[t] \in Holders
    PROVE  /\ \A u \in Threads \ {t} : pc[u] \notin Holders
           /\ pc[t] \notin Stopping => ~Odd(epoch)
  BY DEF Inv, Holding, Parity, Holders

LEMMA Still ==
    ASSUME Inv, UNCHANGED core
    PROVE  Inv'
  BY DEF Inv, core, Types, Flags, Holding, Parity, Answers, Counts, Alone, Where, Odd

\* A step between two places that nobody else can tell apart.
LEMMA Quiet ==
    ASSUME Inv, NEW t \in Threads, NEW l \in PCs, pc' = [pc EXCEPT ![t] = l],
           UNCHANGED <<epoch, owner, registered, stopped, blocked, resuming, seen, isRegistered,
                       isBlocked, contexts, published, parkEpoch>>,
           ret' \in [Threads -> {"go", "held"}], Holding',
           pc[t] \notin {"out", "parked", "endWaiting"} \cup Stopping,
           l \notin {"out", "parked", "endWaiting"} \cup Stopping,
           pc[t] \in Rootless <=> l \in Rootless, pc[t] \in Blocking <=> l \in Blocking
    PROVE  Inv'
<1> USE DEF Inv
<1>1. Types' /\ Flags'
  BY DEF Types, Flags
<1>2. Parity' /\ Answers' /\ Alone'
  BY DEF Types, Parity, Answers, Alone, Stopping, Odd
<1>3. Counts'
  <2>1. /\ Delta(Inside, pc[t], l) = 0 /\ Delta(Blocking, pc[t], l) = 0
        /\ Delta(HeldBack, pc[t], l) = 0 /\ Delta({"parked"}, pc[t], l) = 0
    BY DEF Types, Delta, Inside, HeldBack
  <2>2. Adds(t, l)
    BY <2>1, CountTypes DEF Adds
  <2> QED
    BY <2>2, CountsMove
<1> QED
  BY <1>1, <1>2, <1>3

-----------------------------------------------------------------------------
(***************************************************************************)
(* One lemma per group of actions                                          *)
(***************************************************************************)
\* Steps that change nothing the collector counts.
LEMMA QuietSteps ==
    ASSUME Inv, NEW t \in Threads,
           \/ CallC(t) \/ ReturnFromC(t) \/ WaitOver(t) \/ Safepoint(t)
           \/ LockDone(t) \/ LockGeneration(t) \/ LockNotify(t)
           \/ Finish(t) \/ CallStop(t) \/ YieldCount(t) \/ YieldSample(t) \/ YieldOver(t)
    PROVE  Inv'
<1> DEFINE l == pc'[t]
<1>1. pc' = [pc EXCEPT ![t] = l] /\ ret' = ret /\ gcMutex' = gcMutex
  BY DEF Inv, Types, CallC, ReturnFromC, WaitOver, Safepoint, LockDone, LockGeneration, LockNotify,
         Finish, CallStop, YieldCount, YieldSample, YieldOver, Goto, locals, allocator
<1>2. UNCHANGED <<epoch, owner, registered, stopped, blocked, resuming, seen, isRegistered,
                  isBlocked, contexts, published, parkEpoch>>
  BY DEF CallC, ReturnFromC, WaitOver, Safepoint, LockDone, LockGeneration, LockNotify, Finish,
         CallStop, YieldCount, YieldSample, YieldOver, world, roots, locals
<1>3. \/ pc[t] \in {"go", "c", "park"} /\ l \in {"go", "c", "park"}
      \/ pc[t] = "waiting" /\ l = "endWait"
      \/ pc[t] = "lockDone" /\ l = "lockGeneration"
      \/ pc[t] = "lockGeneration" /\ l = "lockNotify"
      \/ pc[t] = "lockNotify" /\ l = "endWait"
      \/ pc[t] = "finish" /\ l \in {"unlock", "yieldBegin"}
      \/ pc[t] = "held" /\ l = "stop"
      \/ pc[t] = "yieldCount" /\ l = "yieldSample"
      \/ pc[t] = "yieldSample" /\ l = "yieldUnlock"
      \/ pc[t] = "yield" /\ l = "endWait"
  BY DEF Inv, Types, CallC, ReturnFromC, WaitOver, Safepoint, LockDone, LockGeneration, LockNotify,
         Finish, CallStop, YieldCount, YieldSample, YieldOver, Goto, At
<1>4. Holding'
  BY <1>1, <1>3 DEF Inv, Types, Holding, Holders, Stopping, Locking
<1>5. /\ l \in PCs /\ ret' \in [Threads -> {"go", "held"}]
      /\ pc[t] \notin {"out", "parked", "endWaiting"} \cup Stopping
      /\ l \notin {"out", "parked", "endWaiting"} \cup Stopping
      /\ pc[t] \in Rootless <=> l \in Rootless
      /\ pc[t] \in Blocking <=> l \in Blocking
  BY <1>1, <1>3 DEF Inv, Types, PCs, Stopping, Rootless, Blocking, Holders
<1> HIDE DEF l
<1> QED
  BY <1>1, <1>2, <1>4, <1>5, Quiet

\* Steps that take or free the allocator lock.
LEMMA LockSteps ==
    ASSUME Inv, NEW t \in Threads,
           \/ \E c \in {"Alloc", "GC"} : Lock(t, c)
           \/ LockWait(t) \/ Unlock(t) \/ YieldUnlock(t)
    PROVE  Inv'
<1> DEFINE l == pc'[t]
<1>1. pc' = [pc EXCEPT ![t] = l] /\ ret' = ret
  BY DEF Inv, Types, Lock, LockWait, Unlock, YieldUnlock, Goto, locals
<1>2. UNCHANGED <<epoch, owner, registered, stopped, blocked, resuming, seen, isRegistered,
                  isBlocked, contexts, published, parkEpoch>>
  BY DEF Lock, LockWait, Unlock, YieldUnlock, world, roots, locals
<1>3. \/ pc[t] = "go" /\ l = "held" /\ gcMutex = None /\ gcMutex' = t
      \/ pc[t] = "go" /\ l = "lockBegin" /\ gcMutex' = gcMutex
      \/ pc[t] = "lockWait" /\ l = "lockDone" /\ gcMutex = None /\ gcMutex' = t
      \/ pc[t] \in {"held", "unlock"} /\ l = "go" /\ gcMutex' = None
      \/ pc[t] = "yieldUnlock" /\ l = "yield" /\ gcMutex' = None
  BY DEF Inv, Types, Lock, LockWait, Unlock, YieldUnlock, Goto, At
<1>4. Holding'
  BY <1>1, <1>3, WasiAssumption DEF Inv, Types, Holding, Holders, Stopping, Locking
<1>5. /\ l \in PCs /\ ret' \in [Threads -> {"go", "held"}]
      /\ pc[t] \notin {"out", "parked", "endWaiting"} \cup Stopping
      /\ l \notin {"out", "parked", "endWaiting"} \cup Stopping
      /\ pc[t] \in Rootless <=> l \in Rootless
      /\ pc[t] \in Blocking <=> l \in Blocking
  BY <1>1, <1>3 DEF Inv, Types, PCs, Stopping, Rootless, Blocking, Holders
<1> HIDE DEF l
<1> QED
  BY <1>1, <1>2, <1>4, <1>5, Quiet

\* Threads come and go only outside a stop, or off the registry first.
LEMMA EnterLeave ==
    ASSUME Inv, NEW t \in Threads,
           Enter(t) \/ RegisterCurrentThread(t) \/ LeaveBegin(t) \/ Unregister(t) \/ LeaveEnd(t)
    PROVE  Inv'
<1> USE DEF Inv, At, Goto, Publish
<1>1. CASE Enter(t) /\ Odd(epoch)
  BY <1>1, Still DEF Enter, core, roots, allocator, locals
<1>2. CASE Enter(t) /\ ~Odd(epoch)
  <2>0. /\ pc[t] = "out" /\ pc' = [pc EXCEPT ![t] = "entering"]
        /\ isRegistered' = [isRegistered EXCEPT ![t] = TRUE]
        /\ UNCHANGED <<epoch, seen, parkEpoch, isBlocked, published, contexts, ret>>
    BY <1>2 DEF Enter, roots, locals
  <2>1. Types' /\ Flags'
    BY <2>0 DEF Types, Flags, PCs, Blocking, Rootless
  <2>2. Holding' /\ Parity' /\ Answers' /\ Alone'
    BY <1>2 DEF Enter, Types, Holding, Parity, Answers, Alone, PCs, Holders, Stopping, Locking,
                allocator, locals
  <2>3. Counts'
    <3>1. Adds(t, "entering")
      BY <1>2, <2>0, CountTypes DEF Adds, Delta, Inside, HeldBack,
             Enter, PCs, Rootless, Blocking
    <3> QED
      BY <3>1, <1>2, <2>0, CountsMove
  <2> QED
    BY <2>1, <2>2, <2>3
<1>3. CASE RegisterCurrentThread(t) \/ LeaveBegin(t) \/ Unregister(t)
  <2> DEFINE l == pc'[t]
  <2>0. /\ pc' = [pc EXCEPT ![t] = l]
        /\ \/ pc[t] = "entering" /\ l = "go"
           \/ pc[t] = "go" /\ l = "leaving"
           \/ pc[t] = "leaving" /\ l = "left"
        /\ UNCHANGED <<world, allocator, locals>>
    BY <1>3 DEF RegisterCurrentThread, LeaveBegin, Unregister, Types
  <2>1. Types' /\ Flags'
    BY <1>3, <2>0 DEF RegisterCurrentThread, LeaveBegin, Unregister, Types, Flags, PCs, Blocking,
                      Rootless, world, locals
  <2>2. Holding' /\ Parity' /\ Answers' /\ Alone'
    BY <2>0 DEF Types, Holding, Parity, Answers, Alone, Odd, Holders, Stopping, Locking, Blocking,
                world, allocator, locals
  <2>3. Counts'
    <3> HIDE DEF l
    <3>1. Adds(t, l)
      BY <2>0, CountTypes DEF Adds, Delta, Inside, HeldBack, Odd, PCs, Rootless, Blocking, world
    <3> QED
      BY <3>1, <2>0, CountsMove
  <2> QED
    BY <2>1, <2>2, <2>3
<1>4. CASE LeaveEnd(t)
  <2>0. pc[t] = "left" /\ pc' = [pc EXCEPT ![t] = "out"] /\ epoch' = epoch
    BY <1>4 DEF LeaveEnd
  <2>1. Types' /\ Flags'
    BY <1>4 DEF LeaveEnd, Types, Flags, PCs, Blocking, Rootless, roots, locals
  <2>2. Holding' /\ Parity' /\ Answers' /\ Alone'
    BY <1>4 DEF LeaveEnd, Types, Holding, Parity, Answers, Alone, Odd, Holders, Stopping, Locking,
                Blocking, allocator, locals
  <2>3. Counts'
    <3>1. Adds(t, "out")
      BY <1>4, <2>0, CountTypes DEF Adds, Delta, Inside, HeldBack,
             LeaveEnd, Odd, PCs, Rootless, Blocking
    <3> QED
      BY <3>1, <1>4, <2>0, CountsMove
  <2> QED
    BY <2>1, <2>2, <2>3
<1> QED
  BY <1>1, <1>2, <1>3, <1>4

\* world_begin_wait, from its three callers.
LEMMA WaitBegins ==
    ASSUME Inv, NEW t \in Threads, Wait(t) \/ LockBegin(t) \/ YieldBegin(t)
    PROVE  Inv'
<1> USE DEF Inv, Goto
<1> DEFINE l == pc'[t]
<1>0. /\ pc' = [pc EXCEPT ![t] = l] /\ gcMutex' = gcMutex
      /\ \/ pc[t] = "go" /\ l = "waiting" /\ ret' = ret
         \/ pc[t] = "lockBegin" /\ l = "lockWait" /\ ret' = [ret EXCEPT ![t] = "held"]
         \/ pc[t] = "yieldBegin" /\ l = "yieldCount" /\ ret' = ret
  BY DEF Wait, LockBegin, YieldBegin, BeginWait, At, Types, allocator, locals
<1>1. /\ isBlocked' = [isBlocked EXCEPT ![t] = TRUE] /\ blocked' = blocked + 1
      /\ published' = [published EXCEPT ![t] = "current"]
      /\ UNCHANGED <<epoch, owner, registered, stopped, resuming, seen, isRegistered, contexts,
                     parkEpoch>>
  BY DEF Wait, LockBegin, YieldBegin, BeginWait, Publish, locals
<1>2. Types' /\ Flags'
  BY <1>0, <1>1 DEF Types, Flags, PCs, Holders, Blocking, Rootless
<1>3. Holding' /\ Parity' /\ Answers' /\ Alone'
  BY <1>0, <1>1 DEF Types, Holding, Parity, Answers, Alone, Odd, Holders, Stopping, Locking,
                    Blocking
<1>4. Counts'
  <2> HIDE DEF l
  <2>1. Adds(t, l)
    BY <1>0, <1>1, CountTypes DEF Adds, Delta, Inside, HeldBack, Odd, PCs, Holders, Blocking
  <2> QED
    BY <2>1, <1>0, <1>1, CountsMove
<1> QED
  BY <1>2, <1>3, <1>4

\* world_end_wait: back to the caller outside a stop, held back during one.
LEMMA WaitEnds ==
    ASSUME Inv, NEW t \in Threads, EndWait(t) \/ EndWaitInStop(t) \/ EndWaiting(t)
    PROVE  Inv'
<1> USE DEF Inv, Goto, At
<1>1. CASE EndWaiting(t) /\ Odd(epoch)
  BY <1>1, Still DEF EndWaiting, core, roots, allocator, locals
<1>2. CASE EndWaitInStop(t)
  <2>0. pc[t] = "endWait" /\ pc' = [pc EXCEPT ![t] = "endWaiting"]
    BY <1>2 DEF EndWaitInStop
  <2>1. Types' /\ Flags'
    BY <1>2 DEF EndWaitInStop, Types, Flags, PCs, Blocking, Rootless, roots, locals
  <2>2. Holding' /\ Parity' /\ Answers' /\ Alone'
    BY <1>2 DEF EndWaitInStop, Types, Holding, Parity, Answers, Alone, Odd, Holders, Stopping,
                Locking, Blocking, allocator, locals
  <2>3. Counts'
    <3>1. Adds(t, "endWaiting")
      BY <1>2, <2>0, CountTypes DEF Adds, Delta, Inside, HeldBack,
             EndWaitInStop, Odd, PCs, Blocking
    <3> QED
      BY <3>1, <1>2, <2>0, CountsMove
  <2> QED
    BY <2>1, <2>2, <2>3
<1>3. CASE (EndWait(t) \/ EndWaiting(t)) /\ ~Odd(epoch)
  <2>0. /\ pc' = [pc EXCEPT ![t] = ret[t]] /\ ret[t] \in {"go", "held"}
        /\ \/ pc[t] = "endWait" /\ resuming' = resuming
           \/ pc[t] = "endWaiting" /\ resuming' = resuming - 1
    BY <1>3 DEF EndWait, EndWaiting, Unblock, Types
  <2>1. /\ ret' = [ret EXCEPT ![t] = "go"] /\ blocked' = blocked - 1
        /\ isBlocked' = [isBlocked EXCEPT ![t] = FALSE]
        /\ published' = [published EXCEPT ![t] = "older"]
        /\ UNCHANGED <<epoch, owner, registered, stopped, seen, isRegistered, contexts, gcMutex,
                       parkEpoch>>
    BY <1>3 DEF EndWait, EndWaiting, Unblock, Publish, allocator
  <2>2. Types' /\ Flags'
    BY <2>0, <2>1 DEF Types, Flags, PCs, Holders, Blocking, Rootless
  <2>3. Holding'
    BY <2>0, <2>1 DEF Types, Holding, Holders, Stopping, Locking
  <2>4. Parity' /\ Answers' /\ Alone'
    BY <1>3, <2>0, <2>1 DEF Types, Parity, Answers, Alone, Odd, Stopping
  <2>5. Counts'
    <3>1. Adds(t, ret[t])
      BY <1>3, <2>0, <2>1, CountTypes DEF Adds, Delta, Inside, HeldBack,
             Odd, PCs, Holders, Blocking
    <3> QED
      BY <3>1, <1>3, <2>0, <2>1, CountsMove
  <2> QED
    BY <2>2, <2>3, <2>4, <2>5
<1> QED
  BY <1>1, <1>2, <1>3 DEF EndWait, EndWaiting

\* A thread answers a stop at a safepoint, and leaves it after the stop's end.
LEMMA ParkSteps ==
    ASSUME Inv, NEW t \in Threads, Park(t) \/ Parked(t)
    PROVE  Inv'
<1> USE DEF Inv, Goto, At, Publish
<1>1. CASE Park(t) /\ MustStop(t)
  <2>0. /\ pc[t] = "park" /\ pc' = [pc EXCEPT ![t] = "parked"] /\ Odd(epoch)
        /\ seen' = [seen EXCEPT ![t] = epoch] /\ parkEpoch' = [parkEpoch EXCEPT ![t] = epoch]
        /\ published' = [published EXCEPT ![t] = "current"] /\ resuming' = resuming + 1
        /\ UNCHANGED <<epoch, owner, registered, blocked, isRegistered, isBlocked, contexts,
                       gcMutex, ret>>
    BY <1>1 DEF Park, MustStop, Acknowledge, allocator
  <2>1. seen[t] # epoch
    BY <2>0 DEF Answers
  <2>2. stopped' = stopped + 1
    BY <1>1, <2>1 DEF Park, Acknowledge
  <2>3. Types' /\ Flags'
    BY <2>0 DEF Types, Flags, PCs, Blocking, Rootless
  <2>4. Holding' /\ Parity' /\ Alone'
    BY <2>0 DEF Types, Holding, Parity, Alone, Odd, Holders, Stopping, Locking, Blocking
  <2>5. Answers'
    BY <2>0 DEF Types, Answers, Odd
  <2>6. Counts'
    <3>1. Adds(t, "parked")
      BY <2>0, <2>2, CountTypes DEF Adds, Delta, Inside, HeldBack, Odd, PCs, Blocking
    <3> QED
      BY <2>0, <3>1, CountsMove
  <2> QED
    BY <2>3, <2>4, <2>5, <2>6
<1>2. CASE Park(t) /\ ~MustStop(t)
  <2>0. /\ pc[t] = "park" /\ pc' = [pc EXCEPT ![t] = "go"]
        /\ published' = [published EXCEPT ![t] = "older"]
        /\ UNCHANGED <<epoch, owner, registered, stopped, blocked, resuming, seen, isRegistered,
                       isBlocked, contexts, gcMutex, parkEpoch, ret>>
    BY <1>2 DEF Park, allocator
  <2>1. Types' /\ Flags'
    BY <2>0 DEF Types, Flags, PCs, Blocking, Rootless
  <2>2. Holding' /\ Parity' /\ Answers' /\ Alone'
    BY <2>0 DEF Types, Holding, Parity, Answers, Alone, Odd, Holders, Stopping, Locking, Blocking
  <2>3. Counts'
    <3>1. Adds(t, "go")
      BY <2>0, CountTypes DEF Adds, Delta, Inside, HeldBack, Odd, PCs, Blocking
    <3> QED
      BY <2>0, <3>1, CountsMove
  <2> QED
    BY <2>1, <2>2, <2>3
<1>3. CASE Parked(t) /\ epoch = parkEpoch[t]
  BY <1>3, Still DEF Parked, core, allocator
<1>4. CASE Parked(t) /\ epoch # parkEpoch[t]
  <2>1. ~Odd(epoch) /\ ~MustStop(t) /\ pc[t] = "parked"
    BY <1>4 DEF Parked, Answers, MustStop
  <2>2. /\ pc' = [pc EXCEPT ![t] = "go"] /\ resuming' = resuming - 1
        /\ parkEpoch' = [parkEpoch EXCEPT ![t] = 0]
        /\ published' = [published EXCEPT ![t] = "older"]
        /\ UNCHANGED <<epoch, owner, registered, stopped, blocked, seen, isRegistered, isBlocked,
                       contexts, gcMutex, ret>>
    BY <1>4, <2>1 DEF Parked, allocator
  <2>3. Types' /\ Flags'
    BY <2>1, <2>2 DEF Types, Flags, PCs, Blocking, Rootless
  <2>4. Holding' /\ Parity' /\ Answers' /\ Alone'
    BY <2>1, <2>2 DEF Types, Holding, Parity, Answers, Alone, Odd, Holders, Stopping, Locking,
                      Blocking
  <2>5. Counts'
    <3>1. Adds(t, "go")
      BY <2>1, <2>2, CountTypes DEF Adds, Delta, Inside, HeldBack, Odd, PCs, Blocking
    <3> QED
      BY <2>2, <3>1, CountsMove
  <2> QED
    BY <2>3, <2>4, <2>5
<1> QED
  BY <1>1, <1>2, <1>3, <1>4

-----------------------------------------------------------------------------
(***************************************************************************)
(* The collector                                                           *)
(***************************************************************************)
\* Once as many are blocked or parked as there are other threads, they all are.
LEMMA Rendezvous ==
    ASSUME Inv, NEW t \in Threads, pc[t] \in Holders \ Blocking,
           NEW n \in Nat, n = Cardinality(Where(pc, {"parked"})), n + blocked >= registered - 1
    PROVE  \A u \in Threads \ {t} : pc[u] \in Blocking \cup {"out", "parked"}
<1> DEFINE P == Where(pc, {"parked"})
           B == Where(pc, Blocking)
           R == Where(pc, Inside)
<1>1. IsFiniteSet(P) /\ IsFiniteSet(B) /\ IsFiniteSet(R)
  BY WasiAssumption, FS_Subset DEF Where
<1>2. P \cap B = {} /\ P \cup B \subseteq R \ {t} /\ t \in R
  BY DEF Inv, Types, Where, Inside, PCs, Blocking, Holders, Stopping
<1>3. /\ IsFiniteSet(P \cup B)
      /\ Cardinality(P \cup B) = Cardinality(P) + Cardinality(B) - Cardinality(P \cap B)
  BY <1>1, FS_Union
<1>4. Cardinality(P \cap B) = 0
  BY <1>2, FS_EmptySet
<1>5. IsFiniteSet(R \ {t}) /\ Cardinality(R \ {t}) = Cardinality(R) - 1
  BY <1>1, <1>2, FS_RemoveElement
<1>6. registered = Cardinality(R) /\ blocked = Cardinality(B)
  BY DEF Inv, Counts
<1>7. Cardinality(P) \in Nat /\ Cardinality(B) \in Nat /\ Cardinality(R) \in Nat
  BY <1>1, FS_CardinalityType
<1>8. Cardinality(P \cup B) >= Cardinality(R \ {t})
  <2> HIDE DEF P, B, R
  <2>1. Cardinality(P) = n
    BY DEF P
  <2> QED
    BY <2>1, <1>3, <1>4, <1>5, <1>6, <1>7
<1>9. P \cup B = R \ {t}
  <2> HIDE DEF P, B, R
  <2>1. Cardinality(P \cup B) \in Nat /\ Cardinality(R \ {t}) \in Nat
    BY <1>3, <1>5, FS_CardinalityType
  <2>2. Cardinality(P \cup B) <= Cardinality(R \ {t})
    BY <1>2, <1>5, FS_Subset
  <2>3. Cardinality(P \cup B) = Cardinality(R \ {t})
    BY <1>8, <2>1, <2>2
  <2> QED
    BY <1>2, <1>5, <2>3, FS_Subset
<1> QED
  BY <1>9 DEF Inv, Types, Where, Inside

LEMMA StopBegins ==
    ASSUME Inv, NEW t \in Threads, Stop(t)
    PROVE  Inv'
<1> USE DEF Inv, Goto, At
<1> DEFINE l == IF blocked >= registered - 1 THEN "collect" ELSE "stopWait"
<1>0. /\ pc[t] = "stop" /\ pc' = [pc EXCEPT ![t] = l] /\ resuming = 0 /\ stopped' = 0
      /\ epoch' = epoch + 1 /\ owner' = t
      /\ UNCHANGED <<registered, blocked, resuming, seen, isRegistered, isBlocked, contexts,
                     published, gcMutex, parkEpoch, ret>>
  BY DEF Stop, roots, allocator, locals
<1>1. /\ \A u \in Threads \ {t} : pc[u] \notin Holders
      /\ ~Odd(epoch)
  BY <1>0, OneStops DEF Holders, Stopping
<1>2. Odd(epoch')
  BY <1>0, <1>1, OddNext DEF Types
<1>3. \A u \in Threads : pc[u] \notin HeldBack
  <2>1. IsFiniteSet(Where(pc, HeldBack)) /\ Cardinality(Where(pc, HeldBack)) = 0
    BY <1>0, WasiAssumption, FS_Subset DEF Where, Counts
  <2>2. Where(pc, HeldBack) = {}
    BY <2>1, FS_EmptySet
  <2> QED
    BY <2>2 DEF Where
<1>4. Where(pc, {"parked"}) = {} /\ Where(pc', {"parked"}) = {}
  BY <1>0, <1>3 DEF Where, Types, HeldBack
<1>5. Types' /\ Flags'
  BY <1>0 DEF Types, Flags, PCs, Holders, Stopping, Blocking, Rootless
<1>6. Holding'
  BY <1>0 DEF Types, Holding, Holders, Stopping, Locking
<1>7. Parity'
  BY <1>0, <1>1, <1>2 DEF Types, Parity, Holders, Stopping
<1>8. Answers'
  BY <1>0, <1>3 DEF Types, Answers, HeldBack
<1>9. Counts'
  <2>1. l \in {"collect", "stopWait"}
    OBVIOUS
  <2> HIDE DEF l
  <2>2. /\ Delta(Inside, pc[t], l) = 0 /\ Delta(Blocking, pc[t], l) = 0
        /\ Delta(HeldBack, pc[t], l) = 0
    BY <1>0, <2>1 DEF Delta, Inside, HeldBack, PCs, Holders, Stopping, Blocking
  <2>3. /\ registered' = registered + Delta(Inside, pc[t], l)
        /\ blocked' = blocked + Delta(Blocking, pc[t], l)
        /\ resuming' = resuming + Delta(HeldBack, pc[t], l)
    <3>1. registered \in Nat /\ blocked \in Nat /\ resuming \in Nat
      BY CountTypes, Zenon
    <3>2. registered' = registered /\ blocked' = blocked /\ resuming' = resuming
      BY <1>0, Zenon
    <3>3. \A k \in Nat : k = k + 0
      OBVIOUS
    <3> QED
      BY <2>2, <3>1, <3>2, <3>3, Zenon
  <2>4. stopped' = 0
    BY <1>0
  <2>5. Adds(t, l)
    BY <1>4, <2>3, <2>4, Zenon DEF Adds
  <2> QED
    BY <1>0, <2>5, CountsMove
<1>10. Alone'
  <2>1. pc[t] \in Holders \ Blocking
    BY <1>0 DEF Holders, Blocking
  <2>2. Cardinality(Where(pc, {"parked"})) = 0
    BY <1>4, FS_EmptySet
  <2>3. l = "collect" => \A u \in Threads \ {t} : pc[u] \in Blocking \cup {"out", "parked"}
    <3>1. l = "collect" => 0 + blocked >= registered - 1
      BY CountTypes
    <3> HIDE DEF l
    <3> QED
      BY <2>1, <2>2, <3>1, Rendezvous
  <2> QED
    BY <1>0, <1>1, <2>3 DEF Types, Alone, Holders, Stopping
<1> QED
  BY <1>5, <1>6, <1>7, <1>8, <1>9, <1>10

LEMMA StopWaits ==
    ASSUME Inv, NEW t \in Threads, StopWait(t)
    PROVE  Inv'
<1> USE DEF Inv, Goto, At
<1>1. CASE stopped + blocked < registered - 1
  BY <1>1, Still DEF StopWait, core, roots, allocator, locals
<1>2. CASE ~(stopped + blocked < registered - 1)
  <2>0. /\ pc[t] = "stopWait" /\ pc' = [pc EXCEPT ![t] = "collect"]
        /\ UNCHANGED <<epoch, owner, registered, stopped, blocked, resuming, seen, isRegistered,
                       isBlocked, contexts, published, gcMutex, parkEpoch, ret>>
    BY <1>2 DEF StopWait, roots, allocator, locals
  <2>1. \A u \in Threads \ {t} : pc[u] \notin Holders
    BY <2>0, OneStops DEF Holders, Stopping
  <2>2. Odd(epoch) /\ stopped = Cardinality(Where(pc, {"parked"}))
    BY <2>0 DEF Parity, Stopping, Counts
  <2>3. Types' /\ Flags'
    BY <2>0 DEF Types, Flags, PCs, Holders, Stopping, Blocking, Rootless
  <2>4. Holding' /\ Parity' /\ Answers'
    BY <2>0 DEF Types, Holding, Parity, Answers, Odd, Holders, Stopping, Locking
  <2>5. Counts'
    <3>1. Adds(t, "collect")
      BY <2>0, CountTypes DEF Adds, Delta, Inside, HeldBack, Odd, PCs, Holders, Stopping, Blocking
    <3> QED
      BY <2>0, <3>1, CountsMove
  <2>6. Alone'
    <3>1. pc[t] \in Holders \ Blocking
      BY <2>0 DEF Holders, Stopping, Blocking
    <3>2. stopped \in Nat /\ stopped + blocked >= registered - 1
      BY <1>2, <2>2, CountTypes
    <3>3. \A u \in Threads \ {t} : pc[u] \in Blocking \cup {"out", "parked"}
      BY <2>2, <3>1, <3>2, Rendezvous
    <3> QED
      BY <2>0, <2>1, <3>3 DEF Types, Alone, Holders, Stopping
  <2> QED
    BY <2>3, <2>4, <2>5, <2>6
<1> QED
  BY <1>1, <1>2

\* A stop ends the same way after a collection and at its deadline.
LEMMA StopEnds ==
    ASSUME Inv, NEW t \in Threads, StopTimeout(t) \/ Resume(t)
    PROVE  Inv'
<1> USE DEF Inv, Goto, At
<1> DEFINE l == AfterGC(t)
<1>0. /\ pc[t] \in Stopping /\ pc' = [pc EXCEPT ![t] = l] /\ l \in {"finish", "held"}
      /\ epoch' = epoch + 1
      /\ UNCHANGED <<owner, registered, stopped, blocked, resuming, seen, isRegistered, isBlocked,
                     contexts, published, gcMutex, parkEpoch, ret>>
  BY DEF StopTimeout, Resume, AfterGC, Stopping, roots, allocator, locals
<1>1. \A u \in Threads \ {t} : pc[u] \notin Holders
  BY <1>0, OneStops DEF Holders
<1>2. ~Odd(epoch')
  BY <1>0, OddNext DEF Types, Parity
<1> HIDE DEF l
<1>3. Types' /\ Flags'
  BY <1>0 DEF Types, Flags, PCs, Holders, Stopping, Blocking, Rootless
<1>4. Holding'
  BY <1>0 DEF Types, Holding, Holders, Stopping, Locking
<1>5. Parity' /\ Answers' /\ Alone'
  BY <1>0, <1>1, <1>2 DEF Types, Parity, Answers, Alone, Holders, Stopping
<1>6. Counts'
  <2>1. Adds(t, l)
    BY <1>0, <1>2, CountTypes DEF Adds, Delta, Inside, HeldBack, PCs, Holders, Stopping, Blocking
  <2> QED
    BY <1>0, <2>1, CountsMove
<1> QED
  BY <1>3, <1>4, <1>5, <1>6

LEMMA StepKeepsInv ==
    ASSUME Inv, Next
    PROVE  Inv'
<1>1. PICK t \in Threads : Must(t) \/ May(t) \/ LockWait(t) \/ StopTimeout(t)
  BY DEF Next
<1>2. CASE YieldNap(t) \/ StopDrain(t) \/ SpuriousWake(t)
  BY <1>2, Still DEF YieldNap, StopDrain, SpuriousWake, core, world, roots, allocator, locals
<1>3. CASE Must(t)
  BY <1>2, <1>3, QuietSteps, LockSteps, EnterLeave, WaitBegins, WaitEnds, ParkSteps, StopBegins,
     StopWaits, StopEnds, Zenon DEF Must
<1>4. CASE May(t)
  BY <1>2, <1>4, QuietSteps, LockSteps, EnterLeave, WaitBegins, Zenon DEF May
<1> QED
  BY <1>1, <1>3, <1>4, LockSteps, StopEnds

\* In every reachable state the words of wasi_gc_world.c agree with where the threads
\* are: the inductive invariant from which the theorems below follow.
THEOREM Invariance == Spec => []Inv
<1>1. Init => Inv
  <2> SUFFICES ASSUME Init
               PROVE  Inv
    OBVIOUS
  <2>1. \A L : "out" \notin L => Where(pc, L) = {}
    BY DEF Init, Where
  <2>2. Counts
    BY <2>1, FS_EmptySet DEF Init, Counts, Odd, Inside, Blocking, HeldBack
  <2> QED
    BY <2>2, WasiAssumption DEF Init, Inv, Types, Flags, Holding, Parity, Answers, Alone, Odd, PCs,
                Blocking, Rootless, Holders, Stopping, Locking
<1>2. Inv /\ [Next]_vars => Inv'
  <2>1. UNCHANGED vars => UNCHANGED core
    BY DEF vars, core, world, roots, allocator, locals
  <2> QED
    BY <2>1, StepKeepsInv, Still
<1> QED
  BY <1>1, <1>2, PTL DEF Spec

-----------------------------------------------------------------------------
(***************************************************************************)
(* The properties, for every finite set of threads                         *)
(***************************************************************************)
\* The counters of wasi_gc_world.c are exact in every state.
THEOREM CountsAreExact == Spec => []CountsExact
<1>1. Inv => CountsExact
  <2> SUFFICES ASSUME Inv
               PROVE  CountsExact
    OBVIOUS
  <2>1. {t \in Threads : isRegistered[t]} = Where(pc, Inside)
    BY DEF Inv, Types, Flags, Where, Inside
  <2>2. {t \in Threads : isBlocked[t]} = Where(pc, Blocking)
    BY DEF Inv, Types, Flags, Where
  <2>3. Suspended = Where(pc, HeldBack)
    BY DEF Suspended, Where, HeldBack
  <2>4. Odd(epoch) => {t \in Threads : pc[t] = "parked" /\ parkEpoch[t] = epoch}
                         = Where(pc, {"parked"})
    BY DEF Inv, Answers, Where
  <2> QED
    BY <2>1, <2>2, <2>3, <2>4 DEF Inv, Counts, CountsExact
<1> QED
  BY <1>1, Invariance, PTL

\* While a thread collects, every other one is outside Go or suspended in a
\* frame whose stack range it has published.
THEOREM CollectsAlone == Spec => []CollectAlone
<1>1. Inv => CollectAlone
  <2> SUFFICES ASSUME Inv, NEW t \in Threads, pc[t] = "collect", NEW u \in Threads \ {t}
               PROVE  \/ pc[u] = "out" /\ u \notin contexts
                      \/ u \in contexts /\ published[u] = "current"
    BY DEF CollectAlone
  <2>1. pc[u] \in Blocking \cup {"out", "parked"}
    BY DEF Inv, Alone
  <2> QED
    BY <2>1 DEF Inv, Flags, Blocking, Rootless
<1> QED
  BY <1>1, Invariance, PTL

\* No __builtin_trap of wasi_gc_world.c is reached.
THEOREM TrapUnreachable == Spec => []NoTrap
<1>1. Inv => NoTrap
  <2> SUFFICES ASSUME Inv, NEW t \in Threads
               PROVE  /\ pc[t] = "stop" => ~Odd(epoch) /\ isRegistered[t] /\ registered # 0
                      /\ pc[t] = "collect" => Odd(epoch) /\ owner = t
                      /\ pc[t] \in {"endWait", "endWaiting"} => isBlocked[t] /\ blocked # 0
                      /\ pc[t] = "left" => isRegistered[t] /\ registered # 0
    BY DEF NoTrap
  <2>1. \A L : pc[t] \in L => Cardinality(Where(pc, L)) # 0
    <3> SUFFICES ASSUME NEW L, pc[t] \in L
                 PROVE  Cardinality(Where(pc, L)) # 0
      OBVIOUS
    <3>1. IsFiniteSet(Where(pc, L)) /\ t \in Where(pc, L)
      BY WasiAssumption, FS_Subset DEF Where
    <3> QED
      BY <3>1, FS_EmptySet
  <2>2. pc[t] # "out" => registered # 0
    BY <2>1 DEF Inv, Types, Counts, Inside
  <2>3. pc[t] \in Blocking => blocked # 0
    BY <2>1 DEF Inv, Counts
  <2>4. pc[t] = "stop" => ~Odd(epoch)
    BY OneStops DEF Holders, Stopping
  <2>5. pc[t] = "collect" => Odd(epoch) /\ owner = t
    BY DEF Inv, Parity, Stopping
  <2>6. /\ pc[t] # "out" => isRegistered[t]
        /\ pc[t] \in {"endWait", "endWaiting"} => isBlocked[t] /\ pc[t] \in Blocking
    BY DEF Inv, Flags, Blocking
  <2> QED
    BY <2>2, <2>3, <2>4, <2>5, <2>6
<1> QED
  BY <1>1, Invariance, PTL

\* A thread parked for one stop is back in Go before it answers another.
THEOREM NeverReparks == Spec => NoRepark
<1>1. Inv /\ [Next]_vars => [\A t \in Threads :
          pc[t] = "parked" /\ pc'[t] = "parked" => parkEpoch'[t] = parkEpoch[t]]_vars
  <2> SUFFICES ASSUME Inv, Next, Inv', NEW t \in Threads, pc[t] = "parked", pc'[t] = "parked"
               PROVE  parkEpoch'[t] = parkEpoch[t]
    BY StepKeepsInv
  <2>1. PICK u \in Threads : Must(u) \/ May(u) \/ LockWait(u) \/ StopTimeout(u)
    BY DEF Next
  <2>2. CASE Park(u) \/ (Parked(u) /\ epoch = parkEpoch[u])
    BY <2>2 DEF Inv, Types, Park, Parked, Acknowledge, At
  <2>3. CASE Parked(u) /\ epoch # parkEpoch[u]
    <3>1. ~MustStop(u)
      BY <2>3 DEF Inv, Answers, Parked, MustStop, At
    <3> QED
      BY <2>3, <3>1 DEF Inv, Types, Parked, Goto, At
  <2>4. CASE UNCHANGED parkEpoch
    BY <2>4
  <2>5. Park(u) \/ Parked(u) \/ UNCHANGED parkEpoch
    BY <2>1 DEF Must, May, Enter, RegisterCurrentThread, LeaveBegin, Unregister, LeaveEnd, CallC,
        ReturnFromC, Wait, WaitOver, EndWait, EndWaitInStop, EndWaiting, Unblock, Safepoint, Lock,
        LockBegin, LockWait, LockDone, LockGeneration, LockNotify, Unlock, Finish, YieldBegin,
        YieldCount, YieldSample, YieldUnlock, YieldNap, YieldOver, CallStop, StopDrain, Stop,
        StopWait, StopTimeout, Resume, SpuriousWake, locals
  <2> QED
    BY <2>2, <2>3, <2>4, <2>5
<1> QED
  BY <1>1, Invariance, PTL DEF Spec, NoRepark
=============================================================================
