----------------------------- MODULE WasiGCWorld -----------------------------
(***************************************************************************)
(* Stop-the-world of the threaded WASI runtime                             *)
(* (runtime/_wrap/wasi_gc_world.c, wasi_gc_threads.go).                    *)
(*                                                                         *)
(* A critical section of world_mutex is one step.  A thread waiting on     *)
(* world_changed is in asleep until a broadcast (or a spurious wake-up)    *)
(* removes it; it then looks at its condition again.                       *)
(***************************************************************************)
EXTENDS Integers, FiniteSets

CONSTANTS
    Threads,
    MaxStops,   \* bound: stops that may be requested
    MaxWaits,   \* bound: contended acquisitions of the allocator lock
    None

ASSUME WasiAssumption ==
    /\ IsFiniteSet(Threads)
    /\ None \notin Threads
    /\ MaxStops \in Nat /\ MaxWaits \in Nat

VARIABLES
    epoch, owner,                               \* world_epoch, world_owner
    registered, stopped, blocked, resuming,     \* the counters under world_mutex
    seen,                                       \* world_seen_epoch of each thread
    isRegistered, isBlocked,                    \* its world_is_registered, ..._blocked
    asleep,                                     \* threads waiting on world_changed
    contexts,                                   \* gcroot.contexts: threads whose roots are visited
    published,                                  \* their stack range: none, of an older frame, current
    gcMutex,                                    \* holder of the allocator lock
    waiters, generation, yielders,              \* allocator_waiters, ...
    napping,                                    \* threads waiting on allocator_generation
    pc, call, parkEpoch, sample, ret,           \* where a thread is, its locals
    stopsLeft, waitsLeft                        \* what is left of MaxStops and MaxWaits

world == <<epoch, owner, registered, stopped, blocked, resuming, seen, isRegistered,
           isBlocked, asleep>>
roots == <<contexts, published>>
allocator == <<gcMutex, waiters, generation, yielders, napping>>
locals == <<call, parkEpoch, sample, ret, stopsLeft, waitsLeft>>
vars == <<world, roots, allocator, pc, locals>>

Odd(e) == e % 2 = 1
Goto(t, l) == pc' = [pc EXCEPT ![t] = l]
At(t, l) == pc[t] = l /\ t \notin asleep \cup napping
Broadcast == asleep' = {}
Sleep(t) == asleep' = asleep \cup {t}
Publish(t, how) == published' = [published EXCEPT ![t] = how]

Init ==
    /\ epoch = 0 /\ owner = None
    /\ registered = 0 /\ stopped = 0 /\ blocked = 0 /\ resuming = 0
    /\ seen = [t \in Threads |-> 0]
    /\ isRegistered = [t \in Threads |-> FALSE]
    /\ isBlocked = [t \in Threads |-> FALSE]
    /\ asleep = {} /\ contexts = {}
    /\ published = [t \in Threads |-> "none"]
    /\ gcMutex = None
    /\ waiters = 0 /\ generation = 0 /\ yielders = 0 /\ napping = {}
    /\ pc = [t \in Threads |-> "out"]
    /\ call = [t \in Threads |-> "none"]
    /\ parkEpoch = [t \in Threads |-> 0]
    /\ sample = [t \in Threads |-> 0]
    /\ ret = [t \in Threads |-> "go"]
    /\ stopsLeft = MaxStops /\ waitsLeft = MaxWaits

(***************************************************************************)
(* Threads enter and leave Go, and call C                                  *)
(***************************************************************************)
\* llgo_wasi_gc_enter_begin waits for the end of a stop, then counts the thread.
Enter(t) ==
    /\ At(t, "out")
    /\ \/ /\ Odd(epoch)
          /\ Sleep(t)
          /\ UNCHANGED <<pc, isRegistered, registered>>
       \/ /\ ~Odd(epoch)
          /\ isRegistered' = [isRegistered EXCEPT ![t] = TRUE]
          /\ registered' = registered + 1
          /\ Goto(t, "entering")
          /\ UNCHANGED asleep
    /\ UNCHANGED <<epoch, owner, stopped, blocked, resuming, seen, isBlocked, roots,
                   allocator, locals>>

\* gcroot.RegisterCurrentThread; no safepoint is taken before it returns.
RegisterCurrentThread(t) ==
    /\ At(t, "entering")
    /\ contexts' = contexts \cup {t}
    /\ Goto(t, "go")
    /\ UNCHANGED <<world, published, allocator, locals>>

\* gcroot.UnregisterCurrentThread clears the range and then unlinks the context.
LeaveBegin(t) ==
    /\ At(t, "go")
    /\ Publish(t, "none")
    /\ Goto(t, "leaving")
    /\ UNCHANGED <<world, contexts, allocator, locals>>

Unregister(t) ==
    /\ At(t, "leaving")
    /\ contexts' = contexts \ {t}
    /\ Goto(t, "left")
    /\ UNCHANGED <<world, published, allocator, locals>>

\* Mutated form: world_registered still counts the thread that left.
LeaveEndCounted(t) ==
    /\ At(t, "left")
    /\ isRegistered' = [isRegistered EXCEPT ![t] = FALSE]
    /\ Broadcast
    /\ Goto(t, "out")
    /\ UNCHANGED <<epoch, owner, registered, stopped, blocked, resuming, seen, isBlocked,
                   roots, allocator, locals>>

LeaveEnd(t) ==
    /\ At(t, "left")
    /\ isRegistered' = [isRegistered EXCEPT ![t] = FALSE]
    /\ registered' = registered - 1
    /\ Broadcast
    /\ Goto(t, "out")
    /\ UNCHANGED <<epoch, owner, stopped, blocked, resuming, seen, isBlocked, roots,
                   allocator, locals>>

\* An uninstrumented C call reaches no safepoint until it returns, if ever.
CallC(t) ==
    /\ At(t, "go")
    /\ Goto(t, "c")
    /\ UNCHANGED <<world, roots, allocator, locals>>

ReturnFromC(t) ==
    /\ At(t, "c")
    /\ Goto(t, "go")
    /\ UNCHANGED <<world, roots, allocator, locals>>

(***************************************************************************)
(* world_begin_wait and world_end_wait around a blocking wait              *)
(***************************************************************************)
BeginWait(t, l) ==
    /\ Publish(t, "current")
    /\ isBlocked' = [isBlocked EXCEPT ![t] = TRUE]
    /\ blocked' = blocked + 1
    /\ asleep' = IF Odd(epoch) THEN {} ELSE asleep
    /\ Goto(t, l)
    /\ UNCHANGED <<epoch, owner, registered, stopped, resuming, seen, isRegistered, contexts>>

\* wait_uint32, cond_timedwait, a mutex_lock that finds the mutex taken.
Wait(t) ==
    /\ At(t, "go")
    /\ BeginWait(t, "waiting")
    /\ UNCHANGED <<allocator, locals>>

\* The awaited event happens, or the timed wait ends.
WaitOver(t) ==
    /\ At(t, "waiting")
    /\ Goto(t, "endWait")
    /\ UNCHANGED <<world, roots, allocator, locals>>

\* What world_end_wait does before it returns to the caller.
Unblock(t) ==
    /\ blocked' = blocked - 1
    /\ isBlocked' = [isBlocked EXCEPT ![t] = FALSE]
    /\ Publish(t, "older")
    /\ Goto(t, ret[t])
    /\ ret' = [ret EXCEPT ![t] = "go"]
    /\ UNCHANGED <<epoch, owner, registered, stopped, seen, isRegistered, contexts,
                   allocator, call, parkEpoch, sample, stopsLeft, waitsLeft>>

\* Mutated form: the thread returns to Go during a stop.
EndWaitNow(t) ==
    /\ At(t, "endWait")
    /\ Unblock(t)
    /\ UNCHANGED <<resuming, asleep>>

\* world_end_wait outside a stop: resuming goes up and down under the lock,
\* so notify never leads to a broadcast.
EndWait(t) ==
    /\ At(t, "endWait")
    /\ ~Odd(epoch)
    /\ Unblock(t)
    /\ UNCHANGED <<resuming, asleep>>

EndWaitInStop(t) ==
    /\ At(t, "endWait")
    /\ Odd(epoch)
    /\ resuming' = resuming + 1
    /\ Sleep(t)
    /\ Goto(t, "endWaiting")
    /\ UNCHANGED <<epoch, owner, registered, stopped, blocked, seen, isRegistered, isBlocked,
                   roots, allocator, locals>>

\* Mutated form: the collector that drains the last stop is not told.
EndWaitingSilent(t) ==
    /\ At(t, "endWaiting")
    /\ ~Odd(epoch)
    /\ resuming' = resuming - 1
    /\ UNCHANGED asleep
    /\ Unblock(t)

EndWaiting(t) ==
    /\ At(t, "endWaiting")
    /\ \/ /\ Odd(epoch)
          /\ Sleep(t)
          /\ UNCHANGED <<epoch, owner, registered, stopped, blocked, resuming, seen,
                         isRegistered, isBlocked, roots, allocator, pc, locals>>
       \/ /\ ~Odd(epoch)
          /\ resuming' = resuming - 1
          /\ asleep' = IF resuming = 1 THEN {} ELSE asleep
          /\ Unblock(t)

(***************************************************************************)
(* Safepoints: llgo_wasi_gc_pending and llgo_wasi_gc_park                  *)
(***************************************************************************)
MustStop(t) == Odd(epoch) /\ owner # t

Safepoint(t) ==
    /\ At(t, "go")
    /\ MustStop(t)
    /\ Goto(t, "park")
    /\ UNCHANGED <<world, roots, allocator, locals>>

\* One turn of park's loop: acknowledge the stop, wait for its end.
Acknowledge(t) ==
    /\ seen' = [seen EXCEPT ![t] = epoch]
    /\ stopped' = IF seen[t] # epoch THEN stopped + 1 ELSE stopped
    /\ asleep' = IF seen[t] # epoch THEN {t} ELSE asleep \cup {t}
    /\ parkEpoch' = [parkEpoch EXCEPT ![t] = epoch]
    /\ Goto(t, "parked")

Park(t) ==
    /\ At(t, "park")
    /\ \/ /\ MustStop(t)
          /\ Publish(t, "current")
          /\ resuming' = resuming + 1
          /\ Acknowledge(t)
       \/ /\ ~MustStop(t)
          /\ Publish(t, "older")
          /\ Broadcast
          /\ Goto(t, "go")
          /\ UNCHANGED <<resuming, stopped, seen, parkEpoch>>
    /\ UNCHANGED <<epoch, owner, registered, blocked, isRegistered, isBlocked, contexts,
                   allocator, call, sample, ret, stopsLeft, waitsLeft>>

\* Awake again in park: sleep on, answer another stop, or go back to Go.
Parked(t) ==
    /\ At(t, "parked")
    /\ IF epoch = parkEpoch[t]
       THEN /\ Sleep(t)
            /\ UNCHANGED <<pc, resuming, stopped, seen, parkEpoch, published>>
       ELSE IF MustStop(t)
       THEN /\ Acknowledge(t)
            /\ UNCHANGED <<resuming, published>>
       ELSE /\ resuming' = resuming - 1
            /\ Broadcast
            /\ parkEpoch' = [parkEpoch EXCEPT ![t] = 0]
            /\ Publish(t, "older")
            /\ Goto(t, "go")
            /\ UNCHANGED <<stopped, seen>>
    /\ UNCHANGED <<epoch, owner, registered, blocked, isRegistered, isBlocked, contexts,
                   allocator, call, sample, ret, stopsLeft, waitsLeft>>

(***************************************************************************)
(* The allocator lock                                                      *)
(***************************************************************************)
\* lock(&gcMutex) of Alloc or GC: trylock, or the first step of the wait.
Lock(t, c) ==
    /\ At(t, "go")
    /\ c = "GC" => stopsLeft > 0
    /\ stopsLeft' = IF c = "GC" THEN stopsLeft - 1 ELSE stopsLeft
    /\ call' = [call EXCEPT ![t] = c]
    /\ \/ /\ gcMutex = None
          /\ gcMutex' = t
          /\ Goto(t, "held")
          /\ UNCHANGED <<waiters, waitsLeft>>
       \/ /\ gcMutex # None
          /\ waitsLeft > 0
          /\ waitsLeft' = waitsLeft - 1
          /\ waiters' = waiters + 1
          /\ Goto(t, "lockBegin")
          /\ UNCHANGED gcMutex
    /\ UNCHANGED <<world, roots, generation, yielders, napping, parkEpoch, sample, ret>>

LockBegin(t) ==
    /\ At(t, "lockBegin")
    /\ BeginWait(t, "lockWait")
    /\ ret' = [ret EXCEPT ![t] = "held"]
    /\ UNCHANGED <<allocator, call, parkEpoch, sample, stopsLeft, waitsLeft>>

LockWait(t) ==
    /\ At(t, "lockWait")
    /\ gcMutex = None
    /\ gcMutex' = t
    /\ Goto(t, "lockDone")
    /\ UNCHANGED <<world, roots, waiters, generation, yielders, napping, locals>>

LockDone(t) ==
    /\ At(t, "lockDone")
    /\ waiters' = waiters - 1
    /\ Goto(t, "lockGeneration")
    /\ UNCHANGED <<world, roots, gcMutex, generation, yielders, napping, locals>>

\* Mutated form: the handoff is not recorded.
LockGenerationKept(t) ==
    /\ At(t, "lockGeneration")
    /\ Goto(t, "lockNotify")
    /\ UNCHANGED <<world, roots, allocator, locals>>

LockGeneration(t) ==
    /\ At(t, "lockGeneration")
    /\ generation' = generation + 1
    /\ Goto(t, "lockNotify")
    /\ UNCHANGED <<world, roots, gcMutex, waiters, yielders, napping, locals>>

\* Loads yielders and notifies allocator_generation.
LockNotify(t) ==
    /\ At(t, "lockNotify")
    /\ napping' = IF yielders # 0 THEN {} ELSE napping
    /\ Goto(t, "endWait")
    /\ UNCHANGED <<world, roots, gcMutex, waiters, generation, yielders, locals>>

\* unlock(&gcMutex) of Alloc, and of allocator_finish when nobody waits.
Unlock(t) ==
    /\ At(t, IF call[t] = "Alloc" THEN "held" ELSE "unlock")
    /\ gcMutex' = None
    /\ call' = [call EXCEPT ![t] = "none"]
    /\ Goto(t, "go")
    /\ UNCHANGED <<world, roots, waiters, generation, yielders, napping, parkEpoch, sample,
                   ret, stopsLeft, waitsLeft>>

\* llgo_wasi_gc_allocator_finish, at the end of an explicit GC.
Finish(t) ==
    /\ At(t, "finish")
    /\ Goto(t, IF waiters = 0 THEN "unlock" ELSE "yieldBegin")
    /\ UNCHANGED <<world, roots, allocator, locals>>

YieldBegin(t) ==
    /\ At(t, "yieldBegin")
    /\ BeginWait(t, "yieldCount")
    /\ UNCHANGED <<allocator, locals>>

YieldCount(t) ==
    /\ At(t, "yieldCount")
    /\ yielders' = yielders + 1
    /\ Goto(t, "yieldSample")
    /\ UNCHANGED <<world, roots, gcMutex, waiters, generation, napping, locals>>

YieldSample(t) ==
    /\ At(t, "yieldSample")
    /\ sample' = [sample EXCEPT ![t] = generation]
    /\ Goto(t, "yieldUnlock")
    /\ UNCHANGED <<world, roots, allocator, call, parkEpoch, ret, stopsLeft, waitsLeft>>

YieldUnlock(t) ==
    /\ At(t, "yieldUnlock")
    /\ gcMutex' = None
    /\ Goto(t, "yield")
    /\ UNCHANGED <<world, roots, waiters, generation, yielders, napping, locals>>

\* The load and wait32 of allocator_generation: wait32 compares again.
YieldNap(t) ==
    /\ At(t, "yield")
    /\ generation = sample[t]
    /\ napping' = napping \cup {t}
    /\ UNCHANGED <<world, roots, gcMutex, waiters, generation, yielders, pc, locals>>

YieldOver(t) ==
    /\ At(t, "yield")
    /\ generation # sample[t]
    /\ yielders' = yielders - 1
    /\ sample' = [sample EXCEPT ![t] = 0]
    /\ call' = [call EXCEPT ![t] = "none"]
    /\ Goto(t, "endWait")
    /\ UNCHANGED <<world, roots, gcMutex, waiters, generation, napping, parkEpoch, ret,
                   stopsLeft, waitsLeft>>

(***************************************************************************)
(* llgo_wasi_gc_stop and llgo_wasi_gc_resume                               *)
(***************************************************************************)
\* gc() calls gcStopWorld: once in GC, whenever no block is free in Alloc.
CallStop(t) ==
    /\ At(t, "held")
    /\ call[t] = "Alloc" => stopsLeft > 0
    /\ stopsLeft' = IF call[t] = "Alloc" THEN stopsLeft - 1 ELSE stopsLeft
    /\ Goto(t, "stop")
    /\ UNCHANGED <<world, roots, allocator, call, parkEpoch, sample, ret, waitsLeft>>

\* Where gc() returns to.
AfterGC(t) == IF call[t] = "GC" THEN "finish" ELSE "held"

StopDrain(t) ==
    /\ At(t, "stop")
    /\ resuming # 0
    /\ Sleep(t)
    /\ UNCHANGED <<epoch, owner, registered, stopped, blocked, resuming, seen, isRegistered,
                   isBlocked, roots, allocator, pc, locals>>

Stop(t) ==
    /\ At(t, "stop")
    /\ resuming = 0
    /\ owner' = t
    /\ stopped' = 0
    /\ epoch' = epoch + 1
    /\ Goto(t, IF blocked >= registered - 1 THEN "collect" ELSE "stopWait")
    /\ asleep' = IF blocked >= registered - 1 THEN asleep ELSE asleep \cup {t}
    /\ UNCHANGED <<registered, blocked, resuming, seen, isRegistered, isBlocked, roots,
                   allocator, locals>>

\* Awake in the timed wait.
StopWait(t) ==
    /\ At(t, "stopWait")
    /\ IF stopped + blocked < registered - 1
       THEN Sleep(t) /\ UNCHANGED pc
       ELSE Goto(t, "collect") /\ UNCHANGED asleep
    /\ UNCHANGED <<epoch, owner, registered, stopped, blocked, resuming, seen, isRegistered,
                   isBlocked, roots, allocator, locals>>

\* ETIMEDOUT ends the stop, whatever the counters say by then.
StopTimeout(t) ==
    /\ pc[t] = "stopWait"
    /\ epoch' = epoch + 1
    /\ Broadcast
    /\ Goto(t, AfterGC(t))
    /\ UNCHANGED <<owner, registered, stopped, blocked, resuming, seen, isRegistered,
                   isBlocked, roots, allocator, locals>>

\* Mutated form: the threads of the ended stop are left asleep.
ResumeSilent(t) ==
    /\ At(t, "collect")
    /\ epoch' = epoch + 1
    /\ UNCHANGED asleep
    /\ Goto(t, AfterGC(t))
    /\ UNCHANGED <<owner, registered, stopped, blocked, resuming, seen, isRegistered,
                   isBlocked, roots, allocator, locals>>

\* Mark and sweep, then llgo_wasi_gc_resume.
Resume(t) ==
    /\ At(t, "collect")
    /\ epoch' = epoch + 1
    /\ Broadcast
    /\ Goto(t, AfterGC(t))
    /\ UNCHANGED <<owner, registered, stopped, blocked, resuming, seen, isRegistered,
                   isBlocked, roots, allocator, locals>>

\* pthread_cond_wait may return with no broadcast.
SpuriousWake(t) ==
    /\ t \in asleep
    /\ asleep' = asleep \ {t}
    /\ UNCHANGED <<epoch, owner, registered, stopped, blocked, resuming, seen, isRegistered,
                   isBlocked, roots, allocator, pc, locals>>

(***************************************************************************)
(* Steps a thread must take once it can, and steps it may take             *)
(***************************************************************************)
Must(t) ==
    \/ RegisterCurrentThread(t) \/ Unregister(t) \/ LeaveEnd(t)
    \/ EndWait(t) \/ EndWaitInStop(t) \/ EndWaiting(t)
    \/ Park(t) \/ Parked(t)
    \/ LockBegin(t) \/ LockDone(t) \/ LockGeneration(t) \/ LockNotify(t)
    \/ Unlock(t) \/ Finish(t)
    \/ YieldBegin(t) \/ YieldCount(t) \/ YieldSample(t) \/ YieldUnlock(t)
    \/ YieldNap(t) \/ YieldOver(t)
    \/ CallStop(t) \/ StopDrain(t) \/ Stop(t) \/ StopWait(t) \/ Resume(t)

May(t) ==
    \/ Enter(t) \/ LeaveBegin(t) \/ CallC(t) \/ ReturnFromC(t)
    \/ Wait(t) \/ WaitOver(t) \/ Safepoint(t)
    \/ \E c \in {"Alloc", "GC"} : Lock(t, c)
    \/ SpuriousWake(t)

Next == \E t \in Threads : Must(t) \/ May(t) \/ LockWait(t) \/ StopTimeout(t)

Spec == Init /\ [][Next]_vars

\* A thread inside the runtime keeps running, the deadline of a stop passes,
\* and pthread_mutex_lock does not starve a waiter forever.
FairSpec ==
    /\ Spec
    /\ \A t \in Threads :
          WF_vars(Must(t)) /\ WF_vars(StopTimeout(t)) /\ SF_vars(LockWait(t))

(***************************************************************************)
(* Properties                                                              *)
(***************************************************************************)
Suspended == {t \in Threads : pc[t] \in {"parked", "endWaiting"}}

\* The counters the collector adds up are exact: threads registered, threads
\* in a published wait, threads that answered this stop, and threads that have
\* yet to leave the last one.  They are changed in ten places, by threads that
\* may time out, leave or wait in between.
CountsExact ==
    /\ registered = Cardinality({t \in Threads : isRegistered[t]})
    /\ blocked = Cardinality({t \in Threads : isBlocked[t]})
    /\ resuming = Cardinality(Suspended)
    /\ Odd(epoch) =>
          stopped = Cardinality({t \in Threads : pc[t] = "parked" /\ parkEpoch[t] = epoch})

\* "The collector never scans a stack that is still running C code": while a
\* thread collects, every other thread is outside Go or is on the root
\* registry with the stack range of the frame it is suspended in, so that
\* VisitThreadStacks finds a range for each context it visits.
CollectAlone ==
    \A t \in Threads : pc[t] = "collect" =>
        \A u \in Threads \ {t} :
            \/ pc[u] = "out" /\ u \notin contexts
            \/ u \in contexts /\ published[u] = "current"

\* No __builtin_trap is reached: a stop never starts inside another one, a
\* resume ends the caller's own stop, and a wait ends once, on a blocked thread.
NoTrap ==
    \A t \in Threads :
        /\ pc[t] = "stop" => ~Odd(epoch) /\ isRegistered[t] /\ registered # 0
        /\ pc[t] = "collect" => Odd(epoch) /\ owner = t
        /\ pc[t] \in {"endWait", "endWaiting"} => isBlocked[t] /\ blocked # 0
        /\ pc[t] = "left" => isRegistered[t] /\ registered # 0

\* "A new collection must let waiters leave the previous rendezvous first":
\* a thread parked for one stop is back in Go before it answers another.
NoRepark ==
    [][\A t \in Threads :
          pc[t] = "parked" /\ pc'[t] = "parked" => parkEpoch'[t] = parkEpoch[t]]_vars

\* A thread held back by a stop, at a safepoint or at the end of a wait, gets
\* back to its caller, whether the stop ends by a resume or by its deadline.
SuspendedReturns ==
    \A t \in Threads : (pc[t] \in {"parked", "endWaiting"}) ~> (pc[t] \in {"go", "held"})

\* A collector that waits for the last rendezvous to drain gets its stop.
DrainEnds ==
    \A t \in Threads : (pc[t] = "stop") ~> (pc[t] \in {"stopWait", "collect"})

\* An explicit GC that hands the allocator lock to a waiter returns: a waiter
\* it saw does take the lock and moves allocator_generation.
YieldReturns ==
    \A t \in Threads : (pc[t] = "yield") ~> (pc[t] = "go")
=============================================================================
