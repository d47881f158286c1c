---------------------------- MODULE WasmGCWorld ----------------------------
(***************************************************************************)
(* Stop-the-world of the multi-worker WebAssembly runtime                  *)
(* (runtime/internal/runtime/wasm_gc_stw.go), together with the places     *)
(* that call it: the allocator lock (tinygogc, wasmsync.Mutex), compiler   *)
(* safepoints, the scheduler's idle wait and the start of a worker.        *)
(*                                                                         *)
(* One process per worker; every atomic load, store or add of the shared   *)
(* words is a step of its own.  A futex wait is two steps: compare, then   *)
(* sleep until the wake that follows the change of the word.               *)
(***************************************************************************)
EXTENDS Integers, FiniteSets

CONSTANTS
    Workers,    \* the M/P worker pool
    Starting,   \* workers whose initWasmWorkerSystem has not run yet
    MaxEpoch,   \* bound: no stop is requested at this epoch or later
    NoOwner     \* noWasmGCOwner

ASSUME WorldAssumption ==
    /\ IsFiniteSet(Workers)
    /\ Starting \subseteq Workers
    /\ MaxEpoch \in Nat
    /\ NoOwner \notin Workers

VARIABLES
    epoch,      \* wasmGCWorld.epoch: odd while a stop is requested
    stopped,    \* wasmGCWorld.stopped: acknowledgements of this epoch
    ready,      \* wasmGCWorld.ready: workers that take part in a stop
    owner,      \* wasmGCWorld.owner
    gcMutex,    \* holder of the allocator lock
    gcReady,    \* worker.gc.ready
    gcEpoch,    \* worker.gc.epoch: the last epoch the worker acknowledged
    published,  \* the worker's root chain is saved and it has not run Go since
    woken,      \* worker.wake changed since waitWasmWorkerRunq sampled it
    pc,         \* control state of a worker
    ret,        \* where wasmWorkerStopForGC returns to
    seenEpoch,  \* local epoch of wasmWorkerStopForGC and of a safepoint check
    didStop,    \* local "stopped" of wasmWorkerStopForGC
    target,     \* local target of wasmGCStopTheWorld
    seenStopped \* local "stopped" of wasmGCStopTheWorld's wait loop

world == <<epoch, stopped, ready, owner>>
perWorker == <<gcReady, gcEpoch, published, woken>>
locals == <<ret, seenEpoch, didStop, target, seenStopped>>
vars == <<epoch, stopped, ready, owner, gcMutex, gcReady, gcEpoch, published,
          woken, pc, ret, seenEpoch, didStop, target, seenStopped>>

Odd(n) == n % 2 = 1

StopPc == {"load", "owner", "ack", "count", "wakeStopped", "wait", "sleep"}
CollectPc == {"setOwner", "zero", "request", "wakeAll", "target", "poll",
              "futex", "sleepStopped", "mark", "resume", "disown", "wakeEpoch"}
GoPc == {"run", "spOwner", "swapped", "idleFutex", "idleSleep", "lock", "crit"}
InitPc == {"start", "startLock", "startCrit", "init", "initAdd"}

Goto(w, l) == pc' = [pc EXCEPT ![w] = l]

(***************************************************************************)
(* wasmWorkerStopForGC                                                     *)
(***************************************************************************)
CallStopForGC(w, back) ==
    /\ Goto(w, "load")
    /\ ret' = [ret EXCEPT ![w] = back]
    /\ didStop' = [didStop EXCEPT ![w] = FALSE]

\* A local is cleared when its function returns: a dead one tells nothing apart.
ReturnFromStop(w) ==
    /\ Goto(w, ret[w])
    /\ ret' = [ret EXCEPT ![w] = "run"]
    /\ seenEpoch' = [seenEpoch EXCEPT ![w] = 0]
    /\ didStop' = IF ret[w] = "swapped" THEN didStop
                                        ELSE [didStop EXCEPT ![w] = FALSE]

\* epoch := atomic.Load(&wasmGCWorld.epoch); an even epoch returns.
StopLoad(w) ==
    /\ pc[w] = "load"
    /\ \/ ~Odd(epoch) /\ ReturnFromStop(w)
       \/ /\ Odd(epoch)
          /\ seenEpoch' = [seenEpoch EXCEPT ![w] = epoch]
          /\ Goto(w, "owner")
          /\ UNCHANGED <<ret, didStop>>
    /\ UNCHANGED <<world, gcMutex, perWorker, target, seenStopped>>

StopOwner(w) ==
    /\ pc[w] = "owner"
    /\ \/ owner = w /\ ReturnFromStop(w)
       \/ /\ owner # w
          /\ Goto(w, IF gcEpoch[w] # seenEpoch[w] THEN "ack" ELSE "wait")
          /\ UNCHANGED <<ret, seenEpoch, didStop>>
    /\ UNCHANGED <<world, gcMutex, perWorker, target, seenStopped>>

\* worker.gc.epoch = epoch; publishWasmGCRoot()
StopAck(w) ==
    /\ pc[w] = "ack"
    /\ gcEpoch' = [gcEpoch EXCEPT ![w] = seenEpoch[w]]
    /\ published' = [published EXCEPT ![w] = TRUE]
    /\ Goto(w, "count")
    /\ UNCHANGED <<world, gcMutex, gcReady, woken, locals>>

StopCount(w) ==
    /\ pc[w] = "count"
    /\ stopped' = stopped + 1
    /\ Goto(w, "wakeStopped")
    /\ UNCHANGED <<epoch, ready, owner, gcMutex, perWorker, locals>>

\* wasmworkers.Wake(&wasmGCWorld.stopped)
StopWake(w) ==
    /\ pc[w] = "wakeStopped"
    /\ pc' = [v \in Workers |->
                IF v = w THEN "wait"
                ELSE IF pc[v] = "sleepStopped" THEN "poll" ELSE pc[v]]
    /\ UNCHANGED <<world, gcMutex, perWorker, locals>>

\* for atomic.Load(&epoch) == epoch { Wait(&epoch, epoch, -1) }; stopped = true
StopWait(w) ==
    /\ pc[w] = "wait"
    /\ \/ /\ epoch = seenEpoch[w]
          /\ Goto(w, "sleep")
          /\ UNCHANGED <<published, didStop>>
       \/ /\ epoch # seenEpoch[w]
          /\ Goto(w, "load")
          /\ published' = [published EXCEPT ![w] = FALSE]
          /\ didStop' = [didStop EXCEPT ![w] = TRUE]
    /\ UNCHANGED <<world, gcMutex, gcReady, gcEpoch, woken, ret, seenEpoch, target,
                   seenStopped>>

(***************************************************************************)
(* wasmGCStopTheWorld and wasmGCResumeWorld, called with gcMutex held      *)
(***************************************************************************)
StopSetOwner(w) ==
    /\ pc[w] = "setOwner"
    /\ owner' = w
    /\ Goto(w, "zero")
    /\ UNCHANGED <<epoch, stopped, ready, gcMutex, perWorker, locals>>

StopZero(w) ==
    /\ pc[w] = "zero"
    /\ stopped' = 0
    /\ Goto(w, "request")
    /\ UNCHANGED <<epoch, ready, owner, gcMutex, perWorker, locals>>

\* epoch := atomic.Add(&epoch, 1) + 1; an even epoch is an overlapping cycle.
StopRequest(w) ==
    /\ pc[w] = "request"
    /\ epoch' = epoch + 1
    /\ Goto(w, IF Odd(epoch + 1) THEN "wakeAll" ELSE "fatal")
    /\ UNCHANGED <<stopped, ready, owner, gcMutex, perWorker, locals>>

\* wakeAllWasmWorkers: every idle worker leaves its futex.
WokenPc == [v \in Workers |-> IF pc[v] = "idleSleep" THEN "run" ELSE pc[v]]

StopWakeAll(w) ==
    /\ pc[w] = "wakeAll"
    /\ woken' = [v \in Workers |-> TRUE]
    /\ pc' = [WokenPc EXCEPT ![w] = "target"]
    /\ UNCHANGED <<world, gcMutex, gcReady, gcEpoch, published, locals>>

StopTarget(w) ==
    /\ pc[w] = "target"
    /\ target' = [target EXCEPT ![w] = IF gcReady[w] THEN ready - 1 ELSE ready]
    /\ Goto(w, "poll")
    /\ UNCHANGED <<world, gcMutex, perWorker, ret, seenEpoch, didStop, seenStopped>>

\* Mutated form: the collector leaves one acknowledgement early.
StopPollEarly(w) ==
    /\ pc[w] = "poll"
    /\ seenStopped' = [seenStopped EXCEPT ![w] = stopped]
    /\ Goto(w, IF stopped + 1 >= target[w] THEN "mark" ELSE "futex")
    /\ UNCHANGED <<world, gcMutex, perWorker, ret, seenEpoch, didStop, target>>

StopPoll(w) ==
    /\ pc[w] = "poll"
    /\ seenStopped' = [seenStopped EXCEPT ![w] = stopped]
    /\ Goto(w, IF stopped >= target[w] THEN "mark" ELSE "futex")
    /\ UNCHANGED <<world, gcMutex, perWorker, ret, seenEpoch, didStop, target>>

StopFutex(w) ==
    /\ pc[w] = "futex"
    /\ Goto(w, IF stopped = seenStopped[w] THEN "sleepStopped" ELSE "poll")
    /\ UNCHANGED <<world, gcMutex, perWorker, locals>>

\* Mark and sweep, or growHeap, with the world stopped.
Mark(w) ==
    /\ pc[w] = "mark"
    /\ Goto(w, IF Odd(epoch) THEN "resume" ELSE "fatal")
    /\ UNCHANGED <<world, gcMutex, perWorker, locals>>

ResumeEpoch(w) ==
    /\ pc[w] = "resume"
    /\ epoch' = epoch + 1
    /\ Goto(w, "disown")
    /\ UNCHANGED <<stopped, ready, owner, gcMutex, perWorker, locals>>

ResumeDisown(w) ==
    /\ pc[w] = "disown"
    /\ owner' = NoOwner
    /\ Goto(w, "wakeEpoch")
    /\ UNCHANGED <<epoch, stopped, ready, gcMutex, perWorker, locals>>

\* Mutated form: only the idle workers are woken, not those asleep on the epoch.
ResumeWakeIdle(w) ==
    /\ pc[w] = "wakeEpoch"
    /\ woken' = [v \in Workers |-> TRUE]
    /\ pc' = [WokenPc EXCEPT ![w] = ret[w]]
    /\ ret' = [ret EXCEPT ![w] = "run"]
    /\ target' = [target EXCEPT ![w] = 0]
    /\ seenStopped' = [seenStopped EXCEPT ![w] = 0]
    /\ UNCHANGED <<world, gcMutex, gcReady, gcEpoch, published, seenEpoch, didStop>>

\* Wake(&epoch), then wakeAllWasmWorkers.
ResumeWake(w) ==
    /\ pc[w] = "wakeEpoch"
    /\ woken' = [v \in Workers |-> TRUE]
    /\ pc' = [v \in Workers |->
                IF v = w THEN ret[w]
                ELSE IF pc[v] = "sleep" THEN "wait" ELSE WokenPc[v]]
    /\ ret' = [ret EXCEPT ![w] = "run"]
    /\ target' = [target EXCEPT ![w] = 0]
    /\ seenStopped' = [seenStopped EXCEPT ![w] = 0]
    /\ UNCHANGED <<world, gcMutex, gcReady, gcEpoch, published, seenEpoch, didStop>>

(***************************************************************************)
(* The allocator lock: wasmsync.Mutex with wasmGCAllocatorYield            *)
(***************************************************************************)
\* Alloc, Free, Realloc, GC and AllocRoot begin with lock(&gcMutex).
Allocate(w) ==
    /\ pc[w] \in {"run", "start"}
    /\ Goto(w, IF pc[w] = "run" THEN "lock" ELSE "startLock")
    /\ UNCHANGED <<world, gcMutex, perWorker, locals>>

LockGCMutex(w) ==
    /\ pc[w] \in {"lock", "startLock"}
    /\ gcMutex = NoOwner
    /\ gcMutex' = w
    /\ Goto(w, IF pc[w] = "lock" THEN "crit" ELSE "startCrit")
    /\ UNCHANGED <<world, perWorker, locals>>

\* Mutated form: a contended lock waits without yielding.
AllocatorNoYield(w) ==
    /\ pc[w] \in {"lock", "startLock"}
    /\ gcMutex # NoOwner
    /\ UNCHANGED vars

\* The lock is taken: yield, wait a bounded time, try again.
AllocatorYield(w) ==
    /\ pc[w] \in {"lock", "startLock"}
    /\ gcMutex # NoOwner
    /\ CallStopForGC(w, pc[w])
    /\ UNCHANGED <<world, gcMutex, perWorker, seenEpoch, target, seenStopped>>

UnlockGCMutex(w) ==
    /\ pc[w] \in {"crit", "startCrit"}
    /\ gcMutex' = NoOwner
    /\ Goto(w, IF pc[w] = "crit" THEN "run" ELSE "init")
    /\ UNCHANGED <<world, perWorker, locals>>

\* gc() and growHeapWithWorldStopped run inside the allocator lock.
StopWorld(w) ==
    /\ pc[w] \in {"crit", "startCrit"}
    /\ epoch < MaxEpoch
    /\ Goto(w, "setOwner")
    /\ ret' = [ret EXCEPT ![w] = pc[w]]
    /\ UNCHANGED <<world, gcMutex, perWorker, seenEpoch, didStop, target,
                   seenStopped>>

(***************************************************************************)
(* A running worker                                                        *)
(***************************************************************************)
\* CooperativeSafepoint: wasmGCRequestPending loads the epoch, then the owner.
SafepointEpoch(w) ==
    /\ pc[w] = "run"
    /\ seenEpoch' = [seenEpoch EXCEPT ![w] = epoch]
    /\ Goto(w, "spOwner")
    /\ UNCHANGED <<world, gcMutex, perWorker, ret, didStop, target, seenStopped>>

\* Mutated form: the swap does not depend on the parity of the epoch.
SafepointAnyEpoch(w) ==
    /\ pc[w] = "spOwner"
    /\ \/ owner # w /\ CallStopForGC(w, "swapped")
       \/ owner = w /\ Goto(w, "run") /\ UNCHANGED <<ret, didStop>>
    /\ seenEpoch' = [seenEpoch EXCEPT ![w] = 0]
    /\ UNCHANGED <<world, gcMutex, perWorker, target, seenStopped>>

\* A pending request swaps to the system fiber; runWasmG then stops there.
SafepointOwner(w) ==
    /\ pc[w] = "spOwner"
    /\ \/ /\ Odd(seenEpoch[w]) /\ owner # w
          /\ CallStopForGC(w, "swapped")
       \/ /\ ~(Odd(seenEpoch[w]) /\ owner # w)
          /\ Goto(w, "run")
          /\ UNCHANGED <<ret, didStop>>
    /\ seenEpoch' = [seenEpoch EXCEPT ![w] = 0]
    /\ UNCHANGED <<world, gcMutex, perWorker, target, seenStopped>>

\* runWasmG: a running G that came back without a stop is a fatal error.
RunWasmG(w) ==
    /\ pc[w] = "swapped"
    /\ Goto(w, IF didStop[w] THEN "run" ELSE "fatal")
    /\ didStop' = [didStop EXCEPT ![w] = FALSE]
    /\ UNCHANGED <<world, gcMutex, perWorker, ret, seenEpoch, target, seenStopped>>

\* runWasmWorker after every G, and a safepoint on the system fiber.
PollSystem(w) ==
    /\ pc[w] = "run"
    /\ CallStopForGC(w, "run")
    /\ UNCHANGED <<world, gcMutex, perWorker, seenEpoch, target, seenStopped>>

\* waitWasmWorkerRunq samples worker.wake before the stop check ...
IdleSample(w) ==
    /\ pc[w] = "run"
    /\ woken' = [woken EXCEPT ![w] = FALSE]
    /\ CallStopForGC(w, "idleFutex")
    /\ UNCHANGED <<world, gcMutex, gcReady, gcEpoch, published, seenEpoch, target,
                   seenStopped>>

\* ... and, with nothing to run, sleeps only if the word has not changed since.
IdleFutex(w) ==
    /\ pc[w] = "idleFutex"
    /\ \/ Goto(w, "run") /\ woken' = [woken EXCEPT ![w] = TRUE]
       \/ ~woken[w] /\ Goto(w, "idleSleep") /\ UNCHANGED woken
    /\ UNCHANGED <<world, gcMutex, gcReady, gcEpoch, published, locals>>

\* enqueueWasmG by another worker, a timer or a host event (external).
HostWake(w) ==
    /\ pc[w] = "idleSleep"
    /\ Goto(w, "run")
    /\ woken' = [woken EXCEPT ![w] = TRUE]
    /\ UNCHANGED <<world, gcMutex, gcReady, gcEpoch, published, locals>>

(***************************************************************************)
(* Start of a worker: initWasmWorkerGCSystem                               *)
(***************************************************************************)
InitReady(w) ==
    /\ pc[w] = "init"
    /\ gcReady' = [gcReady EXCEPT ![w] = TRUE]
    /\ Goto(w, "initAdd")
    /\ UNCHANGED <<world, gcMutex, gcEpoch, published, woken, locals>>

InitAdd(w) ==
    /\ pc[w] = "initAdd"
    /\ ready' = ready + 1
    /\ CallStopForGC(w, "run")
    /\ UNCHANGED <<epoch, stopped, owner, gcMutex, perWorker, seenEpoch, target,
                   seenStopped>>

-----------------------------------------------------------------------------
Init ==
    /\ epoch = 0
    /\ stopped = 0
    /\ ready = Cardinality(Workers \ Starting)
    /\ owner = NoOwner
    /\ gcMutex = NoOwner
    /\ gcReady = [w \in Workers |-> w \notin Starting]
    /\ gcEpoch = [w \in Workers |-> 0]
    /\ published = [w \in Workers |-> FALSE]
    /\ woken = [w \in Workers |-> TRUE]
    /\ pc = [w \in Workers |-> IF w \in Starting THEN "start" ELSE "run"]
    /\ ret = [w \in Workers |-> "run"]
    /\ seenEpoch = [w \in Workers |-> 0]
    /\ didStop = [w \in Workers |-> FALSE]
    /\ target = [w \in Workers |-> 0]
    /\ seenStopped = [w \in Workers |-> 0]

StopForGC(w) ==
    \/ StopLoad(w) \/ StopOwner(w) \/ StopAck(w) \/ StopCount(w)
    \/ StopWake(w) \/ StopWait(w)

Collect(w) ==
    \/ StopSetOwner(w) \/ StopZero(w) \/ StopRequest(w) \/ StopWakeAll(w)
    \/ StopTarget(w) \/ StopPoll(w) \/ StopFutex(w) \/ Mark(w)
    \/ ResumeEpoch(w) \/ ResumeDisown(w) \/ ResumeWake(w)

Allocator(w) ==
    \/ Allocate(w) \/ LockGCMutex(w) \/ AllocatorYield(w) \/ UnlockGCMutex(w)
    \/ StopWorld(w)

Running(w) ==
    \/ SafepointEpoch(w) \/ SafepointOwner(w) \/ RunWasmG(w)
    \/ PollSystem(w) \/ IdleSample(w) \/ IdleFutex(w)

Start(w) == InitReady(w) \/ InitAdd(w)

Step(w) == StopForGC(w) \/ Collect(w) \/ Allocator(w) \/ Running(w) \/ Start(w)

Next == \E w \in Workers : Step(w) \/ HostWake(w)

Spec == Init /\ [][Next]_vars

\* Every worker is a thread of its own that keeps running, and the compiler's
\* safepoints bring a running goroutine to a poll.
FairSpec == Spec /\ \A w \in Workers : WF_vars(Step(w))

-----------------------------------------------------------------------------
PcSet == StopPc \cup CollectPc \cup GoPc \cup InitPc \cup {"fatal"}

\* Types of the shared words and of every worker's locals.
TypeOK ==
    /\ epoch \in Nat
    /\ stopped \in Nat
    /\ ready \in Nat
    /\ owner \in Workers \cup {NoOwner}
    /\ gcMutex \in Workers \cup {NoOwner}
    /\ gcReady \in [Workers -> BOOLEAN]
    /\ gcEpoch \in [Workers -> Nat]
    /\ published \in [Workers -> BOOLEAN]
    /\ woken \in [Workers -> BOOLEAN]
    /\ pc \in [Workers -> PcSet]
    /\ ret \in [Workers -> PcSet]
    /\ seenEpoch \in [Workers -> Nat]
    /\ didStop \in [Workers -> BOOLEAN]
    /\ target \in [Workers -> Int]
    /\ seenStopped \in [Workers -> Nat]

\* Workers whose acknowledgement of the current stop has been counted.
Acked == {w \in Workers : /\ pc[w] \in {"wakeStopped", "wait", "sleep"}
                          /\ seenEpoch[w] = epoch}

\* Between the request and the resume, wasmGCWorld.stopped counts exactly the
\* workers that have acknowledged this epoch: none twice, none of an old epoch.
AckCount == Odd(epoch) => stopped = Cardinality(Acked)

\* While one worker marks, sweeps or grows the heap, no other worker that takes
\* part in collections is in Go code, and each has published its root chain
\* (wasmGCStopTheWorld returned, wasmGCResumeWorld not yet called).
StoppedWorld ==
    \A c, w \in Workers :
        pc[c] \in {"mark", "resume"} /\ gcReady[w] /\ w # c =>
            pc[w] \in {"wakeStopped", "wait", "sleep"} /\ published[w]

\* None of the three fatal errors is reached: overlapping cycles, resuming a
\* running world, a running G that came back to runWasmG without a GC request.
NoFatal == \A w \in Workers : pc[w] # "fatal"

\* A requested stop is reached: workers that are idle, running or waiting for
\* the allocator lock all acknowledge, and no wake of the collector is lost.
StopCompletes ==
    \A w \in Workers : pc[w] = "target" ~> pc[w] = "mark"

\* A worker stopped for a collection runs again (or goes back to the lock it
\* was waiting for): Wake(&epoch) cannot miss a worker about to sleep.
StoppedResumes ==
    \A w \in Workers : pc[w] = "count" ~> pc[w] \in GoPc \cup InitPc
=============================================================================
