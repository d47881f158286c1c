# Verification of the llgo runtime

llgo compiles Go through LLVM and ships its own Go runtime. The runtime
(`src/runtime/internal/`) carries the concurrency: channels and `select`, goroutine
scheduling on WebAssembly workers, semaphores and condition lists, timers, test bubbles, and
two stop-the-world collectors. This project models parts of the runtime and of the standard
library packages it patches. The compiler and the tools are not modelled.

Paths below are relative to `src/runtime/internal/`.

## 1. Inventory

| Part | Source | State | Operations | What makes it hard | Module |
|---|---|---|---|---|---|
| Worker stop-the-world | `runtime/wasm_gc_stw.go`, `wasmsync/mutex.go` | `epoch`, `stopped`, `ready`, `owner` | stop, acknowledge, resume, worker start | a count of acknowledgements raced by starting, idle, running and allocating workers | `WasmGCWorld` |
| WASI stop-the-world | `runtime/_wrap/wasi_gc_world.c`, `gcroot/` | counters under one mutex, root registry, allocator generation | enter, leave, park, published waits, stop with a deadline, resume, lock handoff | a stop that times out racing threads that answer it | `WasiGCWorld` |
| Channels, `select` | `runtime/z_chan.go`, `chan_recv_ready.go`, `chan_sync_hosted.go` | `Chan` (ring, `recvq`, `sendq`, `closed`, `recvReady`), `chanWaiter`, `selectState`, `chanSignal` | `ChanSend`, `ChanRecv`, `ChanTrySend`, `ChanTryRecv`, `ChanClose`, `TrySelect`, `Select` | waiters on several channels claimed once; records freed by the waiter while a partner holds them; an unlocked fast path | `Chan`, `ChannelSpec`, `ChanRefinement` |
| `iter.Pull` | `../_patch/iter/iter.go` | four channels, `done`, `yieldNext`, the panic value | `next`, `stop`, `yield`, the producer goroutine | a coroutine built from channels: whose turn it is, who ends whom | `IterPull` |
| Worker semaphores and lists | `lib/runtime/sema_wasm_workers_llgo.go`, `sema_wasm_llgo.go` | counts, wait queues, free records, tickets | acquire, release, handoff; add, wait, notify one, notify all | a release or a notification between the check and the sleep | `WasmSema` |
| Scheduler waiter | `runtime/scheduler_waiter_wasm_workers.go` | `notified`, G status | `Park`, `Ready` | `Ready` before, during and after `Park` | `WasmSema` |
| Worker scheduler | `runtime/proc_wasm_workers.go`, `runqueue/` | run queues, `active`, `wake` | create, yield, park, ready, exit, idle wait | lost wake-ups, false deadlock reports | partly in `WasmSema` and `WasmGCWorld` |
| Native semaphores | `lib/runtime/sema_address_llgo.go`, `sema_cond_llgo.go` | counts, waiters | acquire, release | futex and condition-variable forms of one promise | `NativeSema` |
| Native condition lists | `lib/runtime/sema_llgo.go` | tickets, one condition variable | add, wait, notify one, notify all | a notification for a waiter that is not asleep yet; ticket wrap | `NativeNotifyList` |
| `sync.Mutex` | `../_patch/internal/sync/mutex.go` | one word of flags and a count, a semaphore | `Lock`, `TryLock`, `Unlock` | normal and starving mode over a semaphore that hands nothing off | `PatchedMutex` |
| Timers | `lib/runtime/time_*.go` | heap, active set, the loop's sleep | start, stop, reset, loop | a start, stop or reset racing the loop's sleep and its callbacks | `Timers` |
| Bubbles (`synctest`) | `runtime/synctest.go`, its hooks in `z_chan.go` | `total`, `running`, references, fake timers | run, wait, block, wake, fire | idle detection while a wake is under way | `Synctest` |

`PROJECT.json` lists every part, the ones left out included, and the hazards with the line
where each one bites.

## 2. Modules and the code

**`WasmGCWorld`** has one process per WebAssembly worker. The words of `wasmGCWorld`
(`epoch`, `stopped`, `ready`, `owner`) and the per-worker `gc.epoch` are variables. Each atomic
access is an action, named for the function it belongs to: `Stop*` for
`wasmGCStopTheWorld` and `wasmWorkerStopForGC`, `Resume*` for `wasmGCResumeWorld`,
`Safepoint*` for the compiler's poll, `Idle*` for the futex wait, `Init*` for worker start.
`Starting` is the set of workers that have not gone through `initWasmWorkerGCSystem` in the
initial state.

**`WasiGCWorld`** has one process per WASI thread. Everything under `world_mutex` is one
step, because nothing else reads those counters. `asleep` is the set of threads in
`pthread_cond_wait`; a broadcast empties it, and `SpuriousWake` takes one thread out at any
time. The handoff of the allocator lock uses atomics outside the mutex, so each access is a
step of its own. `contexts` and `published` are the root registry and the stack ranges that
`VisitThreadStacks` reads. A thread may enter an uninstrumented C call (`CallC`) and stay
there. The deadline of a stop may pass at any moment of the timed wait, also when all threads
have answered. Threads that were never registered skip the published waits in the code and
are not modelled.

**`Chan`** models hosted channels, where a mutex and a condition variable are pthreads. A
program is one of `Menus`, chosen in the initial state: it gives each goroutine the choices for
its successive operations. An operation is a plain send or receive, a nonblocking one, a
`select` or a close. Taking a lock, each section under it, and each access outside it are
separate steps. A value is the triple of sender, operation and case, so that it can be
followed. `log` and `known` are history variables.

**`ChannelSpec`** is the promise: a channel is a buffer and a closed flag, and an operation
takes effect in one step between its call and its return. Taking the default of a nonblocking
operation is allowed at any time there; `CloseNotMissed` and `RecvReadyExact` say when it must
not happen. **`ChanRefinement`** maps `Chan` to it: the result of an operation is the one its
own step fixed, or the one its claimant fixed.

**`IterPull`** composes the producer goroutine, `yield`, `next` and `stop` of `iter.Pull` with
`Chan`: every channel operation of the code runs through all the steps of `Chan`, and the code
between two of them is one step. `seq` yields, returns or panics as it likes, also after
`yield` returned false. Under a menu other than `PullMenu` the module is `Chan` itself.

**`WasmSema`** models the worker semaphores and the workers' notify lists together with
`SchedulerWaiter` and the part of the worker scheduler that they drive: run queues, the switch
to a G, the `active` count and the deadlock check of worker 0. Each G belongs to one worker and
runs a sequence of acquires, releases, waits and notifications; the program is one of
`Programs`. **`Tickets`** has the wrapping ticket arithmetic that both notify lists share.

**`NativeSema`** has both forms of the native semaphore, told apart by the variable `form`;
each access to the count is a step, and so is each section under `st.mu` that accesses nothing
else. **`PatchedMutex`** is `sync.Mutex` on it, with the code's state word kept as an integer;
the clock's answer to "have I waited too long" is a free choice. **`NativeNotifyList`** is the
list of hosted targets. **`NativeSync`** composes the three: goroutines run `Programs` over a
mutex, a `sync.Cond` and a bare semaphore. Every sleep may end spuriously. `UseAssumption` is
the contract of package `sync`: whoever unlocks, or waits for the condition, has the mutex, and
nobody else touches the mutex's semaphore.

**`Timers`** has the 4-ary heap as recursive operators over the slice and the `heapIndex`
fields, the calls `startRuntimeTimer`, `stopRuntimeTimer`, `resetRuntimeTimer`, and the loop
with its bounded waits. A section under `timerSchedulerMu` is one step. Deadlines saturate at
`MaxWhen`, the model's largest integer.

**`Synctest`** has one bubble: goroutines that exchange messages through mailboxes, `Wait`,
set, stop and run fake timers, a goroutine from outside that enters by a reference, and the
controller. The counting of a waiter and the publication of its wake are separate steps of the
waker, as in `finish`.

The `MC*` modules give the constants of the runs. The `*Proofs` modules, `ChanLocks` and
`SynctestMail` hold the theorems. Operators whose comment begins with "Mutated form" are plausible bugs;
`PROJECT.json` says which property each one must break.

## 3. Runs

| Run | Instance | Checks | Result |
|---|---|---|---|
| `wasm_gc_ready` | 3 started workers, no stop from epoch `MaxEpoch` = 3 on, so two collections | `StoppedWorld`, `NoFatal` | holds |
| `wasm_gc_live` | 2 started workers and 1 starting, one collection | `StopCompletes`, `StoppedResumes` | holds |
| `wasm_gc_starting` | the same pool | `StoppedWorld` | violated, finding A |
| `wasi_gc` | 2 threads, `MaxStops` = 2, `MaxWaits` = 2 | `CountsExact`, `CollectAlone`, `SuspendedReturns`, `DrainEnds`, `YieldReturns` | holds |
| `chan_safe` | 3 goroutines, an unbuffered and a buffered channel, three programs: a buffered channel that is closed; selects in both orders with a nil case; closes that meet blocked senders, selects and each other | `ImplementsChannelSpec`, `CloseNotMissed`, `RecvReadyExact`, `SignalLifetime`, `NoMissedPartner` | holds |
| `chan_live` | the same goroutines with one operation each, or `iter.Pull` with 3 calls and 2 yields over one of the channels and three more | `OperationsEnd`; `CoroutineTurns`, `EndIsFinal`, `PullReturns` | holds |
| `sema_mutex` | 4 Gs on 3 workers: a mutex with 3 users while main waits for ever, or a notify list with 2 waiters and 2 notifiers | `TokensCovered`, `ParkUntilReady`, `NoSleepOnToken`, `NoFalseDeadlock`, `TicketsServed`, `GrantedReturns` | holds |
| `sema_tokens` | two tokens, two acquirers | `NoSleepOnToken` | violated, finding C |
| `sema_late` | one G acquires twice | `ParkUntilReady` | violated, finding B |
| `timers` | 3 timers, `MaxOps` = 3 calls, a clock up to 2, deadlines up to 3 | `SleepCoversHead`, `Accounted`, `PreventedNeverRuns`, `OnGrid`, `DueRuns`; `HeapCorrect` on all heaps of 1, 3, 6 and 10 elements | holds |
| `synctest` | a bubble with 2 goroutines and one from outside, up to 3, 2 and 1 operations | `CountsExact`, `WaitIsQuiet`, `VerdictIsReal`, `TimeMovesWhenIdle`, `BubbleEnds` | holds |
| `native_sync` | 3 goroutines, both forms of the semaphore, four programs, tickets about to wrap | `Exclusion`, `WaitersExact`, `NoSleepOnToken`, `TurnsKept`, `AllFinish` | holds |

The comment above each property says what it means for the code. `ImplementsChannelSpec` says
in one formula that values arrive once and in order, that a buffer keeps its limit, and that a
close is reported after the buffer is drained. `TypeOK` is a conjunct of `TokensCovered`,
`Accounted` and of the bubble's `CountsExact`; the types of the collectors and of the channels
are part of the invariants proved in section 5. `AckCount`, `NoTrap`, `NoRepark` and that a
mutex never throws (`NeverThrows`) are proved there too and are in no run.

**Bounds.**
- Collectors: two collections are the least in which an answer to one stop can be taken for an
  answer to the next (`MaxEpoch`, `MaxStops`). Three workers give a collector, one that answers
  and one that is late. The WASI run has two threads, because its liveness is expensive; its
  safety is proved for any number. `MaxWaits` bounds contended acquisitions of the allocator
  lock. The 32-bit wrap of the two epochs is outside every bound.
- Channels: three goroutines give two that compete for a third; two channels are the least for
  a lock order; a third operation lets a goroutine use a channel again after a wait. `MaxCalls`
  and `MaxYields` give `iter.Pull` a call before, during and after the end of `seq`; `MaxOps`
  is large enough for all channel operations of those calls.
- Tickets: `Half` = 4 stands for 2^31 and `Start` = 7 puts the wrap after the first ticket.
- Timers: three timers give a parent with two children in the running system; `HeapCorrect`
  covers three levels of the 4-ary heap separately, over three deadlines. `MaxWhen` is the
  saturation value, `MaxWait` = 1 makes a sleep come in pieces.
- Bubbles: `Budget` bounds the operations a goroutine starts, `MaxNow` the fake clock.

**What the semaphore runs do not show.** In `sema_mutex` each G parks at most once and at most
one token is out at a time. This is a real restriction, not a convenience: with two tokens
`NoSleepOnToken` fails, and with a second park `ParkUntilReady` fails. The passing run says
that the worker protocol works for a plain mutex or a condition used that way. It says nothing
of `WaitGroup` or `RWMutex` on workers, which release several tokens, or of a G that blocks
repeatedly. The native semaphores have no such restriction: in `native_sync` two tokens are
out together and goroutines block repeatedly.

**Deadlock checking** is on in the collectors' runs. It is off where the programs of the model
end or may block for ever: channels, semaphores, timers (calls and the clock are bounded),
bubbles (they close) and native synchronisation (programs end). There the liveness properties
say which threads must get on.

**Fairness.**
- `WasmGCWorld`: weak fairness of each worker's step. A worker is a thread that keeps running.
- `WasiGCWorld`: weak fairness of the steps inside the runtime (`Must`) and of the deadline.
  Entering, leaving, calling C, reaching a safepoint and the end of an application's wait are
  not fair. `LockWait` has strong fairness: `pthread_mutex_lock` must not starve a waiter for
  ever, which POSIX does not promise and the handoff relies on.
- `Chan`: strong fairness of a goroutine inside an operation, for the same reason: a mutex
  that is free again and again is eventually granted. Starting an operation is not fair.
- `IterPull`: as `Chan`, and weak fairness of the code between the operations, which includes
  that `seq` does not run for ever between two yields. The consumer need not call again.
- `WasmSema`: strong fairness of a G's steps and of a worker taking its next G. A G can step
  only while its worker runs it and the queue lock is free, both of which come and go. Strong
  fairness assumes that the spin lock is not lost for ever and that the queue is served.
- `Timers`: weak fairness of the loop, which is one thread, and of the clock. Callers promise
  nothing.
- `Synctest`: weak fairness of the controller, of each goroutine and of the outsider, who are
  threads; strong fairness of the step that takes a waiter's signal lock, since its owner may
  wake and park again for no reason.
- `NativeSync`: strong fairness of each goroutine, since `st.mu` and the semaphore's tokens
  come and go. `AllFinish` therefore says that no wake-up is lost, not that barging is bounded.

## 4. Findings

- **A** (`wasm_gc_starting`): a worker that is starting can acknowledge a stop it is not
  counted in. The collector then goes on while a started worker still runs Go code.
- **B** (`sema_late`): `Ready` notifies and makes the G runnable in two steps. `Park` may
  return between them, and the second step then wakes the G in its next acquire.
- **C** (`sema_tokens`): after one failed compare-and-swap under the lock an acquirer queues
  itself although a token is left. The condition-variable form of the operation has a comment
  that says to recheck, and does.

All three are read off the source by way of the model; none has been reproduced on a running
program.

## 5. Proofs

All theorems hold for every value of the constants that satisfies the named assumptions.

**Worker stop-the-world.** `WasmGCWorldProofs` proves, for every finite set of workers and
every bound on the epoch, and assuming `Starting = {}`: `TypeCorrect`, `AckCountExact`,
`WorldIsStopped` and `FatalUnreachable`. The assumption is needed: finding A refutes
`StoppedWorld` without it.

`StoppedWorld` is not inductive. A collector leaves its wait because a number is large enough,
so the proof must say what the number counts and that nothing else can have been counted.
`Inv` adds: the allocator lock is held exactly by the worker inside it (`Excluded`), so at most
one collects; the epoch is odd exactly between a request and its resume (`Parity`); a worker on
its way to an acknowledgement has seen the current epoch and one that recorded the epoch has
published its roots (`Seen`); the target is the number of other workers and, once reached, the
acknowledged workers are all the others (`Counting`); a G that swapped out did stop
(`Swapped`). There is one lemma per group of actions, and `Invariance` puts them together.

**WASI stop-the-world.** `WasiGCWorldProofs` proves `CountsAreExact`, `CollectsAlone`,
`TrapUnreachable` and `NeverReparks` for every finite set of threads and any number of stops
and timeouts. Here the collector adds up four counters that different threads change, and a
stop may be given up. `Inv` says what each flag of a thread means for its place (`Flags`), who
is inside the allocator lock (`Holding`), that the epoch is odd exactly during a stop and the
stop belongs to its owner (`Parity`), who has answered the current stop (`Answers`), and that
each counter is the cardinality of a set of places (`Counts`). The sets are disjoint, so when
the sum reaches the number of registered threads they leave no place for a thread in Go code:
that is `Alone`, and it stays true because those places can only be left once the epoch is
even again.

**Channels.** `ChanLocks` and `ChanProofs` prove `ReadinessIsExact`, that is `RecvReadyExact`,
for any goroutines, channels, capacities and programs. The argument is the lock discipline of
`z_chan.go`. `Held` says what a goroutine holds at each place: the channel of its current case
inside a locked section, all channels of its `select` during the second pass, and that a
helper returns to a section that still holds the lock. A step then takes only free locks and
releases only its own (`Locks`), wakes at most a parked goroutine (`Others`), and leaves every
channel untouched, held, or just published (`Kept`). `StepKeeps` shows that this keeps the
invariant, and there is one lemma per group of actions. The cyclic index of a pass is shown to
name a case of the operation.

**Condition lists.** `NativeSyncProofs` proves `WrappedOrder`, that the sign of the difference
of two wrapped tickets orders them as the unbounded counts are ordered while these are less
than half the range apart, and from it `ServedInTurn`: until half the range of tickets has been
given out after the start, the test of `notifyListWait` is exact and no notified waiter sleeps.
The bound is needed: a waiter that stays through half the range of later tickets is taken for
one that has been notified. The invariant relates the words to unbounded history counts.

**Native semaphores.** `NativeSyncProofs` also proves `TokensFindTakers`, that is
`NoSleepOnToken`, for any goroutines, any programs and both forms of the semaphore. A token may
well be there while somebody sleeps: another acquirer that is awake will take it, or the
release that brought it has yet to wake somebody. `SemaInv` says that there are enough of these:
while somebody sleeps, there is an awake acquirer or a pending wake for every token (`Covered`).
In the condition-variable form `waiters` counts the goroutines in `cond.Wait`, so that a release
that finds no waiters is right to signal nobody; there the count is read under `st.mu`, which is
why an acquirer between its last look and its sleep is not missed. The proof counts: each step
moves at most one goroutine into or out of the sets whose sizes are compared.

**`sync.Mutex`.** `MutexProofs` proves `MutualExclusion`, `WaitersCounted` and `NeverThrows` for
any goroutines and every program that satisfies `UseAssumption`, over the semaphore as it is
modelled, not over an abstract one. The assumption is needed: an `Unlock` by a goroutine that
has not locked breaks exclusion, and a token from elsewhere breaks the count. `Exclusion` alone
says nothing about starvation mode, where a woken goroutine sets the locked bit without looking
(`handoff`). `MutexInv` therefore says that at most one wake-up is under way (`OneCredit`):
a token in the semaphore, an `Unlock` about to release one, or a goroutine that was woken and
has not yet used it. In normal mode that is exactly when the woken bit is set; in starvation
mode it is exactly when the mutex is not locked (`Mode`). So a goroutine that is handed the
mutex finds it unlocked, and nobody else can lock it in between. `Exact` says what the waiter
count of the word counts in each mode. The word is an integer, and the lemmas `Word*` show that
each change of the code moves one field of it.

**Bubbles.** `SynctestMail` and `SynctestProofs` prove `CountsAreExact`, `WaitSeesQuietBubble`,
`VerdictsAreReal` and the action property `ClockMovesWhenIdle` for any goroutines, budgets,
delays, periods and bound of the clock. The controller decides from the number `running`, so
the proof has to say who is counted at each place of a wake. `MailInv` has the protocol of the
mailboxes without numbers: who has a receiver in hand and holds its mailbox and its signal
(`Wakes`, `Receivers`), and that `bubbleBlocked` is set exactly on those who are durably blocked
(`BlockedExact`), which includes one that was taken from a queue and not yet counted as awake.
`Books` adds the numbers. A goroutine with a receiver in hand is awake itself, so `running` is
not zero while a wake is under way; from that it follows that a controller that finds zero finds
everybody at rest, and that nothing moves until it has acted (`Quiet`).

**Only model-checked**: the other properties of `Chan`, everything about `ChannelSpec`,
`IterPull`, `WasmSema` and `Timers`, the refinement, and all liveness. The proof system does not
handle liveness under fairness or `ENABLED`, cannot prove by induction over data (what
`SelectSeq` keeps of a queue, for example), and cannot be used with RECURSIVE operators, which
the timer heap is written with. Of `WasmSema`, findings B and C refute two of the properties for
programs in general, so that they could only be proved for the restricted programs of the run.

## 6. Not modelled

- Marking and sweeping, finalizers, maps, panics, `sync.Pool`, `unique`, the word map, the
  network poller and signals, host events, the compiler and the build driver. Several of these
  have not been studied. `PROJECT.json` gives the reason for each.
- Timers on WebAssembly: the heap operations are those of `Timers`, but the schedulers poll
  the heap instead of a loop.
- The single-worker scheduler, and channels over it: goroutines switch at known points only.
- The worker scheduler's creation of Gs, work stealing and host events.
- `synctest`: the table of associated objects, the checks that an operation comes from the
  right bubble, and `WaitGroup`'s semaphore. The mailbox protocol of `Synctest` stands for
  channel waits; it is not composed with `Chan`.
- `iter.Pull`: `runtime.Goexit` inside `seq`. `Pull2` is the same code with pairs.
- Memory is sequentially consistent in all models; the code uses atomics or locks for what is
  modelled.

Most of the repository is the compiler, so the modelled lines are a small share of it.

## 7. Plan

1. The rest of the worker scheduler: creation of Gs, stealing, host events, and the timers
   polled by it.
2. `Synctest` over `ChannelSpec`, with `WaitGroup`.
3. An abstract semaphore that both native forms implement.
4. Proofs: `SignalLifetime` of `Chan`, once queues are described without `SelectSeq`;
   `CoroutineTurns` of `IterPull`; `TicketsServed` of `WasmSema`; safety of the refinement.
