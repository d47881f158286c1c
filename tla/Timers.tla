------------------------------- MODULE Timers -------------------------------
(***************************************************************************)
(* The timers of hosted targets: runtime timers in a 4-ary heap, and one   *)
(* system goroutine, timerSchedulerLoop, that sleeps on a condition        *)
(* variable until the deadline of the head and runs callbacks.             *)
(*                                                                         *)
(* Everything under timerSchedulerMu is one step.  The loop gives the      *)
(* mutex up only while it waits and while a callback runs.  A timerState   *)
(* is named by its runtimeTimer: it is active exactly while the map holds  *)
(* it, and both change together, so one set stands for the two.            *)
(***************************************************************************)
EXTENDS Integers, Sequences, FiniteSets

CONSTANTS
    Timers,    \* the runtimeTimer objects
    Whens,     \* deadlines that callers ask for
    Periods,   \* periods that callers ask for; 0 is a one-shot timer
    MaxWhen,   \* maxTimerWhen: the largest signed integer of the model
    MaxNow,    \* bound: the clock stops here
    MaxWait,   \* maxTimerCondWait: the longest single wait
    MaxOps,    \* bound: how many calls the program makes
    None

ASSUME TimersAssumption ==
    /\ MaxWhen \in Nat /\ MaxNow \in 0..MaxWhen /\ MaxWait \in Nat \ {0}
    /\ Whens \subseteq 0..MaxWhen /\ Periods \subseteq 0..MaxWhen /\ MaxOps \in Nat

-----------------------------------------------------------------------------
(* The heap.  A value is [h, ix]: the slice, and the heapIndex of every    *)
(* timer, -1 outside.  Positions count from 0 as in the code.              *)

timerHeapArity == 4

At(s, i) == s.h[i + 1]

timerHeapLess(s, w, i, j) == w[At(s, i)] < w[At(s, j)]

timerHeapSwap(s, i, j) ==
    [h |-> [s.h EXCEPT ![i + 1] = At(s, j), ![j + 1] = At(s, i)],
     ix |-> [s.ix EXCEPT ![At(s, j)] = i, ![At(s, i)] = j]]

RECURSIVE timerHeapSiftUp(_, _, _)
timerHeapSiftUp(s, w, i) ==
    LET p == (i - 1) \div timerHeapArity
    IN  IF i > 0 /\ timerHeapLess(s, w, i, p)
        THEN timerHeapSiftUp(timerHeapSwap(s, i, p), w, p)
        ELSE s

\* The earliest of the children of i, the first one of several.
BestChild(s, w, i) ==
    LET child == timerHeapArity * i + 1
        last == IF child + timerHeapArity > Len(s.h) THEN Len(s.h) ELSE child + timerHeapArity
    IN  CHOOSE c \in child..(last - 1) : \A d \in child..(last - 1) :
            ~timerHeapLess(s, w, d, c) /\ (d < c => timerHeapLess(s, w, c, d))

RECURSIVE timerHeapSiftDown(_, _, _)
timerHeapSiftDown(s, w, i) ==
    IF timerHeapArity * i + 1 >= Len(s.h) THEN s
    ELSE LET best == BestChild(s, w, i)
         IN  IF timerHeapLess(s, w, best, i)
             THEN timerHeapSiftDown(timerHeapSwap(s, i, best), w, best)
             ELSE s

timerHeapAdd(s, w, r) ==
    timerHeapSiftUp([h |-> Append(s.h, r), ix |-> [s.ix EXCEPT ![r] = Len(s.h)]], w, Len(s.h))

\* Mutated form: the element moved into the hole only sinks.
RemoveOnlySinks(s, w, i) ==
    LET n == Len(s.h) - 1
        swapped == IF i # n THEN timerHeapSwap(s, i, n) ELSE s
        cut == [h |-> SubSeq(swapped.h, 1, n), ix |-> [swapped.ix EXCEPT ![At(s, i)] = -1]]
    IN  IF i # n THEN timerHeapSiftDown(cut, w, i) ELSE cut

timerHeapRemove(s, w, i) ==
    LET n == Len(s.h) - 1
        swapped == IF i # n THEN timerHeapSwap(s, i, n) ELSE s
        cut == [h |-> SubSeq(swapped.h, 1, n), ix |-> [swapped.ix EXCEPT ![At(s, i)] = -1]]
        down == timerHeapSiftDown(cut, w, i)
    IN  CASE i = n -> cut
          [] i # n /\ down # cut -> down
          [] OTHER -> timerHeapSiftUp(cut, w, i)

\* No element is earlier than its parent, and every index is the right one.
WellFormed(s, w) ==
    /\ \A i \in 1..(Len(s.h) - 1) : ~timerHeapLess(s, w, i, (i - 1) \div timerHeapArity)
    /\ \A i \in 0..(Len(s.h) - 1) : s.ix[At(s, i)] = i
    /\ \A r \in DOMAIN s.ix : s.ix[r] = -1 \/ s.ix[r] \in 0..(Len(s.h) - 1)

-----------------------------------------------------------------------------
(* Deadlines are signed integers of the width that MaxWhen gives.          *)

Wrap(x) == ((x + MaxWhen + 1) % (2 * (MaxWhen + 1))) - (MaxWhen + 1)

\* Mutated form: the next deadline counts from now.
NextFromNow(w, p, t) == IF t + p > MaxWhen THEN MaxWhen ELSE t + p

timerNextWhen(w, p, t) ==
    LET delay == IF t < w THEN 0 ELSE t - w
        next == Wrap(w + Wrap(p * (1 + delay \div p)))
    IN  IF next < 0 THEN MaxWhen ELSE next

timerSchedulerWaitDuration(w, t) ==
    CASE w <= t -> 0
      [] w > t /\ w - t > MaxWait -> MaxWait
      [] OTHER -> w - t

-----------------------------------------------------------------------------
VARIABLES
    now,       \* the monotonic clock
    heap,      \* timerSchedulerHeap with the heapIndex fields
    when, period,   \* the fields of every runtimeTimer
    callback,  \* the snapshot in every timerState: the arming it belongs to
    loop,      \* where timerSchedulerLoop is
    wait,      \* loop: the duration it is about to wait
    wakeAt,    \* loop: when its timed wait ends, None for an untimed one
    running,   \* loop: the callback it took off the heap, or None
    ops,       \* bound: calls left
    armed,     \* history: how often each timer was armed
    base,      \* history: the deadline each timer was armed with
    sleptFor,  \* history: the head and deadline the loop went to sleep for
    runs,      \* history: the callbacks that ran, per timer, as <<arming, deadline>>
    cancelled  \* history: per timer, <<arming, period>> that a stop or reset called off

state == <<heap, when, period, callback>>
history == <<armed, base, cancelled>>
vars == <<now, state, loop, wait, wakeAt, running, ops, armed, base, sleptFor, runs, cancelled>>

Active == {r \in Timers : heap.ix[r] # -1}

Init ==
    /\ now = 0 /\ loop = "off" /\ wait = 0 /\ wakeAt = None /\ running = None /\ ops = MaxOps
    /\ heap = [h |-> <<>>, ix |-> [r \in Timers |-> -1]]
    /\ when = [r \in Timers |-> 0] /\ period = [r \in Timers |-> 0]
    /\ callback = [r \in Timers |-> 0] /\ armed = [r \in Timers |-> 0]
    /\ base = [r \in Timers |-> 0] /\ sleptFor = None
    /\ runs = [r \in Timers |-> <<>>] /\ cancelled = [r \in Timers |-> {}]

timerSchedulerHead(h, w) == IF h.h = <<>> THEN None ELSE <<At(h, 0), w[At(h, 0)]>>

\* Mutated form: only a new head is signalled, not a new deadline of it.
SignalNewHead(h, w) ==
    IF h.h # <<>> /\ heap.h # <<>> THEN At(h, 0) # At(heap, 0) ELSE h.h # heap.h

\* signalTimerSchedulerIfHeadChangedLocked: is the new head another one?
HeadChanged(h, w) == timerSchedulerHead(h, w) # timerSchedulerHead(heap, when)

\* The effect of ensureTimerScheduler and of a signal on the loop.
Rouse(signal) ==
    loop' = IF loop = "off" \/ (signal /\ loop = "asleep") THEN "top" ELSE loop

\* A caller enters the mutex: the loop does not hold it, and calls are left.
Call == loop # "towait" /\ ops > 0 /\ ops' = ops - 1

\* Mutated form: the call reports success for every timer.
CallOffAlways(r) == cancelled' = [cancelled EXCEPT ![r] = @ \union {<<armed[r], period[r]>>}]

\* The call returns true if r was active: its arming is called off.
CallOff(r) ==
    cancelled' = [cancelled EXCEPT ![r] =
        IF r \in Active THEN @ \union {<<armed[r], period[r]>>} ELSE @]

\* Mutated form: an active timer keeps the callback of its earlier arming.
SnapshotKept(r) == [callback EXCEPT ![r] = IF r \in Active THEN @ ELSE armed[r] + 1]

\* snapshotRuntimeTimer: the timerState gets the callback of the new arming.
Snapshot(r) == [callback EXCEPT ![r] = armed[r] + 1]

\* The common part of startRuntimeTimer and resetRuntimeTimer.
Arm(r, w, p) ==
    LET removed == IF r \in Active THEN timerHeapRemove(heap, when, heap.ix[r]) ELSE heap
        when2 == [when EXCEPT ![r] = w]
        added == timerHeapAdd(removed, when2, r)
    IN  /\ heap' = added /\ when' = when2 /\ period' = [period EXCEPT ![r] = p]
        /\ armed' = [armed EXCEPT ![r] = @ + 1]
        /\ callback' = Snapshot(r)
        /\ base' = [base EXCEPT ![r] = w]
        /\ Rouse(HeadChanged(added, when2))

\* newTimer and timeSleep: a new object is filled in and started.
startRuntimeTimer(r, w, p) ==
    /\ Call /\ armed[r] = 0
    /\ Arm(r, w, p)
    /\ UNCHANGED <<now, wait, wakeAt, running, sleptFor, runs, cancelled>>

\* resetTimer and modTimer on a timer that was started.
resetRuntimeTimer(r, w, p) ==
    /\ Call /\ armed[r] > 0
    /\ CallOff(r)
    /\ Arm(r, w, p)
    /\ UNCHANGED <<now, wait, wakeAt, running, sleptFor, runs>>

stopRuntimeTimer(r) ==
    LET removed == IF r \in Active THEN timerHeapRemove(heap, when, heap.ix[r]) ELSE heap
    IN  /\ Call /\ armed[r] > 0
        /\ CallOff(r)
        /\ heap' = removed
        /\ Rouse(r \in Active /\ HeadChanged(removed, when))
        /\ UNCHANGED <<now, when, period, callback, wait, wakeAt, running, armed, base,
                       sleptFor, runs>>

-----------------------------------------------------------------------------
(* timerSchedulerLoop                                                      *)

\* The heap is empty: an untimed wait, which gives the mutex up.
LoopEmpty ==
    /\ loop = "top" /\ heap.h = <<>>
    /\ loop' = "asleep" /\ wakeAt' = None /\ sleptFor' = None
    /\ UNCHANGED <<now, state, wait, running, ops, history, runs>>

\* The head is not due: the duration is computed from this reading of the clock.
LoopCheck ==
    /\ loop = "top" /\ heap.h # <<>>
    /\ timerSchedulerWaitDuration(when[At(heap, 0)], now) > 0
    /\ loop' = "towait" /\ wait' = timerSchedulerWaitDuration(when[At(heap, 0)], now)
    /\ sleptFor' = timerSchedulerHead(heap, when)
    /\ UNCHANGED <<now, state, wakeAt, running, ops, history, runs>>

\* Mutated form: the wait has no deadline.
WaitUntimed ==
    /\ loop = "towait"
    /\ loop' = "asleep" /\ wakeAt' = None /\ wait' = 0
    /\ UNCHANGED <<now, state, running, ops, history, sleptFor, runs>>

\* timerSchedulerTimedWait adds the duration to a later reading of the clock.
LoopTimedWait ==
    /\ loop = "towait"
    /\ loop' = "asleep" /\ wakeAt' = now + wait /\ wait' = 0
    /\ UNCHANGED <<now, state, running, ops, history, sleptFor, runs>>

\* The wait ends: its time has passed, or the condition variable woke for nothing.
LoopWakes ==
    /\ loop = "asleep"
    /\ loop' = "top"
    /\ UNCHANGED <<now, state, wait, wakeAt, running, ops, history, sleptFor, runs>>

\* At its bound the clock stands for all later times, so every wait ends there.
LoopTimeout == wakeAt # None /\ (now >= wakeAt \/ now = MaxNow) /\ LoopWakes

SpuriousWake == LoopWakes

\* What the loop copies before it gives the mutex up.
Taken(r) == [r |-> r, arming |-> callback[r], due |-> when[r]]

\* The head is due: off the heap, or back on it with its next deadline.
LoopFire ==
    /\ loop = "top" /\ heap.h # <<>>
    /\ timerSchedulerWaitDuration(when[At(heap, 0)], now) = 0
    /\ LET r == At(heap, 0)
           removed == timerHeapRemove(heap, when, 0)
           when2 == [when EXCEPT ![r] = timerNextWhen(when[r], period[r], now)]
       IN  /\ running' = Taken(r)
           /\ IF period[r] > 0
              THEN heap' = timerHeapAdd(removed, when2, r) /\ when' = when2
              ELSE heap' = removed /\ UNCHANGED when
    /\ loop' = "callback"
    /\ UNCHANGED <<now, period, callback, wait, wakeAt, ops, history, sleptFor, runs>>

\* callback.run, outside the mutex.
LoopCallback ==
    /\ loop = "callback"
    /\ runs' = [runs EXCEPT ![running.r] = Append(@, <<running.arming, running.due>>)]
    /\ loop' = "top" /\ running' = None
    /\ UNCHANGED <<now, state, wait, wakeAt, ops, history, sleptFor>>

Tick == now < MaxNow /\ now' = now + 1
        /\ UNCHANGED <<state, loop, wait, wakeAt, running, ops, history, sleptFor, runs>>

Loop == LoopEmpty \/ LoopCheck \/ LoopTimedWait \/ LoopTimeout \/ LoopFire \/ LoopCallback

Next ==
    \/ \E r \in Timers : stopRuntimeTimer(r)
    \/ \E r \in Timers, w \in Whens, p \in Periods :
          startRuntimeTimer(r, w, p) \/ resetRuntimeTimer(r, w, p)
    \/ LoopEmpty \/ LoopCheck \/ LoopTimedWait \/ LoopTimeout \/ LoopFire \/ LoopCallback
    \/ SpuriousWake
    \/ Tick

Spec == Init /\ [][Next]_vars

\* The loop's thread keeps running and time passes; callers promise nothing.
FairSpec == Spec /\ WF_vars(Loop) /\ WF_vars(Tick)

-----------------------------------------------------------------------------
(* Properties                                                              *)

TypeOK ==
    /\ now \in 0..MaxNow /\ ops \in 0..MaxOps
    /\ heap.h \in Seq(Timers) /\ heap.ix \in [Timers -> -1..(Cardinality(Timers) - 1)]
    /\ when \in [Timers -> 0..MaxWhen] /\ period \in [Timers -> Periods]
    /\ loop \in {"off", "top", "towait", "asleep", "callback"}
    /\ wait \in 0..MaxWait /\ (loop = "callback") = (running # None)

\* Heaps of n elements over three deadlines, in every order the heap allows.
SmallHeaps(n) ==
    {w \in [0..(n - 1) -> 0..2] : \A i \in 1..(n - 1) : w[i] >= w[(i - 1) \div timerHeapArity]}
Whole(n) == [h |-> [i \in 1..n |-> i - 1], ix |-> [r \in 0..(n - 1) |-> r]]

SmallHeapsCorrect ==
    \A n \in {1, 3, 6, 10} : \A w \in SmallHeaps(n) : \A i \in 0..(n - 1) :
        LET out == timerHeapRemove(Whole(n), w, i)
            back == timerHeapAdd(out, w, i)
        IN  /\ WellFormed(out, w) /\ {At(out, k) : k \in 0..(n - 2)} = (0..(n - 1)) \ {i}
            /\ WellFormed(back, w) /\ Len(back.h) = n

\* timerHeapRemove of any position of any heap of 1, 3, 6 or 10 elements leaves a
\* well-formed heap of the others, and timerHeapAdd puts the element back.  The
\* operations are pure, so this is evaluated only while the loop is not started.
HeapCorrect == loop = "off" => SmallHeapsCorrect

\* A sleeping loop sleeps for the earliest deadline of all active timers, and for its
\* current value.  Whatever changed the head has signalled, and the heap keeps its
\* order although deadlines change: a timer is off the heap whenever its own does.
SleepCoversHead ==
    loop = "asleep" =>
        IF Active = {} THEN sleptFor = None
        ELSE /\ sleptFor # None /\ sleptFor[1] \in Active /\ sleptFor[2] = when[sleptFor[1]]
             /\ \A r \in Active : sleptFor[2] <= when[r]

\* Once a stop or a reset has reported that it prevented a one-shot timer from
\* firing, the callback of that arming has not run, is not about to and never will.
PreventedNeverRuns ==
    \A r \in Timers :
        /\ \A i \in DOMAIN runs[r] : <<runs[r][i][1], 0>> \notin cancelled[r]
        /\ running # None /\ running.r = r => <<running.arming, 0>> \notin cancelled[r]

\* A periodic timer advances from its intended deadline, not from the time its
\* callback ran: it stays on the grid of its first deadline, and saturates only
\* if the next point of the grid is past the largest deadline.
OnGrid ==
    \A r \in Active :
        \/ period[r] = 0 /\ when[r] = base[r]
        \/ period[r] > 0 /\ when[r] >= base[r] /\ (when[r] - base[r]) % period[r] = 0
        \/ /\ period[r] > 0 /\ when[r] = MaxWhen
           /\ base[r] + period[r] * (1 + (now - base[r]) \div period[r]) > MaxWhen

\* No arming is lost: each one is on the heap, about to run, has run or was called
\* off.  None runs twice: the callbacks of a timer run in the order of its armings, and
\* within one arming each at a later deadline.
Accounted ==
    /\ TypeOK
    /\ \A r \in Timers : \A a \in 1..armed[r] :
        \/ r \in Active /\ armed[r] = a
        \/ running # None /\ running.r = r /\ running.arming = a
        \/ \E i \in DOMAIN runs[r] : runs[r][i][1] = a
        \/ \E p \in Periods : <<a, p>> \in cancelled[r]
    /\ \A r \in Timers : \A i, j \in DOMAIN runs[r] : i < j =>
        \/ runs[r][i][1] < runs[r][j][1]
        \/ runs[r][i][1] = runs[r][j][1] /\ runs[r][i][2] < runs[r][j][2]

\* A timer whose deadline comes within the clock's bound does not stay on the
\* heap, nor its callback with the loop: the loop never sleeps past it for good.
DueRuns ==
    \A r \in Timers :
        LET due == \/ r \in Active /\ when[r] <= MaxNow
                   \/ running # None /\ running.r = r
        IN  due ~> ~due
=============================================================================
