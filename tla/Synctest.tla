------------------------------ MODULE Synctest ------------------------------
(***************************************************************************)
(* A synctest bubble: goroutines whose durable waits are counted, a        *)
(* controller that sleeps until the bubble is idle, and a fake clock that  *)
(* moves only then.                                                        *)
(*                                                                         *)
(* Every section under b.event's lock is one step, and so is the           *)
(* controller's decision.  Goroutines wait durably on channels of capacity *)
(* one, a mailbox each.  A receiver holds the lock of its waiter's signal  *)
(* from before it is queued until it parks; a sender keeps the mailbox     *)
(* locked while it waits for that lock, counts the wake and publishes it.  *)
(***************************************************************************)
EXTENDS Integers, FiniteSets

CONSTANTS
    Gs,        \* goroutines that can be in the bubble
    Main,      \* the bubble's first goroutine
    Outsider,  \* a goroutine from outside, which enters by SynctestInBubble
    Ctl,       \* the controller: the goroutine that called SynctestRun
    Delays, Periods,  \* what timers are started with
    MaxNow,    \* bound: the fake clock is not followed further
    Budget,    \* bound: how many operations each goroutine starts
    None

ASSUME SynctestAssumption ==
    /\ IsFiniteSet(Gs) /\ Main \in Gs /\ Outsider \notin Gs /\ Ctl \notin Gs \union {Outsider}
    /\ None \notin Gs \union {Outsider, Ctl}
    /\ Delays \subseteq Nat /\ Periods \subseteq Nat /\ MaxNow \in Nat /\ Budget \in [Gs \union {Outsider} -> Nat]

Members == Gs \union {Outsider}
Actors == Members \union {Ctl}

VARIABLES
    total, running, refs, parked, done, closed, waiting, waiter, now,  \* the bubble
    timer,     \* the fake timer of each goroutine, or None
    blocked,   \* g.bubbleBlocked
    pc,        \* where each goroutine and the controller are
    ready,     \* synctestWait.ready of each goroutine
    box, queued, mutex, \* each mailbox: its buffer, its receiver queued, its lock
    lock, got,          \* each receiver: the lock of its signal, its status is done
    target,    \* whom an actor is waking
    ops,       \* bound: operations left
    crashed    \* a goroutine panicked

counts == <<total, running, refs>>
clock == <<now, timer>>
boxes == <<box, queued, mutex, lock, got, target>>
vars == <<counts, parked, done, closed, waiting, waiter, clock, blocked, pc, ready, boxes, ops, crashed>>

Init ==
    /\ total = 1 /\ running = 1 /\ refs = 0 /\ parked = FALSE /\ done = FALSE /\ closed = FALSE
    /\ waiting = FALSE /\ waiter = None /\ now = 0 /\ timer = [g \in Gs |-> None]
    /\ blocked = [g \in Members |-> FALSE] /\ ready = [g \in Gs |-> FALSE]
    /\ pc = [a \in Actors |-> CASE a = Main -> "start" [] a = Ctl -> "top" [] OTHER -> "none"]
    /\ box = [g \in Gs |-> FALSE] /\ queued = [g \in Gs |-> FALSE]
    /\ mutex = [g \in Gs |-> None] /\ lock = [g \in Gs |-> None] /\ got = [g \in Gs |-> FALSE]
    /\ target = [a \in Actors |-> None]
    /\ ops = Budget /\ crashed = FALSE

Goto(a, l) == pc' = [pc EXCEPT ![a] = l]

\* Mutated form: notifyLocked clears the flag but does not signal.
StepSilently(a, l) == parked' = FALSE /\ Goto(a, l)

\* Actor a goes on to l and calls notifyLocked: the signal ends the controller's wait.
StepAndNotify(a, l) ==
    /\ parked' = FALSE
    /\ pc' = [pc EXCEPT ![a] = l, ![Ctl] = IF parked /\ @ = "asleep" THEN "top" ELSE @]

\* An operation that a goroutine of the bubble begins.
Begin(g) == pc[g] = "run" /\ ops[g] > 0 /\ ops' = [ops EXCEPT ![g] = @ - 1]

-----------------------------------------------------------------------------
(* Membership                                                              *)

\* The first goroutine starts; its place was reserved before it was spawned.
RootStarts ==
    /\ pc[Main] = "start" /\ Goto(Main, "run")
    /\ UNCHANGED <<counts, parked, done, closed, waiting, waiter, clock, blocked, ready, boxes, ops, crashed>>

\* A go statement: inheritSynctest counts the child before it runs.
inheritSynctest(g, c) ==
    /\ Begin(g) /\ pc[c] = "none"
    /\ total' = total + 1 /\ running' = running + 1
    /\ Goto(c, "run")
    /\ UNCHANGED <<refs, parked, done, closed, waiting, waiter, clock, blocked, ready, boxes, crashed>>

leaveSynctest(g) ==
    /\ pc[g] = "run"
    /\ total' = total - 1
    /\ running' = IF blocked[g] THEN running ELSE running - 1
    /\ done' = (done \/ g = Main)
    /\ blocked' = [blocked EXCEPT ![g] = FALSE]
    /\ StepAndNotify(g, IF g = Outsider THEN "left" ELSE "exited")
    /\ UNCHANGED <<refs, closed, waiting, waiter, clock, ready, boxes, ops, crashed>>

\* A goroutine of the bubble takes a reference and gives it to the outsider.
SynctestAcquire(g) ==
    /\ Begin(g) /\ pc[Outsider] = "none"
    /\ refs' = refs + 1
    /\ Goto(Outsider, "holds")
    /\ UNCHANGED <<total, running, parked, done, closed, waiting, waiter, clock, blocked, ready, boxes, crashed>>

SynctestInBubble ==
    /\ pc[Outsider] = "holds"
    /\ IF closed
       THEN crashed' = TRUE /\ UNCHANGED <<total, running, pc>>
       ELSE total' = total + 1 /\ running' = running + 1 /\ Goto(Outsider, "run") /\ UNCHANGED crashed
    /\ UNCHANGED <<refs, parked, done, closed, waiting, waiter, clock, blocked, ready, boxes, ops>>

SynctestRelease ==
    /\ pc[Outsider] = "left"
    /\ IF refs = 0
       THEN crashed' = TRUE /\ UNCHANGED <<refs, parked, pc>>
       ELSE refs' = refs - 1 /\ StepAndNotify(Outsider, "exited") /\ UNCHANGED crashed
    /\ UNCHANGED <<total, running, done, closed, waiting, waiter, clock, blocked, ready, boxes, ops>>

-----------------------------------------------------------------------------
(* Durable waits.  A goroutine receives from its own mailbox; sends are    *)
(* nonblocking, as those of timers are, and change nothing if it is full.  *)

\* ChanRecv: it takes the value, or queues a waiter whose signal it has locked.
Recv(g) ==
    /\ Begin(g) /\ mutex[g] = None
    /\ IF box[g]
       THEN box' = [box EXCEPT ![g] = FALSE] /\ UNCHANGED <<queued, lock, pc>>
       ELSE queued' = [queued EXCEPT ![g] = TRUE] /\ lock' = [lock EXCEPT ![g] = g]
            /\ Goto(g, "block") /\ UNCHANGED box
    /\ UNCHANGED <<counts, parked, done, closed, waiting, waiter, clock, blocked, ready, mutex, got, target, crashed>>

\* SynctestWaiter.Block, after which the goroutine parks and gives the lock up.
Block(g) ==
    /\ pc[g] \in {"block", "stirred"}
    /\ IF blocked[g]
       THEN UNCHANGED <<blocked, running, parked>> /\ Goto(g, "parked")
       ELSE blocked' = [blocked EXCEPT ![g] = TRUE] /\ running' = running - 1 /\ StepAndNotify(g, "parked")
    /\ lock' = [lock EXCEPT ![g] = None]
    /\ UNCHANGED <<total, refs, done, closed, waiting, waiter, clock, ready, box, queued, mutex, got, target, ops, crashed>>

\* The park of a receiver ends early: its status is not done, it blocks again.
Stirs(g) ==
    /\ pc[g] = "parked" /\ lock[g] = None /\ ~got[g]
    /\ lock' = [lock EXCEPT ![g] = g] /\ Goto(g, "stirred")
    /\ UNCHANGED <<counts, parked, done, closed, waiting, waiter, clock, blocked, ready, box, queued, mutex, got, target, ops, crashed>>

\* The park ends and the status is done.
RecvReturns(g) ==
    /\ pc[g] = "parked" /\ lock[g] = None /\ got[g]
    /\ got' = [got EXCEPT ![g] = FALSE] /\ Goto(g, "run")
    /\ UNCHANGED <<counts, parked, done, closed, waiting, waiter, clock, blocked, ready, box, queued, mutex, lock, target, ops, crashed>>

\* Actor a sends to the mailbox of h: it fills the buffer or takes the receiver.
SendTo(a, h, l) ==
    /\ mutex[h] = None
    /\ IF queued[h]
       THEN queued' = [queued EXCEPT ![h] = FALSE] /\ mutex' = [mutex EXCEPT ![h] = a]
            /\ target' = [target EXCEPT ![a] = h] /\ Goto(a, "finish") /\ UNCHANGED box
       ELSE box' = [box EXCEPT ![h] = TRUE] /\ Goto(a, l) /\ UNCHANGED <<queued, mutex, target>>
    /\ UNCHANGED <<lock, got>>

Send(g, h) ==
    /\ Begin(g) /\ g # h /\ SendTo(g, h, "run")
    /\ UNCHANGED <<counts, parked, done, closed, waiting, waiter, clock, blocked, ready, crashed>>

\* finish: the sender gets the lock of the signal and sets the status.
Finish(a) ==
    /\ pc[a] = "finish" /\ lock[target[a]] = None
    /\ lock' = [lock EXCEPT ![target[a]] = a] /\ got' = [got EXCEPT ![target[a]] = TRUE]
    /\ Goto(a, "wake")
    /\ UNCHANGED <<counts, parked, done, closed, waiting, waiter, clock, blocked, ready, box, queued, mutex, target, ops, crashed>>

\* Where an actor goes on after it woke a receiver.
AfterWake(a) == IF a = Ctl THEN "ran" ELSE "run"

\* Mutated form: the signal is unlocked before the wake is counted.
WakeLate(a) ==
    \/ /\ pc[a] = "wake" /\ Goto(a, "late") /\ lock' = [lock EXCEPT ![target[a]] = None]
       /\ UNCHANGED <<counts, parked, done, closed, waiting, waiter, clock, blocked, ready, box, queued, mutex, got, target, ops, crashed>>
    \/ /\ pc[a] = "late" /\ lock[target[a]] = None /\ Goto(a, "publish")
       /\ LET h == target[a]
          IN  /\ blocked' = [blocked EXCEPT ![h] = FALSE]
              /\ running' = IF blocked[h] THEN running + 1 ELSE running
              /\ lock' = [lock EXCEPT ![h] = a]
       /\ UNCHANGED <<total, refs, parked, done, closed, waiting, waiter, clock, ready, box, queued, mutex, got, target, ops, crashed>>

\* SynctestWaiter.Wake: the receiver counts as running before it is woken.
Wake(a) ==
    /\ pc[a] = "wake"
    /\ LET h == target[a]
       IN  /\ blocked' = [blocked EXCEPT ![h] = FALSE]
           /\ running' = IF blocked[h] THEN running + 1 ELSE running
    /\ Goto(a, "publish")
    /\ UNCHANGED <<total, refs, parked, done, closed, waiting, waiter, clock, ready, boxes, ops, crashed>>

\* The receiver is signalled, its signal and the mailbox unlocked.
Publish(a) ==
    /\ pc[a] = "publish" /\ Goto(a, AfterWake(a))
    /\ lock' = [lock EXCEPT ![target[a]] = None] /\ mutex' = [mutex EXCEPT ![target[a]] = None]
    /\ target' = [target EXCEPT ![a] = None]
    /\ UNCHANGED <<counts, parked, done, closed, waiting, waiter, clock, blocked, ready, box, queued, got, ops, crashed>>

\* SynctestWait, up to its park.
SynctestWait(g) ==
    /\ Begin(g)
    /\ IF waiting
       THEN crashed' = TRUE /\ UNCHANGED <<waiting, waiter, blocked, running, parked, pc>>
       ELSE /\ waiting' = TRUE /\ waiter' = g
            /\ blocked' = [blocked EXCEPT ![g] = TRUE] /\ running' = running - 1
            /\ StepAndNotify(g, "waits") /\ UNCHANGED crashed
    /\ UNCHANGED <<total, refs, done, closed, clock, ready, boxes>>

\* It sees ready, and lets the next goroutine wait.
WaitReturns(g) ==
    /\ pc[g] = "waits" /\ ready[g]
    /\ ready' = [ready EXCEPT ![g] = FALSE] /\ waiting' = FALSE
    /\ Goto(g, "run")
    /\ UNCHANGED <<counts, parked, done, closed, waiter, clock, blocked, boxes, ops, crashed>>

\* NewSynctestTimer, or Reset of a timer the goroutine has.
SetTimer(g, d, p) ==
    /\ Begin(g)
    /\ timer' = [timer EXCEPT ![g] = [when |-> now + d, period |-> p]]
    /\ UNCHANGED <<counts, parked, done, closed, waiting, waiter, now, blocked, pc, ready, boxes, crashed>>

SynctestTimerStop(g, h) ==
    /\ Begin(g) /\ timer[h] # None
    /\ timer' = [timer EXCEPT ![h] = None]
    /\ UNCHANGED <<counts, parked, done, closed, waiting, waiter, now, blocked, pc, ready, boxes, crashed>>

-----------------------------------------------------------------------------
(* The controller, SynctestRun.  Each decision is one section; "top" is    *)
(* the loop's head, where it holds the lock again.                         *)

\* Nothing of the bubble runs and nobody outside can enter it.
Idle == running = 0 /\ refs = 0

Set == {g \in Gs : timer[g] # None}
First(g) == g \in Set /\ \A h \in Set : timer[g].when <= timer[h].when

\* Mutated forms: future timers run although a goroutine waits; a due timer is
\* held back until Wait returned; the clock never moves.
MayRunEager(g) == timer[g].when <= now \/ ~done
MayRunAfterWait(g) == waiter = None /\ (timer[g].when <= now \/ ~done)
MayRunDue(g) == timer[g].when <= now

\* A due timer runs; a future one only if nobody waits and main has not exited.
MayRun(g) == timer[g].when <= now \/ (waiter = None /\ ~done)

ControllerParks ==
    /\ pc[Ctl] = "top" /\ ~Idle
    /\ parked' = TRUE /\ Goto(Ctl, "asleep")
    /\ UNCHANGED <<counts, done, closed, waiting, waiter, clock, blocked, ready, boxes, ops, crashed>>

SpuriousWake ==
    /\ pc[Ctl] = "asleep" /\ Goto(Ctl, "top")
    /\ UNCHANGED <<counts, parked, done, closed, waiting, waiter, clock, blocked, ready, boxes, ops, crashed>>

ControllerCloses ==
    /\ pc[Ctl] = "top" /\ Idle /\ total = 0
    /\ parked' = FALSE /\ closed' = TRUE /\ Goto(Ctl, "closed")
    /\ UNCHANGED <<counts, done, waiting, waiter, clock, blocked, ready, boxes, ops, crashed>>

\* The deadline of a periodic timer after it ran at time t.
NextWhen(tm, t) == tm.when + tm.period * (1 + (t - tm.when) \div tm.period)

\* The clock moves to the first timer, whose callback is to run.
ControllerFires(g) ==
    /\ pc[Ctl] = "top" /\ Idle /\ total # 0 /\ First(g) /\ MayRun(g) /\ timer[g].when <= MaxNow
    /\ LET t == IF timer[g].when > now THEN timer[g].when ELSE now
       IN  /\ now' = t
           /\ timer' = [timer EXCEPT ![g] =
                 IF @.period > 0 THEN [@ EXCEPT !.when = NextWhen(timer[g], t)] ELSE None]
    /\ running' = running + 1 /\ parked' = FALSE
    /\ target' = [target EXCEPT ![Ctl] = g] /\ Goto(Ctl, "callback")
    /\ UNCHANGED <<total, refs, done, closed, waiting, waiter, blocked, ready, box, queued, mutex, lock, got, ops, crashed>>

\* The callback sends to the mailbox of the timer's goroutine.
Callback ==
    /\ pc[Ctl] = "callback" /\ SendTo(Ctl, target[Ctl], "ran")
    /\ UNCHANGED <<counts, parked, done, closed, waiting, waiter, clock, blocked, ready, ops, crashed>>

\* The callback of AfterFunc starts a goroutine, which inherits the bubble.
CallbackSpawns(c) ==
    /\ pc[Ctl] = "callback" /\ pc[c] = "none"
    /\ total' = total + 1 /\ running' = running + 1
    /\ pc' = [pc EXCEPT ![Ctl] = "ran", ![c] = "run"]
    /\ UNCHANGED <<refs, parked, done, closed, waiting, waiter, clock, blocked, ready, boxes, ops, crashed>>

CallbackEnds ==
    /\ pc[Ctl] = "ran"
    /\ running' = running - 1 /\ StepAndNotify(Ctl, "top")
    /\ target' = [target EXCEPT ![Ctl] = None]
    /\ UNCHANGED <<total, refs, done, closed, waiting, waiter, clock, blocked, ready, box, queued, mutex, lock, got, ops, crashed>>

\* No timer may run: a goroutine in Wait is let go.
ControllerReleases ==
    /\ pc[Ctl] = "top" /\ Idle /\ total # 0 /\ ~\E g \in Gs : First(g) /\ MayRun(g)
    /\ waiter # None
    /\ running' = running + 1 /\ blocked' = [blocked EXCEPT ![waiter] = FALSE]
    /\ waiter' = None /\ parked' = FALSE
    /\ target' = [target EXCEPT ![Ctl] = waiter] /\ Goto(Ctl, "signal")
    /\ UNCHANGED <<total, refs, done, closed, waiting, clock, ready, box, queued, mutex, lock, got, ops, crashed>>

ControllerSignals ==
    /\ pc[Ctl] = "signal"
    /\ ready' = [ready EXCEPT ![target[Ctl]] = TRUE]
    /\ target' = [target EXCEPT ![Ctl] = None] /\ Goto(Ctl, "top")
    /\ UNCHANGED <<counts, parked, done, closed, waiting, waiter, clock, blocked, box, queued, mutex, lock, got, ops, crashed>>

\* Nothing can run any more: one of the two deadlock panics.
ControllerPanics ==
    /\ pc[Ctl] = "top" /\ Idle /\ total # 0 /\ ~\E g \in Gs : First(g) /\ MayRun(g)
    /\ waiter = None
    /\ parked' = FALSE /\ Goto(Ctl, "deadlock")
    /\ UNCHANGED <<counts, done, closed, waiting, waiter, clock, blocked, ready, boxes, ops, crashed>>

-----------------------------------------------------------------------------
\* What each goroutine does; the outsider only sends, its callback does not wait.
Goroutine(g) ==
    \/ g = Main /\ RootStarts
    \/ leaveSynctest(g) \/ Recv(g) \/ Block(g) \/ RecvReturns(g) \/ Finish(g) \/ Wake(g) \/ Publish(g)
    \/ SynctestWait(g) \/ WaitReturns(g) \/ SynctestAcquire(g)
    \/ \E c \in Gs : inheritSynctest(g, c) \/ Send(g, c) \/ SynctestTimerStop(g, c)
    \/ \E d \in Delays, p \in Periods : SetTimer(g, d, p)

FromOutside ==
    \/ SynctestInBubble \/ leaveSynctest(Outsider) \/ SynctestRelease
    \/ Finish(Outsider) \/ Wake(Outsider) \/ Publish(Outsider) \/ \E h \in Gs : Send(Outsider, h)

Controller ==
    \/ ControllerParks \/ ControllerCloses \/ Callback \/ Finish(Ctl) \/ Wake(Ctl) \/ Publish(Ctl)
    \/ CallbackEnds \/ ControllerReleases \/ ControllerSignals \/ ControllerPanics
    \/ \E g \in Gs : ControllerFires(g) \/ CallbackSpawns(g)

Next == ~crashed /\ (Controller \/ SpuriousWake \/ FromOutside \/ \E g \in Gs : Goroutine(g) \/ Stirs(g))

Spec == Init /\ [][Next]_vars

\* Threads keep running: the controller, and every goroutine of the bubble.  The
\* lock of a signal is granted although its owner may stir again and again.
FairSpec ==
    /\ Spec /\ WF_vars(~crashed /\ Controller) /\ WF_vars(~crashed /\ FromOutside)
    /\ \A g \in Gs : WF_vars(~crashed /\ Goroutine(g))
    /\ \A a \in Actors : SF_vars(~crashed /\ Finish(a))

-----------------------------------------------------------------------------
(* Properties                                                              *)

InBubble == {g \in Members : pc[g] \notin {"none", "holds", "left", "exited"}}

TypeOK ==
    /\ total \in 0..Cardinality(Members) /\ running \in 0..(Cardinality(Members) + 1)
    /\ refs \in 0..1 /\ {parked, done, closed, waiting, crashed} \subseteq BOOLEAN
    /\ waiter \in Gs \union {None} /\ now \in 0..MaxNow
    /\ \A h \in Gs : {lock[h], mutex[h]} \subseteq Actors \union {None}

\* Durably blocked, seen from the outside: parked and either queued or with a
\* wake that has not been counted yet; or in Wait and not released.
Durable(g) ==
    \/ /\ pc[g] \in {"parked", "stirred"}
       /\ queued[g] \/ \E a \in Actors : pc[a] \in {"finish", "wake"} /\ target[a] = g
    \/ pc[g] = "waits" /\ waiter = g

\* Parked, and nobody is about to wake it.
AtRest(g) == pc[g] \in {"parked", "stirred"} /\ queued[g]

\* total is the number of goroutines in the bubble, and running the number of
\* those that are not durably blocked, with the controller while it runs a callback.
CountsExact ==
    /\ TypeOK
    /\ total = Cardinality(InBubble)
    /\ running = Cardinality({g \in InBubble : ~Durable(g)})
                 + (IF pc[Ctl] \in {"callback", "finish", "wake", "publish", "ran"} THEN 1 ELSE 0)

\* Fake time moves only while every goroutine of the bubble is parked and no wake
\* is under way ("fake time cannot advance between a wake and its G resuming").
TimeMovesWhenIdle == [][now' # now => \A g \in InBubble : AtRest(g)]_vars

\* From the moment the controller lets a goroutine return from Wait until it has
\* returned, every other goroutine of the bubble is parked and no timer is due.
WaitIsQuiet ==
    \A g \in Gs : pc[g] = "waits" /\ waiter # g =>
        /\ \A h \in InBubble \ {g} : AtRest(h)
        /\ \A h \in Set : timer[h].when > now

\* The controller's verdict is right.  It reports a deadlock only if all goroutines
\* are parked, no timer could wake one, and nobody outside holds a reference.  It
\* returns, and frees the bubble's lock, only when no goroutine is left and nobody can
\* come: SynctestInBubble never finds a finished bubble and SynctestRelease never
\* finds no reference, so that only a second Wait panics.
VerdictIsReal ==
    /\ pc[Ctl] = "deadlock" => refs = 0 /\ (Set = {} \/ done) /\ \A g \in InBubble : AtRest(g)
    /\ closed => InBubble = {} /\ pc[Outsider] \notin {"holds", "left"}
    /\ crashed => waiting

\* Every bubble ends: it closes or is found deadlocked, unless its next timer is
\* beyond the clock's bound.  The controller does not sleep on an idle bubble.
BubbleEnds ==
    <>(crashed \/ pc[Ctl] \in {"closed", "deadlock"}
       \/ (Idle /\ Set # {} /\ \A g \in Set : timer[g].when > MaxNow))
=============================================================================
