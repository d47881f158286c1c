--------------------------- MODULE SynctestProofs ---------------------------
(***************************************************************************)
(* Safety of the synctest bubble, for every finite set of goroutines,      *)
(* every budget of operations, all delays and periods of timers and every  *)
(* bound of the fake clock: the counts, the clock and the verdicts, on the *)
(* invariant of the mailboxes that SynctestMail proves.                    *)
(***************************************************************************)
EXTENDS SynctestMail, FiniteSetTheorems, WellFoundedInduction, TLAPS

Timer == [when : Nat, period : Nat]

ClockTypes ==
    /\ now \in 0 .. MaxNow /\ timer \in [Gs -> Timer \union {None}]
    /\ parked \in BOOLEAN /\ done \in BOOLEAN /\ closed \in BOOLEAN
    /\ waiting \in BOOLEAN /\ crashed \in BOOLEAN

Refs == refs = IF pc[Outsider] \in {"none", "exited"} THEN 0 ELSE 1

Awake == {g \in InBubble : ~blocked[g]}

Counts ==
    /\ total = Cardinality(InBubble)
    /\ running = Cardinality(Awake) + (IF pc[Ctl] \in Busy THEN 1 ELSE 0)

\* Nobody but g acts in the bubble, or can come.
AllRest(g) == refs = 0 /\ \A h \in InBubble \ {g} : AtRest(h)

\* Between the controller's decision and the return from Wait.
Quiet ==
    \A g \in Gs : pc[g] = "waits" /\ waiter # g =>
        /\ pc[Ctl] \in {"signal", "top", "asleep"} /\ AllRest(g)
        /\ \A h \in Set : timer[h].when > now

Verdict ==
    /\ pc[Ctl] = "deadlock" => AllRest(Ctl) /\ (Set = {} \/ done)
    /\ closed <=> pc[Ctl] = "closed"
    /\ closed => refs = 0 /\ InBubble = {}
    /\ crashed => waiting

Books == ClockTypes /\ Refs /\ Counts /\ Quiet /\ Verdict

Inv == MailInv /\ Books

-----------------------------------------------------------------------------
(***************************************************************************)
(* What a step does to the counts                                          *)
(***************************************************************************)
LEMMA Finite == IsFiniteSet(InBubble) /\ IsFiniteSet(Awake)
<1>1. IsFiniteSet(Members)
  BY SynctestAssumption, FS_AddElement, Zenon DEF Members
<1>2. InBubble \subseteq Members /\ Awake \subseteq Members
  BY Zenon DEF InBubble, Awake
<1> QED
  BY <1>1, <1>2, FS_Subset, Zenon

LEMMA CountTypes == Cardinality(InBubble) \in Nat /\ Cardinality(Awake) \in Nat
  BY Finite, FS_CardinalityType, Zenon

LEMMA CountsKept ==
    ASSUME Counts, InBubble' = InBubble, Awake' = Awake, total' = total, running' = running,
           pc[Ctl] \in Busy <=> pc'[Ctl] \in Busy
    PROVE  Counts'
  BY Zenon DEF Counts

\* A goroutine comes into the bubble, running.
LEMMA CountsEnter ==
    ASSUME Counts, NEW c, c \notin InBubble, InBubble' = InBubble \union {c}, Awake' = Awake \union {c},
           total' = total + 1, running' = running + 1, pc[Ctl] \in Busy <=> pc'[Ctl] \in Busy
    PROVE  Counts'
<1>1. c \notin Awake
  BY Zenon DEF Awake
<1>2. Cardinality(InBubble') = Cardinality(InBubble) + 1 /\ Cardinality(Awake') = Cardinality(Awake) + 1
  BY <1>1, Finite, FS_AddElement, Zenon
<1> QED
  BY <1>2, CountTypes DEF Counts

\* A running goroutine leaves it.
LEMMA CountsLeave ==
    ASSUME Counts, NEW c, c \in Awake, InBubble' = InBubble \ {c}, Awake' = Awake \ {c},
           total' = total - 1, running' = running - 1, pc[Ctl] \in Busy <=> pc'[Ctl] \in Busy
    PROVE  Counts'
<1>1. c \in InBubble
  BY Zenon DEF Awake
<1>2. Cardinality(InBubble') = Cardinality(InBubble) - 1 /\ Cardinality(Awake') = Cardinality(Awake) - 1
  BY <1>1, Finite, FS_RemoveElement, Zenon
<1> QED
  BY <1>2, CountTypes DEF Counts

LEMMA CountsBlock ==
    ASSUME Counts, NEW c, c \in Awake, InBubble' = InBubble, Awake' = Awake \ {c},
           total' = total, running' = running - 1, pc[Ctl] \in Busy <=> pc'[Ctl] \in Busy
    PROVE  Counts'
<1>1. Cardinality(Awake') = Cardinality(Awake) - 1
  BY Finite, FS_RemoveElement, Zenon
<1> QED
  BY <1>1, CountTypes DEF Counts

LEMMA CountsWake ==
    ASSUME Counts, NEW c, c \notin Awake, InBubble' = InBubble, Awake' = Awake \union {c},
           total' = total, running' = running + 1, pc[Ctl] \in Busy <=> pc'[Ctl] \in Busy
    PROVE  Counts'
<1>1. Cardinality(Awake') = Cardinality(Awake) + 1
  BY Finite, FS_AddElement, Zenon
<1> QED
  BY <1>1, CountTypes DEF Counts

\* running is zero exactly if everybody is blocked and the controller is not busy.
LEMMA NobodyRuns ==
    ASSUME Counts, running = 0
    PROVE  Awake = {} /\ pc[Ctl] \notin Busy
  BY Finite, CountTypes, FS_EmptySet DEF Counts

-----------------------------------------------------------------------------
(***************************************************************************)
(* What a step may leave out of account                                    *)
(***************************************************************************)
\* Somebody may act: no goroutine is on its way out of Wait, and the controller
\* has given no verdict.
Active ==
    /\ pc[Ctl] \notin {"deadlock", "closed"} /\ ~closed
    /\ \A g \in Gs : pc[g] = "waits" => waiter = g

LEMMA RunnerActive ==
    ASSUME Inv, NEW a \in Members, pc[a] \notin Outside, ~AtRest(a), pc[a] # "waits"
    PROVE  Active
<1>1. a \in InBubble /\ a # Ctl
  BY Sets, Zenon DEF InBubble, Outside
<1> QED
  BY <1>1, Zenon DEF Inv, Books, Active, Quiet, Verdict, AllRest

LEMMA BusyActive ==
    ASSUME Inv, refs # 0 \/ pc[Ctl] \in Busy
    PROVE  Active
  BY Zenon DEF Inv, Books, Active, Quiet, Verdict, AllRest, Busy, Waking

\* Whoever has a receiver in hand is in the bubble, or the busy controller.
LEMMA WakerActive ==
    ASSUME Inv, NEW a \in Actors, pc[a] \in Waking
    PROVE  Active
<1>1. CASE a = Ctl
  BY <1>1, BusyActive, Zenon DEF Busy
<1>2. CASE a # Ctl
  BY <1>2, Sets, RunnerActive, Zenon DEF Waking, Outside, AtRest
<1> QED
  BY <1>1, <1>2, Zenon

LEMMA RunActive ==
    ASSUME Inv, NEW g \in Members, pc[g] \in {"run", "start"}
    PROVE  Active /\ g \in Awake
<1>1. Active
  BY RunnerActive, Zenon DEF AtRest, Outside
<1>2. ~blocked[g]
  BY Running, Zenon DEF Inv
<1> QED
  BY <1>1, <1>2, Zenon DEF Awake, InBubble

LEMMA ActiveStep ==
    ASSUME Active, pc'[Ctl] \notin {"deadlock", "closed"}, closed' = closed, crashed' => waiting',
           \A g \in Gs : pc'[g] = "waits" => waiter' = g
    PROVE  Quiet' /\ Verdict'
  BY Zenon DEF Active, Quiet, Verdict

\* An actor moves, at a place where somebody may act; nobody comes to Wait or leaves it.
LEMMA ActorStep ==
    ASSUME Books, Active, NEW a \in Actors, NEW l, l \notin {"waits", "deadlock", "closed"}, Moved(a, l),
           UNCHANGED <<now, timer, closed, waiting, waiter, crashed>>, parked' \in BOOLEAN, done' \in BOOLEAN,
           Refs', Counts'
    PROVE  Books'
<1>1. ClockTypes'
  BY Zenon DEF Books, ClockTypes
<1>2. Quiet' /\ Verdict'
  <2>1. crashed' => waiting'
    BY Zenon DEF Books, Verdict
  <2>2. pc'[Ctl] \notin {"deadlock", "closed"}
    BY Sets, Zenon DEF Active, Moved
  <2>3. \A g \in Gs : pc'[g] = "waits" => waiter' = g
    BY Sets, Zenon DEF Active, Moved
  <2> QED
    BY <2>1, <2>2, <2>3, ActiveStep, Zenon
<1> QED
  BY <1>1, <1>2, Zenon DEF Books

\* It stays in the bubble, and the counts are not touched.
LEMMA SameCounts ==
    ASSUME Books, Active, NEW a \in Actors, NEW l, l \notin Outside \union {"waits", "deadlock", "closed"},
           pc[a] \notin Outside, Moved(a, l), pc[Ctl] \in Busy <=> pc'[Ctl] \in Busy,
           UNCHANGED <<counts, now, timer, closed, waiting, waiter, crashed, blocked, parked, done>>
    PROVE  Books'
<1>1. InBubble' = InBubble
  BY Sets, Zenon DEF Moved, InBubble, Outside
<1>2. Counts'
  BY <1>1, CountsKept, Zenon DEF Books, Awake, counts
<1>3. Refs'
  BY Sets, Zenon DEF Books, Refs, Moved, Outside, counts
<1>4. parked' \in BOOLEAN /\ done' \in BOOLEAN
  BY Zenon DEF Books, ClockTypes
<1>5. l \notin {"waits", "deadlock", "closed"}
  OBVIOUS
<1> QED
  BY <1>2, <1>3, <1>4, <1>5, ActorStep, Zenon

\* The controller's place is not counted differently when another actor moves.
LEMMA BusyKept ==
    ASSUME NEW a \in Actors, NEW l, Moved(a, l), a # Ctl \/ (pc[a] \in Busy <=> l \in Busy)
    PROVE  pc[Ctl] \in Busy <=> pc'[Ctl] \in Busy
  BY Sets, Zenon DEF Moved, Busy, Waking

-----------------------------------------------------------------------------
(***************************************************************************)
(* The goroutines                                                          *)
(***************************************************************************)
\* The first goroutine starts, a child comes, the outsider gets a reference.
LEMMA MemberSteps ==
    ASSUME Inv, NEW g \in Gs,
           (g = Main /\ RootStarts) \/ SynctestAcquire(g) \/ \E c \in Gs : inheritSynctest(g, c)
    PROVE  Books'
<1> USE Sets
<1>0. PICK a \in Members, l \in {"run", "holds"} :
        /\ Goto(a, l)
        /\ \/ pc[a] = "start" /\ l = "run" /\ a \in Gs /\ UNCHANGED counts
           \/ pc[a] = "none" /\ l = "run" /\ a \in Gs
              /\ total' = total + 1 /\ running' = running + 1 /\ refs' = refs
           \/ pc[a] = "none" /\ l = "holds" /\ a = Outsider
              /\ refs' = refs + 1 /\ total' = total /\ running' = running
  BY Zenon DEF RootStarts, inheritSynctest, SynctestAcquire, counts
<1>1. /\ pc[g] \in {"start", "run"}
      /\ UNCHANGED <<parked, done, closed, waiting, waiter, now, timer, blocked, crashed>>
  BY Zenon DEF RootStarts, inheritSynctest, SynctestAcquire, Begin, clock
<1>2. Active
  BY <1>1, RunActive, Zenon
<1>3. Moved(a, l)
  BY <1>0, GotoMoved, Zenon DEF Inv, MailInv, Types, GoroutinePlaces, OutsiderPlaces
<1>4. Refs'
  BY <1>0, <1>3 DEF Moved, Inv, Books, Refs, counts
<1>5. pc[Ctl] \in Busy <=> pc'[Ctl] \in Busy
  BY <1>3, BusyKept, Zenon
<1>6. Counts'
  <2>1. CASE pc[a] = "none" /\ l = "run"
    <3>1. a \notin InBubble /\ InBubble' = InBubble \union {a}
      BY <1>3, <2>1, Zenon DEF Moved, InBubble
    <3>2. Awake' = Awake \union {a}
      BY <1>0, <1>1, <2>1, <3>1, Zenon DEF Awake, Inv, MailInv, BlockedExact
    <3> QED
      BY <1>0, <1>5, <2>1, <3>1, <3>2, CountsEnter, Zenon DEF Inv, Books, counts
  <2>2. CASE ~(pc[a] = "none" /\ l = "run")
    <3>1. InBubble' = InBubble
      BY <1>0, <1>3, <2>2, Zenon DEF Moved, InBubble
    <3> QED
      BY <1>0, <1>1, <1>5, <2>2, <3>1, CountsKept, Zenon DEF Inv, Books, counts, Awake
  <2> QED
    BY <2>1, <2>2, Zenon
<1>7. parked' \in BOOLEAN /\ done' \in BOOLEAN
  BY <1>1, Zenon DEF Inv, Books, ClockTypes
<1> QED
  BY <1>1, <1>2, <1>3, <1>4, <1>6, <1>7, ActorStep, Zenon DEF Inv

\* A goroutine leaves: it runs, so it was counted as running.
LEMMA LeaveStep ==
    ASSUME Inv, NEW g \in Members, leaveSynctest(g)
    PROVE  Books'
<1> USE Sets
<1>1. PICK l \in {"left", "exited"} :
        /\ pc[g] = "run" /\ StepAndNotify(g, l) /\ (l = "left" <=> g = Outsider)
        /\ total' = total - 1 /\ running' = IF blocked[g] THEN running ELSE running - 1
        /\ blocked' = [blocked EXCEPT ![g] = FALSE] /\ done' = (done \/ g = Main) /\ parked' = FALSE
        /\ UNCHANGED <<refs, closed, waiting, waiter, now, timer, crashed>>
  BY Zenon DEF leaveSynctest, StepAndNotify, clock
<1>2. Active /\ g \in Awake /\ ~blocked[g]
  BY <1>1, RunActive, Zenon DEF Awake
<1>3. Moved(g, l)
  BY <1>1, GotoMoved, Zenon DEF Inv, MailInv, Types, GoroutinePlaces, OutsiderPlaces
<1>4. Refs'
  BY <1>1, <1>3, Zenon DEF Moved, Inv, Books, Refs
<1>5. Counts'
  <2>1. InBubble' = InBubble \ {g}
    BY <1>1, <1>3, Zenon DEF Moved, InBubble
  <2>2. \A h \in InBubble' : blocked'[h] = blocked[h]
    BY <1>1, <2>1, Zenon DEF Inv, MailInv, Types, FlagTypes, InBubble
  <2>3. Awake' = Awake \ {g}
    BY <2>1, <2>2, Zenon DEF Awake
  <2> QED
    BY <1>1, <1>2, <1>3, <2>1, <2>3, BusyKept, CountsLeave, Zenon DEF Inv, Books
<1>6. parked' \in BOOLEAN /\ done' \in BOOLEAN
  BY <1>1, Zenon DEF Inv, Books, ClockTypes
<1> QED
  BY <1>1, <1>2, <1>3, <1>4, <1>5, <1>6, ActorStep, Zenon DEF Inv

\* The reference keeps the bubble open until the outsider has released it.
LEMMA OutsiderSteps ==
    ASSUME Inv, SynctestInBubble \/ SynctestRelease
    PROVE  Books'
<1> USE Sets
<1>0. pc[Outsider] \in {"holds", "left"} /\ refs = 1
  BY Zenon DEF SynctestInBubble, SynctestRelease, Inv, Books, Refs
<1>1. Active
  BY <1>0, BusyActive
<1>2. PICK l \in {"run", "exited"} :
        /\ Goto(Outsider, l) \/ StepAndNotify(Outsider, l)
        /\ \/ l = "run" /\ pc[Outsider] = "holds"
              /\ total' = total + 1 /\ running' = running + 1 /\ refs' = refs /\ parked' = parked
           \/ l = "exited" /\ pc[Outsider] = "left" /\ total' = total /\ running' = running /\ refs' = 0
              /\ parked' = FALSE
        /\ UNCHANGED <<done, closed, waiting, waiter, now, timer, blocked, crashed>>
  BY <1>0, <1>1 DEF SynctestInBubble, SynctestRelease, StepAndNotify, Active, clock
<1>3. Moved(Outsider, l)
  BY <1>2, GotoMoved, Zenon DEF Inv, MailInv, Types, OutsiderPlaces
<1>4. Refs'
  BY <1>0, <1>2, <1>3, Zenon DEF Moved, Refs
<1>5. pc[Ctl] \in Busy <=> pc'[Ctl] \in Busy
  BY <1>3, BusyKept, Zenon
<1>6. Counts'
  <2>1. CASE l = "run"
    <3>1. Outsider \notin InBubble /\ InBubble' = InBubble \union {Outsider}
      BY <1>2, <1>3, <2>1, Zenon DEF Moved, InBubble
    <3>2. Awake' = Awake \union {Outsider}
      BY <1>2, <3>1, Zenon DEF Awake, Inv, MailInv, BlockedExact
    <3> QED
      BY <1>2, <1>5, <2>1, <3>1, <3>2, CountsEnter, Zenon DEF Inv, Books
  <2>2. CASE l = "exited"
    <3>1. InBubble' = InBubble
      BY <1>2, <1>3, <2>2, Zenon DEF Moved, InBubble
    <3> QED
      BY <1>2, <1>5, <2>2, <3>1, CountsKept, Zenon DEF Inv, Books, Awake
  <2> QED
    BY <2>1, <2>2, Zenon
<1>7. parked' \in BOOLEAN /\ done' \in BOOLEAN
  BY <1>2, Zenon DEF Inv, Books, ClockTypes
<1> QED
  BY <1>1, <1>2, <1>3, <1>4, <1>6, <1>7, ActorStep, Zenon DEF Inv

\* A receive takes a value, or queues a waiter; only a running goroutine receives,
\* sets or stops a timer.
LEMMA RecvTimerSteps ==
    ASSUME Inv, NEW g \in Gs,
           \/ Recv(g) \/ \E c \in Gs : SynctestTimerStop(g, c)
           \/ \E d \in Delays, p \in Periods : SetTimer(g, d, p)
    PROVE  Books'
<1> USE Sets
<1>1. /\ pc[g] = "run"
      /\ UNCHANGED <<counts, parked, done, closed, waiting, waiter, now, blocked, crashed>>
  BY Zenon DEF Recv, SetTimer, SynctestTimerStop, Begin, clock
<1>2. Active
  BY <1>1, RunActive, Zenon
<1>3. PICK l \in {"run", "block"} : Goto(g, l)
  <2>1. pc' = pc => Goto(g, "run")
    BY <1>1, Zenon DEF Goto, Inv, MailInv, Types, Placed
  <2> QED
    BY <2>1, Zenon DEF Recv, SetTimer, SynctestTimerStop
<1>4. Moved(g, l)
  BY <1>3, GotoMoved, Zenon DEF Inv, MailInv, Types, GoroutinePlaces, Receiving
<1>5. pc[Ctl] \in Busy <=> pc'[Ctl] \in Busy
  BY <1>4, BusyKept, Zenon
<1>6. timer' \in [Gs -> Timer \union {None}]
  <2>1. ASSUME NEW d \in Delays, NEW p \in Periods, SetTimer(g, d, p)
        PROVE  timer' \in [Gs -> Timer \union {None}]
    <3>1. now + d \in Nat /\ p \in Nat
      BY SynctestAssumption DEF Inv, Books, ClockTypes
    <3> QED
      BY <2>1, <3>1, Zenon DEF SetTimer, Inv, Books, ClockTypes, Timer
  <2>2. ASSUME NEW h \in Gs, SynctestTimerStop(g, h)
        PROVE  timer' \in [Gs -> Timer \union {None}]
    BY <2>2, Zenon DEF SynctestTimerStop, Inv, Books, ClockTypes
  <2>3. CASE Recv(g)
    BY <2>3, Zenon DEF Recv, Inv, Books, ClockTypes, clock
  <2> QED
    BY <2>1, <2>2, <2>3, Zenon
<1>7. InBubble' = InBubble
  BY <1>1, <1>4, Zenon DEF Moved, InBubble
<1>8. Counts'
  BY <1>1, <1>5, <1>7, CountsKept, Zenon DEF Inv, Books, Awake, counts
<1>9. Refs'
  BY <1>1, <1>4, Zenon DEF Moved, Inv, Books, Refs, counts
<1>10. ClockTypes'
  BY <1>1, <1>6, Zenon DEF Inv, Books, ClockTypes
<1>11. Quiet' /\ Verdict'
  BY <1>1, <1>2, <1>4, ActiveStep, Zenon DEF Moved, Active, Inv, Books, Verdict
<1> QED
  BY <1>8, <1>9, <1>10, <1>11, Zenon DEF Books

\* A receiver is counted as blocked when it parks; one that stirs stays counted.
LEMMA ParkSteps ==
    ASSUME Inv, NEW g \in Gs, Block(g) \/ Stirs(g)
    PROVE  Books'
<1> USE Sets
<1>1. PICK l \in {"parked", "stirred"} :
        /\ Goto(g, l) \/ StepAndNotify(g, l)
        /\ pc[g] \in Receiving /\ (l = "stirred" => pc[g] = "parked") /\ parked' \in BOOLEAN
        /\ UNCHANGED <<total, refs, done, closed, waiting, waiter, now, timer, queued, crashed>>
  BY Zenon DEF Block, Stirs, counts, clock, Receiving, StepAndNotify, Inv, Books, ClockTypes
<1>2. Moved(g, l)
  BY <1>1, GotoMoved, Zenon DEF Inv, MailInv, Types, GoroutinePlaces, Receiving
<1>3. (blocked[g] <=> pc[g] # "block") /\ blocked' = [blocked EXCEPT ![g] = TRUE]
  BY ParkFacts, Zenon DEF Inv
<1>4. running' = IF pc[g] = "block" THEN running - 1 ELSE running
  BY <1>3, Zenon DEF Block, Stirs, counts
<1>5. InBubble' = InBubble /\ g \in InBubble /\ (pc[Ctl] \in Busy <=> pc'[Ctl] \in Busy)
  BY <1>1, <1>2, BusyKept, Zenon DEF Moved, InBubble, Receiving
<1>6. \A h \in InBubble : blocked'[h] <=> blocked[h] \/ h = g
  BY <1>3, <1>5, Zenon DEF Inv, MailInv, Types, FlagTypes, InBubble
<1>7. Counts'
  <2>1. CASE pc[g] = "block"
    <3>1. g \in Awake /\ Awake' = Awake \ {g}
      BY <1>3, <1>5, <1>6, <2>1, Zenon DEF Awake
    <3> QED
      BY <1>1, <1>4, <1>5, <2>1, <3>1, CountsBlock, Zenon DEF Inv, Books
  <2>2. CASE pc[g] # "block"
    <3>1. Awake' = Awake
      BY <1>3, <1>5, <1>6, <2>2, Zenon DEF Awake
    <3> QED
      BY <1>1, <1>4, <1>5, <2>2, <3>1, CountsKept, Zenon DEF Inv, Books
  <2> QED
    BY <2>1, <2>2, Zenon
<1>8. Refs'
  BY <1>1, <1>2, Zenon DEF Moved, Inv, Books, Refs
<1>9. CASE AtRest(g)
  <2>1. \A h \in InBubble : AtRest(h) => AtRest(h)'
    BY <1>1, <1>2, <1>9, Zenon DEF AtRest, Moved, InBubble
  <2>2. Set' = Set
    BY <1>1, Zenon DEF Set
  <2>3. Quiet'
    BY <1>1, <1>2, <1>5, <2>1, <2>2, Zenon DEF Inv, Books, Quiet, AllRest, Moved
  <2>4. Verdict'
    BY <1>1, <1>2, <1>5, <2>1, <2>2, Zenon DEF Inv, Books, Verdict, AllRest, Moved
  <2>5. ClockTypes'
    BY <1>1, Zenon DEF Inv, Books, ClockTypes
  <2> QED
    BY <1>7, <1>8, <2>3, <2>4, <2>5, Zenon DEF Books
<1>10. CASE ~AtRest(g)
  <2>1. Active
    BY <1>1, <1>10, RunnerActive, Zenon DEF Outside, Receiving
  <2>2. parked' \in BOOLEAN /\ done' \in BOOLEAN
    BY <1>1, Zenon DEF Inv, Books, ClockTypes
  <2> QED
    BY <1>1, <1>2, <1>7, <1>8, <2>1, <2>2, ActorStep, Zenon DEF Inv
<1> QED
  BY <1>9, <1>10, Zenon

\* A receiver that sees its status done was counted as running before.
LEMMA ReturnStep ==
    ASSUME Inv, NEW g \in Gs, RecvReturns(g)
    PROVE  Books'
<1> USE Sets
<1>1. /\ pc[g] = "parked" /\ Goto(g, "run")
      /\ UNCHANGED <<counts, now, timer, closed, waiting, waiter, crashed, blocked, parked, done>>
  BY Zenon DEF RecvReturns, clock
<1>2. Moved(g, "run")
  BY <1>1, GotoMoved, Zenon DEF Inv, MailInv, Types, GoroutinePlaces
<1>3. Active
  BY <1>1, ReturnMail, RunnerActive, Zenon DEF AtRest, Outside, Inv
<1> QED
  BY <1>1, <1>2, <1>3, BusyKept, SameCounts, Zenon DEF Outside, Inv

\* Who sends, and who has a receiver in hand, is counted already.
LEMMA SendStep ==
    ASSUME Inv, Active, NEW a \in Actors, NEW h \in Gs, NEW l, SendTo(a, h, l),
           (a \in Members \ {h} /\ pc[a] = "run" /\ l = "run") \/ (a = Ctl /\ pc[a] = "callback" /\ l = "ran"),
           UNCHANGED <<counts, parked, done, closed, waiting, waiter, clock, blocked, ready, crashed>>
    PROVE  Books'
<1> USE Sets
<1>1. PICK p \in {l, "finish"} : Moved(a, p)
  BY SendMail DEF Inv
<1>2. pc[Ctl] \in Busy <=> pc'[Ctl] \in Busy
  BY <1>1, BusyKept, Zenon DEF Busy, Waking
<1>3. p \in {"run", "ran", "finish"} /\ pc[a] \in {"run", "callback"}
  BY <1>1, Zenon
<1> QED
  BY <1>1, <1>2, <1>3, SameCounts, Zenon DEF Outside, Inv, clock

LEMMA FinishPublishSteps ==
    ASSUME Inv, NEW a \in Actors, Finish(a) \/ Publish(a)
    PROVE  Books'
<1> USE Sets
<1>1. /\ pc[a] \in Waking
      /\ UNCHANGED <<counts, now, timer, closed, waiting, waiter, crashed, blocked, parked, done>>
  BY Zenon DEF Finish, Publish, clock, Waking
<1>2. PICK l \in {"wake", "run", "ran"} : Moved(a, l) /\ (a = Ctl => l \in {"wake", "ran"})
  BY FinishMail, PublishMail, Zenon DEF Inv, AfterWake
<1>3. Active
  BY <1>1, WakerActive, Zenon
<1>4. pc[Ctl] \in Busy <=> pc'[Ctl] \in Busy
  BY <1>1, <1>2, BusyKept, Zenon DEF Busy, Waking
<1> QED
  BY <1>1, <1>2, <1>3, <1>4, SameCounts, Zenon DEF Outside, Inv, Waking

\* The wake is counted while the receiver cannot return: it was counted as blocked.
LEMMA WakeStep ==
    ASSUME Inv, NEW a \in Actors, Wake(a)
    PROVE  Books'
<1> USE Sets
<1> DEFINE h == target[a]
<1>1. /\ pc[a] = "wake" /\ blocked' = [blocked EXCEPT ![h] = FALSE]
      /\ running' = IF blocked[h] THEN running + 1 ELSE running
      /\ UNCHANGED <<total, refs, parked, done, closed, waiting, waiter, now, timer, crashed>>
  BY Zenon DEF Wake, clock
<1>2. Moved(a, "publish") /\ h \in Gs /\ pc[h] = "parked" /\ blocked[h]
  BY WakeMail, Zenon DEF Inv
<1> HIDE DEF h
<1>3. Active
  BY <1>1, WakerActive, Zenon DEF Waking
<1>4. pc[Ctl] \in Busy <=> pc'[Ctl] \in Busy
  BY <1>1, <1>2, BusyKept, Zenon DEF Busy, Waking
<1>5. InBubble' = InBubble /\ h \in InBubble
  BY <1>1, <1>2, Zenon DEF Moved, InBubble
<1>6. \A g \in InBubble : blocked'[g] <=> blocked[g] /\ g # h
  BY <1>1, <1>2, Zenon DEF Inv, MailInv, Types, FlagTypes, InBubble
<1>7. h \notin Awake /\ Awake' = Awake \union {h}
  BY <1>2, <1>5, <1>6, Zenon DEF Awake
<1>8. Counts'
  BY <1>1, <1>2, <1>4, <1>5, <1>7, CountsWake, Zenon DEF Inv, Books
<1>9. Refs'
  BY <1>1, <1>2, Zenon DEF Moved, Inv, Books, Refs
<1>10. parked' \in BOOLEAN /\ done' \in BOOLEAN
  BY <1>1, Zenon DEF Inv, Books, ClockTypes
<1> QED
  BY <1>1, <1>2, <1>3, <1>8, <1>9, <1>10, ActorStep, Zenon DEF Inv

\* Wait begins, or panics because another goroutine waits.
LEMMA WaitStep ==
    ASSUME Inv, NEW g \in Gs, SynctestWait(g)
    PROVE  Books'
<1> USE Sets
<1>1. /\ pc[g] = "run"
      /\ UNCHANGED <<total, refs, done, closed, now, timer>>
  BY Zenon DEF SynctestWait, Begin, clock
<1>2. Active /\ g \in Awake
  BY <1>1, RunActive, Zenon
<1>3. CASE waiting
  <2>1. crashed' = TRUE /\ UNCHANGED <<waiting, waiter, blocked, running, parked, pc>>
    BY <1>3, Zenon DEF SynctestWait
  <2>2. Counts' /\ Refs'
    BY <1>1, <2>1, Zenon DEF Inv, Books, Counts, Refs, InBubble, Awake
  <2>3. ClockTypes'
    BY <1>1, <2>1, Zenon DEF Inv, Books, ClockTypes
  <2>4. Quiet' /\ Verdict'
    BY <1>1, <1>2, <1>3, <2>1, ActiveStep, Zenon DEF Active
  <2> QED
    BY <2>2, <2>3, <2>4, Zenon DEF Books
<1>4. CASE ~waiting
  <2>1. /\ waiting' = TRUE /\ waiter' = g /\ blocked' = [blocked EXCEPT ![g] = TRUE]
        /\ running' = running - 1 /\ StepAndNotify(g, "waits") /\ crashed' = crashed /\ parked' = FALSE
    BY <1>4, Zenon DEF SynctestWait, StepAndNotify
  <2>2. Moved(g, "waits")
    BY <2>1, GotoMoved, Zenon DEF Inv, MailInv, Types, GoroutinePlaces
  <2>3. \A h \in Gs : pc[h] # "waits"
    BY <1>4, Zenon DEF Inv, MailInv, Waits
  <2>4. InBubble' = InBubble
    BY <1>1, <2>2, Zenon DEF Moved, InBubble
  <2>5. \A h \in InBubble : blocked'[h] <=> blocked[h] \/ h = g
    BY <2>1, Zenon DEF Inv, MailInv, Types, FlagTypes, InBubble
  <2>6. Awake' = Awake \ {g}
    BY <2>4, <2>5, Zenon DEF Awake
  <2>7. Counts'
    BY <1>1, <1>2, <2>1, <2>2, <2>4, <2>6, BusyKept, CountsBlock, Zenon DEF Inv, Books
  <2>8. Refs' /\ ClockTypes'
    BY <1>1, <2>1, <2>2, Zenon DEF Moved, Inv, Books, Refs, ClockTypes
  <2>9. Quiet' /\ Verdict'
    BY <1>1, <1>2, <2>1, <2>2, <2>3, ActiveStep, Zenon DEF Moved, Active
  <2> QED
    BY <2>7, <2>8, <2>9, Zenon DEF Books
<1> QED
  BY <1>3, <1>4, Zenon

\* The goroutine that was let go returns: the controller waits for it at the top of
\* its loop, and nobody else had been let go.
LEMMA WaitReturnStep ==
    ASSUME Inv, ~crashed, NEW g \in Gs, WaitReturns(g)
    PROVE  Books'
<1> USE Sets
<1>1. /\ pc[g] = "waits" /\ waiting' = FALSE
      /\ UNCHANGED <<counts, parked, done, closed, waiter, now, timer, blocked, crashed>>
  BY Zenon DEF WaitReturns, clock
<1>2. Moved(g, "run") /\ waiter = None /\ \A h \in Gs : pc'[h] # "waits"
  BY WaitReturnMail, Zenon DEF Inv
<1>3. pc[Ctl] \in {"signal", "top", "asleep"}
  BY <1>1, <1>2, Zenon DEF Inv, Books, Quiet
<1>4. InBubble' = InBubble
  BY <1>1, <1>2, Zenon DEF Moved, InBubble
<1>5. Counts'
  BY <1>1, <1>2, <1>4, BusyKept, CountsKept, Zenon DEF Inv, Books, Awake, counts
<1>6. Refs' /\ ClockTypes'
  BY <1>1, <1>2, Zenon DEF Moved, Inv, Books, Refs, ClockTypes, counts
<1>7. Quiet'
  BY <1>2, Zenon DEF Quiet
<1>8. Verdict'
  BY <1>1, <1>2, <1>3, Zenon DEF Moved, Inv, Books, Verdict
<1> QED
  BY <1>5, <1>6, <1>7, <1>8, Zenon DEF Books

-----------------------------------------------------------------------------
(***************************************************************************)
(* The controller                                                          *)
(***************************************************************************)
\* At an idle bubble, everybody in it is at rest or waits for the controller.
LEMMA IdleRests ==
    ASSUME Inv, pc[Ctl] = "top", Idle
    PROVE  /\ \A h \in InBubble : AtRest(h) \/ (h \in Gs /\ pc[h] = "waits" /\ waiter = h)
           /\ InBubble \subseteq Gs /\ refs = 0 /\ Active
<1> USE Sets
<1>1. Awake = {} /\ refs = 0
  BY NobodyRuns, Zenon DEF Inv, Books, Idle
<1>2. \A h \in InBubble : h \in Gs /\ blocked[h]
  BY <1>1, Zenon DEF Awake, InBubble, Inv, MailInv, BlockedExact
<1>3. \A a \in Actors : pc[a] \notin Waking
  <2> SUFFICES ASSUME NEW a \in Actors, pc[a] \in Waking
               PROVE  FALSE
    OBVIOUS
  <2>1. a \in InBubble
    BY Zenon DEF InBubble, Waking
  <2> QED
    BY <1>2, <2>1, Zenon DEF Inv, MailInv, BlockedExact, Waking
<1>4. \A h \in InBubble : AtRest(h) \/ (pc[h] = "waits" /\ waiter = h)
  BY <1>2, <1>3, Zenon DEF Inv, MailInv, Types, BoxTypes, BlockedExact, AtRest, Waking
<1>5. \A g \in Gs : pc[g] = "waits" => g \in InBubble
  BY Zenon DEF InBubble
<1>6. Active
  BY <1>4, <1>5, Zenon DEF Active, AtRest, Inv, Books, Verdict
<1> QED
  BY <1>1, <1>2, <1>4, <1>6, Zenon

\* A set timer with the least deadline exists.
LEMMA FirstExists ==
    ASSUME ClockTypes, Set # {}
    PROVE  \E g \in Gs : First(g)
<1> DEFINE W == {timer[g].when : g \in Set}
<1>1. \A g \in Set : g \in Gs /\ timer[g].when \in Nat
  BY Zenon DEF ClockTypes, Set, Timer
<1>2. W \subseteq Nat /\ W # {}
  BY <1>1, Zenon
<1> HIDE DEF W
<1>3. PICK m \in W : \A w \in W : ~(<<w, m>> \in OpToRel(<, Nat))
  BY <1>2, WFMin, NatLessThanWellFounded, Zenon
<1>4. \A w \in W : m <= w
  <2> SUFFICES ASSUME NEW w \in W
               PROVE  m <= w
    OBVIOUS
  <2>1. m \in Nat /\ w \in Nat
    BY <1>2, Zenon
  <2>2. w < m => <<w, m>> \in OpToRel(<, Nat)
    BY <2>1, Zenon DEF OpToRel
  <2>3. ~(w < m)
    BY <1>3, <2>2, Zenon
  <2> QED
    BY <2>1, <2>3
<1>5. PICK g \in Set : timer[g].when = m
  BY Zenon DEF W
<1>6. \A h \in Set : timer[h].when \in W
  BY Zenon DEF W
<1> QED
  BY <1>1, <1>4, <1>5, <1>6, Zenon DEF First

\* Sleeping and waking up change nothing.
LEMMA SleepSteps ==
    ASSUME Inv, ControllerParks \/ SpuriousWake
    PROVE  Books'
<1> USE Sets
<1>1. PICK l \in {"top", "asleep"} :
        /\ Goto(Ctl, l) /\ pc[Ctl] \in {"top", "asleep"} /\ parked' \in BOOLEAN
        /\ UNCHANGED <<counts, done, closed, waiting, waiter, now, timer, blocked, queued, crashed>>
  BY Zenon DEF ControllerParks, SpuriousWake, Inv, Books, ClockTypes, clock, boxes
<1>2. Moved(Ctl, l)
  BY <1>1, GotoMoved, Zenon DEF Inv, MailInv, Types, ControllerPlaces
<1>3. InBubble' = InBubble /\ (pc[Ctl] \in Busy <=> pc'[Ctl] \in Busy)
  BY <1>1, <1>2, Zenon DEF Moved, InBubble, Busy, Waking
<1>4. Counts'
  BY <1>1, <1>3, CountsKept, Zenon DEF Inv, Books, Awake, counts
<1>5. Refs' /\ ClockTypes'
  BY <1>1, <1>2, Zenon DEF Moved, Inv, Books, Refs, ClockTypes, counts
<1>6. Quiet'
  <2>1. Set' = Set /\ \A h \in InBubble : AtRest(h) => AtRest(h)'
    BY <1>1, <1>2, Zenon DEF Set, AtRest, InBubble, Moved
  <2> QED
    BY <1>1, <1>2, <1>3, <2>1, Zenon DEF Inv, Books, Quiet, AllRest, Moved, counts
<1>7. Verdict'
  BY <1>1, <1>2, Zenon DEF Inv, Books, Verdict, Moved
<1> QED
  BY <1>4, <1>5, <1>6, <1>7, Zenon DEF Books

\* The controller gives its verdict on an idle bubble.
LEMMA VerdictSteps ==
    ASSUME Inv, ControllerCloses \/ ControllerPanics
    PROVE  Books'
<1> USE Sets
<1>1. PICK l \in {"closed", "deadlock"} :
        /\ Goto(Ctl, l) /\ pc[Ctl] = "top" /\ Idle /\ parked' = FALSE
        /\ closed' = (l = "closed" \/ closed)
        /\ l = "closed" => total = 0
        /\ l = "deadlock" => waiter = None /\ ~\E g \in Gs : First(g) /\ MayRun(g)
        /\ UNCHANGED <<counts, done, waiting, waiter, now, timer, blocked, queued, crashed>>
  BY Zenon DEF ControllerCloses, ControllerPanics, Inv, Books, ClockTypes, clock, boxes
<1>2. Moved(Ctl, l)
  BY <1>1, GotoMoved, Zenon DEF Inv, MailInv, Types, ControllerPlaces
<1>3. Active /\ refs = 0 /\ \A h \in InBubble : AtRest(h) \/ (pc[h] = "waits" /\ waiter = h)
  BY <1>1, IdleRests, Zenon
<1>4. InBubble' = InBubble /\ (pc[Ctl] \in Busy <=> pc'[Ctl] \in Busy)
  BY <1>1, <1>2, Zenon DEF Moved, InBubble, Busy, Waking
<1>5. Counts'
  BY <1>1, <1>4, CountsKept, Zenon DEF Inv, Books, Awake, counts
<1>6. Refs' /\ ClockTypes'
  BY <1>1, <1>2, Zenon DEF Moved, Inv, Books, Refs, ClockTypes, counts
<1>7. Quiet'
  BY <1>1, <1>2, <1>3, Zenon DEF Active, Quiet, Moved
<1>8. CASE l = "closed"
  <2>1. InBubble = {}
    BY <1>1, <1>8, Finite, FS_EmptySet, Zenon DEF Inv, Books, Counts
  <2>2. Verdict'
    BY <1>1, <1>2, <1>3, <1>4, <1>8, <2>1, Zenon DEF Inv, Books, Verdict, Moved, counts
  <2> QED
    BY <1>5, <1>6, <1>7, <2>2, Zenon DEF Books
<1>9. CASE l = "deadlock"
  <2>1. Set = {} \/ done
    BY <1>1, <1>9, FirstExists, Zenon DEF Inv, Books, MayRun
  <2>2. Set' = Set /\ \A h \in InBubble : AtRest(h) => AtRest(h)'
    BY <1>1, <1>2, Zenon DEF Set, AtRest, InBubble, Moved
  <2>3. \A h \in InBubble : AtRest(h)
    BY <1>1, <1>3, <1>9, Zenon DEF InBubble
  <2>4. Verdict'
    BY <1>1, <1>2, <1>3, <1>4, <1>9, <2>1, <2>2, <2>3, Zenon DEF Inv, Books, Verdict, AllRest, Moved, counts
  <2> QED
    BY <1>5, <1>6, <1>7, <2>4, Zenon DEF Books
<1> QED
  BY <1>8, <1>9, Zenon

\* The next deadline of a periodic timer is a time.
LEMMA NextDeadline ==
    ASSUME NEW tm \in Timer, NEW t \in Nat, tm.period > 0, tm.when <= t
    PROVE  NextWhen(tm, t) \in Nat
<1> DEFINE q == (t - tm.when) \div tm.period
<1>1. tm.when \in Nat /\ tm.period \in Nat \ {0} /\ t - tm.when \in Nat
  BY DEF Timer
<1>2. \A x \in Nat, p \in Nat \ {0} : x \div p \in Nat
  OBVIOUS
<1>3. q \in Nat
  BY <1>1, <1>2, Zenon
<1> HIDE DEF q
<1>4. \A x \in Nat, p \in Nat : p * (1 + x) \in Nat
  OBVIOUS
<1>5. tm.period * (1 + q) \in Nat
  BY <1>1, <1>3, <1>4, Zenon
<1> QED
  BY <1>1, <1>5 DEF NextWhen, q

\* Fake time moves, and the controller counts itself.
LEMMA FireStep ==
    ASSUME Inv, NEW g \in Gs, ControllerFires(g)
    PROVE  Books'
<1> USE Sets
<1> DEFINE t == IF timer[g].when > now THEN timer[g].when ELSE now
<1>1. /\ pc[Ctl] = "top" /\ Idle /\ Goto(Ctl, "callback")
      /\ running' = running + 1 /\ parked' = FALSE
      /\ UNCHANGED <<total, refs, done, closed, waiting, waiter, blocked, crashed>>
  BY Zenon DEF ControllerFires
<1>2. Active
  BY <1>1, IdleRests, Zenon
<1>3. Moved(Ctl, "callback")
  BY <1>1, GotoMoved, Zenon DEF Inv, MailInv, Types, ControllerPlaces, Busy
<1>4. /\ timer[g] \in Timer /\ timer[g].when \in 0 .. MaxNow /\ timer[g].period \in Nat
      /\ timer \in [Gs -> Timer \union {None}]
  BY DEF ControllerFires, First, Set, Inv, Books, ClockTypes, Timer
<1>5. t \in 0 .. MaxNow /\ timer[g].when <= t
  BY <1>4, SynctestAssumption DEF Inv, Books, ClockTypes
<1>6. now' = t /\ now' \in 0 .. MaxNow
  BY <1>5, Zenon DEF ControllerFires
<1>7. timer' \in [Gs -> Timer \union {None}]
  <2>1. CASE timer[g].period > 0
    <3>1. t \in Nat
      BY <1>5, SynctestAssumption
    <3>2. NextWhen(timer[g], t) \in Nat
      BY <1>4, <1>5, <2>1, <3>1, NextDeadline, Zenon
    <3>3. timer' = [timer EXCEPT ![g] = [timer[g] EXCEPT !.when = NextWhen(timer[g], t)]]
      BY <2>1, Zenon DEF ControllerFires
    <3>4. [timer[g] EXCEPT !.when = NextWhen(timer[g], t)] \in Timer
      BY <1>4, <3>2, Zenon DEF Timer
    <3> HIDE DEF t
    <3> QED
      BY <1>4, <3>3, <3>4, Zenon
  <2>2. CASE ~(timer[g].period > 0)
    <3>1. timer' = [timer EXCEPT ![g] = None]
      BY <2>2, Zenon DEF ControllerFires
    <3> QED
      BY <1>4, <3>1, Zenon
  <2> QED
    BY <2>1, <2>2, Zenon
<1> HIDE DEF t
<1>8. ClockTypes'
  BY <1>1, <1>6, <1>7, Zenon DEF Inv, Books, ClockTypes
<1>9. Refs'
  BY <1>1, <1>3, Zenon DEF Moved, Inv, Books, Refs
<1>10. Counts'
  <2>1. InBubble' = InBubble /\ Awake' = Awake
    BY <1>1, <1>3, Zenon DEF Moved, InBubble, Awake
  <2>2. pc[Ctl] \notin Busy /\ pc'[Ctl] \in Busy
    BY <1>1, <1>3, Zenon DEF Moved, Busy, Waking
  <2> QED
    BY <1>1, <2>1, <2>2, CountTypes DEF Inv, Books, Counts
<1>11. Quiet' /\ Verdict'
  BY <1>1, <1>2, <1>3, ActiveStep, Zenon DEF Moved, Active, Inv, Books, Verdict
<1> QED
  BY <1>8, <1>9, <1>10, <1>11, Zenon DEF Books

\* A callback spawns a goroutine.
LEMMA SpawnStep ==
    ASSUME Inv, NEW c \in Gs, CallbackSpawns(c)
    PROVE  Books'
<1> USE Sets
<1>1. /\ pc[Ctl] = "callback" /\ pc[c] = "none" /\ total' = total + 1 /\ running' = running + 1
      /\ pc' = [pc EXCEPT ![Ctl] = "ran", ![c] = "run"]
      /\ UNCHANGED <<refs, parked, done, closed, waiting, waiter, now, timer, blocked, crashed>>
  BY Zenon DEF CallbackSpawns, clock
<1>2. Active
  BY <1>1, BusyActive, Zenon DEF Busy
<1>3. pc'[Ctl] = "ran" /\ pc'[c] = "run" /\ \A b \in Actors \ {c, Ctl} : pc'[b] = pc[b]
  BY <1>1, Zenon DEF Inv, MailInv, Types, Placed
<1>4. Counts'
  <2>1. c \notin InBubble /\ InBubble' = InBubble \union {c}
    BY <1>1, <1>3, Zenon DEF InBubble
  <2>2. Awake' = Awake \union {c}
    BY <1>1, <2>1, Zenon DEF Awake, Inv, MailInv, BlockedExact
  <2>3. pc[Ctl] \in Busy /\ pc'[Ctl] \in Busy
    BY <1>1, <1>3, Zenon DEF Busy
  <2> QED
    BY <1>1, <2>1, <2>2, <2>3, CountsEnter, Zenon DEF Inv, Books
<1>5. Refs' /\ ClockTypes'
  BY <1>1, <1>3, Zenon DEF Inv, Books, Refs, ClockTypes
<1>6. Quiet' /\ Verdict'
  BY <1>1, <1>2, <1>3, ActiveStep, Zenon DEF Active, Inv, Books, Verdict
<1> QED
  BY <1>4, <1>5, <1>6, Zenon DEF Books

\* A callback ends, and the controller is not counted any more.
LEMMA CallbackEndStep ==
    ASSUME Inv, CallbackEnds
    PROVE  Books'
<1> USE Sets
<1>1. /\ pc[Ctl] = "ran" /\ running' = running - 1 /\ parked' = FALSE /\ StepAndNotify(Ctl, "top")
      /\ UNCHANGED <<total, refs, done, closed, waiting, waiter, now, timer, blocked, crashed>>
  BY Zenon DEF CallbackEnds, StepAndNotify, clock
<1>2. Active
  BY <1>1, BusyActive, Zenon DEF Busy
<1>3. Goto(Ctl, "top")
  BY <1>1 DEF StepAndNotify, Goto, Inv, MailInv, Types, Placed
<1>4. Moved(Ctl, "top")
  BY <1>3, GotoMoved, Zenon DEF Inv, MailInv, Types, ControllerPlaces
<1>5. Counts'
  <2>1. InBubble' = InBubble /\ Awake' = Awake
    BY <1>1, <1>4, Zenon DEF Moved, InBubble, Awake
  <2>2. pc[Ctl] \in Busy /\ pc'[Ctl] \notin Busy
    BY <1>1, <1>4, Zenon DEF Moved, Busy, Waking
  <2> QED
    BY <1>1, <2>1, <2>2, CountTypes DEF Inv, Books, Counts
<1>6. Refs'
  BY <1>1, <1>4, Zenon DEF Moved, Inv, Books, Refs
<1>7. parked' \in BOOLEAN /\ done' \in BOOLEAN
  BY <1>1, Zenon DEF Inv, Books, ClockTypes
<1> QED
  BY <1>1, <1>2, <1>4, <1>5, <1>6, <1>7, ActorStep, Zenon DEF Inv

\* The controller lets a goroutine return from Wait: all others are at rest then,
\* and no timer is due.
LEMMA ReleaseStep ==
    ASSUME Inv, ControllerReleases
    PROVE  Books'
<1> USE Sets
<1> DEFINE w == waiter
<1>1. /\ pc[Ctl] = "top" /\ Idle /\ ~\E g \in Gs : First(g) /\ MayRun(g)
      /\ running' = running + 1 /\ blocked' = [blocked EXCEPT ![w] = FALSE]
      /\ waiter' = None /\ parked' = FALSE
      /\ UNCHANGED <<total, refs, done, closed, waiting, now, timer, queued, crashed>>
  BY Zenon DEF ControllerReleases, clock
<1>2. /\ Moved(Ctl, "signal") /\ w \in Gs /\ pc[w] = "waits" /\ blocked[w]
      /\ \A h \in Gs : pc[h] = "waits" => h = w
  BY ReleaseMail, Zenon DEF Inv
<1>3. /\ Active /\ refs = 0 /\ InBubble \subseteq Gs
      /\ \A h \in InBubble : AtRest(h) \/ (pc[h] = "waits" /\ waiter = h)
  BY <1>1, IdleRests, Zenon
<1>4. \A h \in Set : timer[h].when > now
  <2> SUFFICES ASSUME NEW h \in Set
               PROVE  timer[h].when > now
    OBVIOUS
  <2>1. PICK g \in Gs : First(g)
    BY FirstExists, Zenon DEF Inv, Books
  <2>2. ~(timer[g].when <= now) /\ timer[g].when <= timer[h].when /\ g \in Set
    BY <1>1, <2>1, Zenon DEF MayRun, First
  <2>3. timer[g].when \in Nat /\ timer[h].when \in Nat /\ now \in Nat
    BY <2>2 DEF Inv, Books, ClockTypes, Set, Timer
  <2> QED
    BY <2>2, <2>3
<1> HIDE DEF w
<1>5. InBubble' = InBubble /\ w \in InBubble /\ (pc[Ctl] \in Busy <=> pc'[Ctl] \in Busy)
  BY <1>1, <1>2, Zenon DEF Moved, InBubble, Busy, Waking
<1>6. \A h \in InBubble : blocked'[h] <=> blocked[h] /\ h # w
  BY <1>1, <1>2, Zenon DEF Inv, MailInv, Types, FlagTypes, InBubble
<1>7. w \notin Awake /\ Awake' = Awake \union {w}
  BY <1>2, <1>5, <1>6, Zenon DEF Awake
<1>8. Counts'
  BY <1>1, <1>5, <1>7, CountsWake, Zenon DEF Inv, Books
<1>9. Refs' /\ ClockTypes'
  BY <1>1, <1>2, Zenon DEF Moved, Inv, Books, Refs, ClockTypes
<1>10. Quiet'
  <2>1. Set' = Set
    BY <1>1, Zenon DEF Set
  <2>2. \A h \in InBubble \ {w} : AtRest(h)'
    BY <1>1, <1>2, <1>3, Zenon DEF AtRest, Moved
  <2> QED
    BY <1>1, <1>2, <1>3, <1>4, <1>5, <2>1, <2>2, Zenon DEF Quiet, AllRest, Moved
<1>11. Verdict'
  BY <1>1, <1>2, Zenon DEF Inv, Books, Verdict, Moved
<1> QED
  BY <1>8, <1>9, <1>10, <1>11, Zenon DEF Books

\* ready is set, and everybody else stays at rest.
LEMMA SignalStep ==
    ASSUME Inv, ControllerSignals
    PROVE  Books'
<1> USE Sets
<1>1. /\ pc[Ctl] = "signal"
      /\ UNCHANGED <<counts, parked, done, closed, waiting, waiter, now, timer, blocked, queued, crashed>>
  BY Zenon DEF ControllerSignals, clock
<1>2. Moved(Ctl, "top")
  BY SignalMail, Zenon DEF Inv
<1>3. InBubble' = InBubble /\ (pc[Ctl] \in Busy <=> pc'[Ctl] \in Busy)
  BY <1>1, <1>2, Zenon DEF Moved, InBubble, Busy, Waking
<1>4. Counts'
  BY <1>1, <1>3, CountsKept, Zenon DEF Inv, Books, Awake, counts
<1>5. Refs' /\ ClockTypes'
  BY <1>1, <1>2, Zenon DEF Moved, Inv, Books, Refs, ClockTypes, counts
<1>6. Quiet'
  <2>1. Set' = Set /\ \A h \in InBubble : AtRest(h) => AtRest(h)'
    BY <1>1, <1>2, Zenon DEF Set, AtRest, InBubble, Moved
  <2> QED
    BY <1>1, <1>2, <1>3, <2>1, Zenon DEF Inv, Books, Quiet, AllRest, Moved, counts
<1>7. Verdict'
  BY <1>1, <1>2, Zenon DEF Inv, Books, Verdict, Moved
<1> QED
  BY <1>4, <1>5, <1>6, <1>7, Zenon DEF Books

-----------------------------------------------------------------------------
LEMMA InitInv == Init => Inv
<1> SUFFICES ASSUME Init
             PROVE  Inv
  OBVIOUS
<1> USE Sets
<1>1. \A a \in Actors : pc[a] = (IF a = Main THEN "start" ELSE IF a = Ctl THEN "top" ELSE "none")
  BY Zenon DEF Init
<1>2. ClockTypes
  <2>1. now \in 0 .. MaxNow
    BY SynctestAssumption DEF Init
  <2>2. timer \in [Gs -> Timer \union {None}]
    BY Zenon DEF Init
  <2> QED
    BY <2>1, <2>2, Zenon DEF Init, ClockTypes
<1>3. Refs /\ Quiet /\ Verdict
  BY <1>1, Zenon DEF Init, Refs, Quiet, Verdict
<1>4. Counts
  <2>1. InBubble = {Main}
    BY <1>1, Zenon DEF InBubble
  <2>2. Awake = {Main}
    BY <2>1, Zenon DEF Awake, Init
  <2>3. pc[Ctl] \notin Busy
    BY <1>1, Zenon DEF Busy, Waking
  <2>4. Cardinality({Main}) = 1
    BY FS_Singleton, Zenon
  <2> QED
    BY <2>1, <2>2, <2>3, <2>4 DEF Counts, Init
<1> QED
  BY <1>2, <1>3, <1>4, InitMail, Zenon DEF Inv, Books

LEMMA SendSteps ==
    ASSUME Inv, NEW g \in Members, NEW h \in Gs, Send(g, h)
    PROVE  Books'
<1>1. /\ pc[g] = "run" /\ g # h /\ SendTo(g, h, "run")
      /\ UNCHANGED <<counts, parked, done, closed, waiting, waiter, clock, blocked, ready, crashed>>
  BY Zenon DEF Send, Begin
<1> QED
  BY <1>1, Sets, RunActive, SendStep, Zenon

LEMMA CallbackStep ==
    ASSUME Inv, Callback
    PROVE  Books'
<1>1. pc[Ctl] = "callback" /\ target[Ctl] \in Gs /\ SendTo(Ctl, target[Ctl], "ran")
  BY Zenon DEF Callback, Inv, MailInv, Waits
<1>2. UNCHANGED <<counts, parked, done, closed, waiting, waiter, clock, blocked, ready, crashed>>
  BY Zenon DEF Callback
<1>3. Active
  BY <1>1, BusyActive, Zenon DEF Busy
<1> QED
  BY <1>1, <1>2, <1>3, Sets, SendStep, Zenon

\* Every step of the bubble preserves the invariant.
LEMMA NextInv == Inv /\ [Next]_vars => Inv'
<1> SUFFICES ASSUME Inv, [Next]_vars
             PROVE  Books'
  BY NextMail, Zenon DEF Inv
<1> USE Sets
<1>1. CASE UNCHANGED vars
  <2> USE DEF vars, counts, clock, boxes
  <2>1. ClockTypes' /\ Refs' /\ Counts'
    BY <1>1, Zenon DEF Inv, Books, ClockTypes, Refs, Counts, InBubble, Awake
  <2>2. Quiet' /\ Verdict'
    BY <1>1, Zenon DEF Inv, Books, Quiet, Verdict, InBubble, AllRest, AtRest, Set
  <2> QED
    BY <2>1, <2>2, Zenon DEF Books
<1>2. CASE Controller \/ SpuriousWake
  <2>1. CASE Finish(Ctl) \/ Publish(Ctl) \/ Wake(Ctl)
    BY <2>1, FinishPublishSteps, WakeStep, Zenon
  <2>2. CASE \E g \in Gs : ControllerFires(g) \/ CallbackSpawns(g)
    BY <2>2, FireStep, SpawnStep, Zenon
  <2> QED
    BY Zenon, <1>2, <2>1, <2>2, SleepSteps, VerdictSteps, CallbackStep, CallbackEndStep, ReleaseStep,
       SignalStep DEF Controller
<1>3. CASE FromOutside
  <2>1. CASE leaveSynctest(Outsider) \/ \E h \in Gs : Send(Outsider, h)
    BY <2>1, LeaveStep, SendSteps, Zenon
  <2> QED
    BY <1>3, <2>1, OutsiderSteps, FinishPublishSteps, WakeStep, Zenon DEF FromOutside
<1>4. ASSUME ~crashed, NEW g \in Gs, Goroutine(g) \/ Stirs(g)
      PROVE  Books'
  <2>1. CASE leaveSynctest(g) \/ Finish(g) \/ Wake(g) \/ Publish(g) \/ SynctestWait(g) \/ WaitReturns(g)
    BY <1>4, <2>1, LeaveStep, FinishPublishSteps, WakeStep, WaitStep, WaitReturnStep, Zenon
  <2>2. CASE Recv(g) \/ (\E d \in Delays, p \in Periods : SetTimer(g, d, p)) \/ (\E c \in Gs : SynctestTimerStop(g, c))
    BY <2>2, RecvTimerSteps, Zenon
  <2>3. CASE Block(g) \/ Stirs(g) \/ RecvReturns(g) \/ \E h \in Gs : Send(g, h)
    BY <2>3, ParkSteps, ReturnStep, SendSteps, Zenon
  <2>4. CASE (g = Main /\ RootStarts) \/ SynctestAcquire(g) \/ \E c \in Gs : inheritSynctest(g, c)
    BY <2>4, MemberSteps, Zenon
  <2> QED
    BY <1>4, <2>1, <2>2, <2>3, <2>4, Zenon DEF Goroutine
<1> QED
  BY <1>1, <1>2, <1>3, <1>4, Zenon DEF Next

\* The invariant that the theorems rest on holds of every bubble.
THEOREM BubbleInvariant == Spec => []Inv
  BY InitInv, NextInv, PTL DEF Spec

-----------------------------------------------------------------------------
(***************************************************************************)
(* What the bubble promises                                                *)
(***************************************************************************)
LEMMA DurableIsBlocked ==
    ASSUME Inv, NEW g \in InBubble
    PROVE  Durable(g) <=> blocked[g]
<1> USE Sets
<1>1. CASE g = Outsider
  BY <1>1, Zenon DEF Inv, MailInv, Types, Placed, BlockedExact, Durable, OutsiderPlaces, Waking
<1>2. CASE g \in Gs
  <2>1. (\E a \in Actors : pc[a] \in {"finish", "wake"} /\ target[a] = g)
           <=> mutex[g] # None /\ pc[mutex[g]] \in {"finish", "wake"}
    BY <1>2 DEF Inv, MailInv, Types, BoxTypes, Wakes, Receivers, Waking
  <2> QED
    BY <1>2, <2>1, Zenon DEF Inv, MailInv, BlockedExact, Durable
<1> QED
  BY <1>1, <1>2, Zenon DEF InBubble

\* total is the number of goroutines in the bubble and running the number of those
\* that are not durably blocked, the controller included while it runs a callback:
\* a wake is counted before the receiver can run, and a park only when it is queued.
THEOREM CountsAreExact == Spec => []CountsExact
<1>1. Inv => CountsExact
  <2> SUFFICES ASSUME Inv
               PROVE  CountsExact
    OBVIOUS
  <2>1. Awake = {g \in InBubble : ~Durable(g)}
    BY DurableIsBlocked, Zenon DEF Awake
  <2>2. TypeOK
    <3>1. IsFiniteSet(Members) /\ InBubble \subseteq Members /\ Awake \subseteq Members
      BY SynctestAssumption, FS_AddElement, Zenon DEF Members, InBubble, Awake
    <3>2. /\ Cardinality(Members) \in Nat /\ Cardinality(InBubble) <= Cardinality(Members)
          /\ Cardinality(Awake) <= Cardinality(Members)
      BY <3>1, FS_Subset, FS_CardinalityType, Zenon
    <3>3. total \in 0 .. Cardinality(Members) /\ running \in 0 .. (Cardinality(Members) + 1)
      BY <3>2, CountTypes DEF Inv, Books, Counts
    <3>4. refs \in 0 .. 1
      BY DEF Inv, Books, Refs
    <3> QED
      BY <3>3, <3>4, Zenon DEF Inv, MailInv, Types, BoxTypes, FlagTypes, Books, ClockTypes, TypeOK
  <2> QED
    BY <2>1, <2>2, Zenon DEF Inv, Books, Counts, CountsExact, Busy, Waking
<1> QED
  BY <1>1, BubbleInvariant, PTL

\* From the controller's decision to the return from Wait, all other goroutines of
\* the bubble stay parked and no timer is due: what Wait promises to its caller.
THEOREM WaitSeesQuietBubble == Spec => []WaitIsQuiet
<1>1. Inv => WaitIsQuiet
  BY Zenon DEF Inv, Books, Quiet, AllRest, WaitIsQuiet
<1> QED
  BY <1>1, BubbleInvariant, PTL

\* SynctestRun panics only on a real deadlock, returns only when nobody is left or
\* can come, and neither Release nor InBubble finds the bubble finished.
THEOREM VerdictsAreReal == Spec => []VerdictIsReal
<1>1. Inv => VerdictIsReal
  <2> SUFFICES ASSUME Inv
               PROVE  VerdictIsReal
    OBVIOUS
  <2>1. \A g \in InBubble : g # Ctl
    BY SynctestAssumption, Zenon DEF InBubble, Members
  <2>2. refs = 0 => pc[Outsider] \notin {"holds", "left"}
    BY DEF Inv, Books, Refs
  <2> QED
    BY <2>1, <2>2, Zenon DEF Inv, Books, Verdict, AllRest, VerdictIsReal
<1> QED
  BY <1>1, BubbleInvariant, PTL

\* The fake clock moves only while every goroutine of the bubble is parked with no
\* wake under way: ControllerFires is the one step that moves it, at an idle bubble,
\* and a timer in the future runs only if nobody waits.
THEOREM ClockMovesWhenIdle == Spec => TimeMovesWhenIdle
<1>1. Inv /\ [Next]_vars => [now' # now => \A g \in InBubble : AtRest(g)]_vars
  <2> SUFFICES ASSUME Inv, Next, now' # now
               PROVE  \A g \in InBubble : AtRest(g)
    BY Zenon DEF vars, clock
  <2>1. PICK g \in Gs : ControllerFires(g)
    BY Zenon DEF Next, Controller, SpuriousWake, FromOutside, Goroutine, Stirs, ControllerParks, ControllerCloses,
           Callback, Finish, Wake, Publish, CallbackEnds, ControllerReleases, ControllerSignals,
           ControllerPanics, CallbackSpawns, SynctestInBubble, leaveSynctest, SynctestRelease, Send,
           RootStarts, Recv, Block, RecvReturns, SynctestWait, WaitReturns, SynctestAcquire,
           inheritSynctest, SynctestTimerStop, SetTimer, clock
  <2>2. waiter = None
    BY <2>1 DEF ControllerFires, MayRun, First, Set, Timer, Inv, Books, ClockTypes
  <2>3. pc[Ctl] = "top" /\ Idle
    BY <2>1, Zenon DEF ControllerFires
  <2> QED
    BY <2>2, <2>3, IdleRests, SynctestAssumption, Zenon
<1> QED
  BY <1>1, BubbleInvariant, PTL DEF Spec, TimeMovesWhenIdle
=============================================================================
