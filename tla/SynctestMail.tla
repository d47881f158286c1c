---------------------------- MODULE SynctestMail ----------------------------
(***************************************************************************)
(* The mailboxes of a synctest bubble: who has a receiver in hand, and     *)
(* that bubbleBlocked says exactly who is durably blocked.  The first half *)
(* of the inductive invariant; SynctestProofs adds the counts, the clock   *)
(* and the verdicts.                                                       *)
(***************************************************************************)
EXTENDS Synctest, TLAPS

\* With a receiver in hand, and in a channel receive.
Waking == {"finish", "wake", "publish"}
Receiving == {"block", "parked", "stirred"}

GoroutinePlaces == {"none", "start", "run", "waits", "exited"} \union Receiving \union Waking
OutsiderPlaces == {"none", "holds", "run", "left", "exited"} \union Waking
\* The controller is counted while it runs a callback.
Busy == {"callback", "ran"} \union Waking
ControllerPlaces == {"top", "asleep", "signal", "closed", "deadlock"} \union Busy

Outside == {"none", "holds", "left", "exited"}

Placed ==
    /\ pc \in [Actors -> GoroutinePlaces \union OutsiderPlaces \union ControllerPlaces]
    /\ \A g \in Gs : pc[g] \in GoroutinePlaces
    /\ pc[Outsider] \in OutsiderPlaces /\ pc[Ctl] \in ControllerPlaces

BoxTypes ==
    /\ queued \in [Gs -> BOOLEAN] /\ got \in [Gs -> BOOLEAN]
    /\ mutex \in [Gs -> Actors \union {None}] /\ lock \in [Gs -> Actors \union {None}]
    /\ target \in [Actors -> Gs \union {None}]

FlagTypes == blocked \in [Members -> BOOLEAN] /\ ready \in [Gs -> BOOLEAN] /\ waiter \in Gs \union {None}

Types == Placed /\ BoxTypes /\ FlagTypes

\* An actor with a receiver in hand has its mailbox, and from finish on its signal;
\* the receiver cannot leave its park before that is over.
Wakes ==
    \A a \in Actors : pc[a] \in Waking =>
        /\ target[a] \in Gs /\ mutex[target[a]] = a
        /\ pc[target[a]] \in Receiving /\ ~queued[target[a]]
        /\ pc[a] = "finish" => ~got[target[a]]
        /\ pc[a] # "finish" => got[target[a]] /\ lock[target[a]] = a /\ pc[target[a]] = "parked"

\* A receiver is queued, in somebody's hand or done, and holds the lock of its
\* signal unless it is parked; nobody else is in a queue.
Receivers ==
    \A h \in Gs :
        /\ mutex[h] # None => pc[mutex[h]] \in Waking /\ target[mutex[h]] = h
        /\ pc[h] \in Receiving => queued[h] \/ got[h] \/ mutex[h] # None
        /\ pc[h] \notin Receiving => ~queued[h] /\ ~got[h]
        /\ pc[h] \in {"block", "stirred"} => lock[h] = h /\ ~got[h]
        /\ queued[h] => ~got[h]

\* bubbleBlocked says exactly who is durably blocked.
BlockedExact ==
    /\ ~blocked[Outsider]
    /\ \A g \in Gs : blocked[g] <=>
         \/ /\ pc[g] \in {"parked", "stirred"}
            /\ queued[g] \/ (mutex[g] # None /\ pc[mutex[g]] \in {"finish", "wake"})
         \/ pc[g] = "waits" /\ waiter = g

\* One goroutine at a time is in Wait; the controller lets it go once.
Waits ==
    /\ \A g \in Gs : pc[g] = "waits" =>
         /\ waiting /\ \A h \in Gs : pc[h] = "waits" => h = g
         /\ waiter = g => ~ready[g]
    /\ \A g \in Gs : ready[g] => pc[g] = "waits" /\ pc[Ctl] # "signal"
    /\ waiter # None => pc[waiter] = "waits"
    /\ pc[Ctl] = "signal" => target[Ctl] \in Gs /\ pc[target[Ctl]] = "waits" /\ waiter = None
    /\ pc[Ctl] = "callback" => target[Ctl] \in Gs

MailInv == Types /\ Wakes /\ Receivers /\ BlockedExact /\ Waits

-----------------------------------------------------------------------------
\* Who is who.
LEMMA Sets ==
    /\ Gs \subseteq Members /\ Members \subseteq Actors /\ None \notin Actors
    /\ Outsider \in Members \ Gs /\ Ctl \in Actors \ Members /\ Main \in Gs
    /\ \A m \in Members : m \in Gs \/ m = Outsider
    /\ \A a \in Actors : a \in Members \/ a = Ctl
  BY SynctestAssumption, Zenon DEF Members, Actors

\* Places that say nothing of a mailbox.
Plain == {"none", "start", "run", "exited", "holds", "left", "top", "asleep", "callback", "ran",
          "signal", "closed", "deadlock"}

\* Steps between plain places keep what is known of the mailboxes.
LEMMA MailKept ==
    ASSUME Placed, Wakes, Receivers, BlockedExact,
           queued' = queued, mutex' = mutex, lock' = lock, got' = got, blocked' = blocked, waiter' = waiter,
           BoxTypes,
           \A b \in Actors : \/ pc'[b] = pc[b] /\ target'[b] = target[b]
                             \/ pc[b] \in Plain /\ pc'[b] \in Plain
    PROVE  Wakes' /\ Receivers' /\ BlockedExact'
<1> USE Sets DEF BoxTypes
<1>1. Wakes'
  BY DEF Wakes, Waking, Receiving, Plain
<1>2. Receivers'
  BY DEF Receivers, Waking, Receiving, Plain
<1>3. BlockedExact'
  BY DEF BlockedExact, Plain
<1> QED
  BY <1>1, <1>2, <1>3, Zenon

\* Actor a goes on to l; at most the controller's sleep ends with it.
Moved(a, l) ==
    /\ pc' \in [Actors -> GoroutinePlaces \union OutsiderPlaces \union ControllerPlaces]
    /\ pc'[a] = l
    /\ \A b \in Actors \ {a} : \/ pc'[b] = pc[b]
                               \/ b = Ctl /\ pc[b] = "asleep" /\ pc'[b] = "top"

LEMMA GotoMoved ==
    ASSUME Placed, NEW a \in Actors, NEW l,
           Goto(a, l) \/ (a # Ctl /\ StepAndNotify(a, l)),
           \/ a \in Gs /\ l \in GoroutinePlaces
           \/ a = Outsider /\ l \in OutsiderPlaces
           \/ a = Ctl /\ l \in ControllerPlaces
    PROVE  Moved(a, l) /\ Placed'
<1> USE Sets DEF Placed, Moved
<1>1. CASE Goto(a, l)
  BY <1>1, Zenon DEF Goto
<1>2. CASE a # Ctl /\ StepAndNotify(a, l)
  BY <1>2, Zenon DEF StepAndNotify, ControllerPlaces
<1> QED
  BY <1>1, <1>2, Zenon

\* What the invariant says of a goroutine that runs.
LEMMA Running ==
    ASSUME MailInv, NEW g \in Members, pc[g] \in {"run", "start"}
    PROVE  ~blocked[g] /\ waiter # g /\ (g \in Gs => ~queued[g] /\ ~got[g] /\ mutex[g] = None)
<1> USE Sets
<1>1. ~blocked[g]
  BY Zenon DEF MailInv, BlockedExact
<1>2. g \in Gs => ~queued[g] /\ ~got[g] /\ mutex[g] = None
  BY DEF MailInv, Receivers, Wakes, Types, BoxTypes, Receiving
<1>3. waiter # g
  BY DEF MailInv, Waits, Types, FlagTypes
<1> QED
  BY <1>1, <1>2, <1>3, Zenon

\* Places that say nothing of Wait either.
Calm == Plain \ {"signal"}

\* A step between calm places that leaves the mailboxes and Wait alone.
LEMMA CalmStep ==
    ASSUME MailInv, Placed', target' \in [Actors -> Gs \union {None}],
           UNCHANGED <<queued, mutex, lock, got, blocked, waiter, ready, waiting>>,
           \A b \in Actors : \/ pc'[b] = pc[b] /\ target'[b] = target[b]
                             \/ pc[b] \in Calm /\ pc'[b] \in Calm,
           pc'[Ctl] = "callback" => target'[Ctl] \in Gs
    PROVE  MailInv'
<1> USE Sets DEF MailInv, Types
<1>1. BoxTypes' /\ FlagTypes'
  BY Zenon DEF BoxTypes, FlagTypes
<1>2. Wakes' /\ Receivers' /\ BlockedExact'
  BY MailKept, Zenon DEF Calm
<1>3. Waits'
  BY DEF Waits, Calm, Plain, FlagTypes
<1> QED
  BY <1>1, <1>2, <1>3, Zenon

\* Actor a moves between calm places, and nothing else changes.
LEMMA CalmMove ==
    ASSUME MailInv, NEW a \in Actors, NEW l \in Calm \ {"callback"}, pc[a] \in Calm,
           Goto(a, l) \/ (a # Ctl /\ StepAndNotify(a, l)),
           \/ a \in Gs /\ l \in GoroutinePlaces
           \/ a = Outsider /\ l \in OutsiderPlaces
           \/ a = Ctl /\ l \in ControllerPlaces,
           UNCHANGED <<queued, mutex, lock, got, target, blocked, waiter, ready, waiting>>
    PROVE  MailInv'
<1> USE Sets
<1>1. Placed /\ target \in [Actors -> Gs \union {None}] /\ (pc[Ctl] = "callback" => target[Ctl] \in Gs)
  BY Zenon DEF MailInv, Types, BoxTypes, Waits
<1>2. Moved(a, l) /\ Placed'
  BY <1>1, GotoMoved, Zenon
<1>3. \A b \in Actors : pc'[b] = pc[b] \/ (pc[b] \in Calm /\ pc'[b] \in Calm)
  BY <1>2, Zenon DEF Moved, Calm, Plain
<1>4. pc'[Ctl] = "callback" => target'[Ctl] \in Gs
  BY <1>1, <1>2, Zenon DEF Moved
<1> QED
  BY <1>1, <1>2, <1>3, <1>4, CalmStep, Zenon

\* Nobody moves.
LEMMA CalmStay ==
    ASSUME MailInv, UNCHANGED <<queued, mutex, lock, got, target, blocked, waiter, ready, waiting, pc>>
    PROVE  MailInv'
  BY DEF MailInv, Types, Placed, BoxTypes, FlagTypes, Wakes, Receivers, BlockedExact, Waits

\* Goroutines start, spawn others, leave; they set and stop timers.
LEMMA MemberCalm ==
    ASSUME MailInv, NEW g \in Members,
           \/ g = Main /\ RootStarts
           \/ leaveSynctest(g)
           \/ SynctestAcquire(g)
           \/ \E c \in Gs : inheritSynctest(g, c) \/ SynctestTimerStop(g, c)
           \/ \E d \in Delays, p \in Periods : SetTimer(g, d, p)
    PROVE  MailInv'
<1> USE Sets DEF boxes
<1>1. CASE RootStarts
  BY <1>1, CalmMove, Zenon DEF RootStarts, Calm, Plain, GoroutinePlaces
<1>2. CASE leaveSynctest(g)
  <2>1. ~blocked[g] /\ pc[g] = "run"
    BY <1>2, Running, Zenon DEF leaveSynctest
  <2>2. blocked' = blocked
    BY <1>2, <2>1, Zenon DEF leaveSynctest, FlagTypes, MailInv, Types
  <2>3. PICK l \in {"left", "exited"} : StepAndNotify(g, l) /\ (l = "left" <=> g = Outsider)
    BY <1>2, Zenon DEF leaveSynctest
  <2> QED
    BY <1>2, <2>1, <2>2, <2>3, CalmMove, Zenon DEF leaveSynctest, Calm, Plain, GoroutinePlaces, OutsiderPlaces
<1>3. CASE SynctestAcquire(g)
  BY <1>3, CalmMove, Zenon DEF SynctestAcquire, Calm, Plain, OutsiderPlaces
<1>4. ASSUME NEW c \in Gs, inheritSynctest(g, c)
      PROVE  MailInv'
  BY <1>4, CalmMove, Zenon DEF inheritSynctest, Calm, Plain, GoroutinePlaces
<1>5. CASE (\E c \in Gs : SynctestTimerStop(g, c)) \/ \E d \in Delays, p \in Periods : SetTimer(g, d, p)
  BY <1>5, CalmStay, Zenon DEF SynctestTimerStop, SetTimer
<1> QED
  BY <1>1, <1>2, <1>3, <1>4, <1>5, Zenon

\* The outsider enters and releases its reference.
LEMMA OutsiderCalm ==
    ASSUME MailInv, SynctestInBubble \/ SynctestRelease
    PROVE  MailInv'
<1> USE Sets DEF boxes
<1>1. /\ UNCHANGED <<waiting, waiter, blocked, ready, boxes>>
      /\ pc[Outsider] \in {"holds", "left"}
  BY Zenon DEF SynctestInBubble, SynctestRelease
<1>2. CASE pc' = pc
  BY <1>1, <1>2, CalmStay, Zenon
<1>3. CASE pc' # pc
  <2>1. PICK l \in {"run", "exited"} : Goto(Outsider, l) \/ StepAndNotify(Outsider, l)
    BY <1>3, Zenon DEF SynctestInBubble, SynctestRelease
  <2> QED
    BY <1>1, <2>1, CalmMove, Zenon DEF Calm, Plain, OutsiderPlaces
<1> QED
  BY <1>2, <1>3, Zenon

\* The controller sleeps, fires a timer, ends a callback, and gives its verdict.
LEMMA ControllerCalm ==
    ASSUME MailInv,
           \/ ControllerParks \/ SpuriousWake \/ ControllerCloses \/ ControllerPanics \/ CallbackEnds
           \/ \E g \in Gs : ControllerFires(g) \/ CallbackSpawns(g)
    PROVE  MailInv'
<1> USE Sets DEF boxes
<1>0. Placed /\ target \in [Actors -> Gs \union {None}]
  BY Zenon DEF MailInv, Types, BoxTypes
<1>1. CASE ControllerParks \/ SpuriousWake \/ ControllerCloses \/ ControllerPanics
  <2>1. PICK l \in {"asleep", "top", "closed", "deadlock"} : Goto(Ctl, l)
    BY <1>1, Zenon DEF ControllerParks, SpuriousWake, ControllerCloses, ControllerPanics
  <2>2. /\ pc[Ctl] \in {"top", "asleep"}
        /\ UNCHANGED <<waiting, waiter, blocked, ready, boxes>>
    BY <1>1, Zenon DEF ControllerParks, SpuriousWake, ControllerCloses, ControllerPanics
  <2> QED
    BY <2>1, <2>2, CalmMove, Zenon DEF Calm, Plain, ControllerPlaces
<1>2. CASE CallbackEnds
  <2>1. pc' = [pc EXCEPT ![Ctl] = "top"] /\ pc[Ctl] = "ran"
    BY <1>0, <1>2 DEF Placed, CallbackEnds, StepAndNotify
  <2>2. Moved(Ctl, "top") /\ Placed'
    BY <1>0, <2>1, GotoMoved, Zenon DEF Goto, ControllerPlaces
  <2> QED
    BY <1>0, <1>2, <2>1, <2>2, CalmStep, Zenon DEF CallbackEnds, Moved, Calm, Plain
<1>3. ASSUME NEW g \in Gs, ControllerFires(g)
      PROVE  MailInv'
  <2>1. /\ pc[Ctl] = "top" /\ Goto(Ctl, "callback") /\ target' = [target EXCEPT ![Ctl] = g]
        /\ UNCHANGED <<waiting, waiter, blocked, ready, queued, mutex, lock, got>>
    BY <1>3, Zenon DEF ControllerFires
  <2>2. Moved(Ctl, "callback") /\ Placed'
    BY <1>0, <2>1, GotoMoved, Zenon DEF ControllerPlaces, Busy
  <2> QED
    BY <1>0, <2>1, <2>2, CalmStep, Zenon DEF Moved, Calm, Plain
<1>4. ASSUME NEW g \in Gs, CallbackSpawns(g)
      PROVE  MailInv'
  <2>1. /\ pc' = [pc EXCEPT ![Ctl] = "ran", ![g] = "run"] /\ pc[Ctl] = "callback" /\ pc[g] = "none"
        /\ UNCHANGED <<waiting, waiter, blocked, ready, boxes>>
    BY <1>4, Zenon DEF CallbackSpawns
  <2>2. Placed'
    BY <1>0, <2>1, Zenon DEF Placed, ControllerPlaces, Busy, GoroutinePlaces
  <2> QED
    BY <1>0, <2>1, <2>2, CalmStep, Zenon DEF Placed, Calm, Plain
<1> QED
  BY <1>1, <1>2, <1>3, <1>4, Zenon

-----------------------------------------------------------------------------
\* A receive takes a value, or queues a waiter.
LEMMA RecvMail ==
    ASSUME MailInv, NEW g \in Gs, Recv(g)
    PROVE  MailInv'
<1> USE Sets
<1>1. /\ pc[g] = "run" /\ mutex[g] = None
      /\ UNCHANGED <<waiting, waiter, blocked, ready, mutex, got, target>>
  BY Zenon DEF Recv, Begin
<1>2. ~blocked[g] /\ ~queued[g] /\ ~got[g]
  BY <1>1, Running, Zenon
<1>3. CASE box[g]
  BY <1>1, <1>3, CalmStay, Zenon DEF Recv
<1>4. CASE ~box[g]
  <2>1. /\ queued' = [queued EXCEPT ![g] = TRUE] /\ lock' = [lock EXCEPT ![g] = g] /\ Goto(g, "block")
    BY <1>4, Zenon DEF Recv
  <2>2. Moved(g, "block") /\ Placed'
    BY <2>1, GotoMoved, Zenon DEF MailInv, Types, GoroutinePlaces, Receiving
  <2>3. Types'
    BY <1>1, <2>1, <2>2, Zenon DEF MailInv, Types, BoxTypes, FlagTypes
  <2>4. Wakes'
    BY <1>1, <1>2, <2>1, <2>2 DEF MailInv, Types, BoxTypes, Wakes, Moved, Waking, Receiving
  <2>5. Receivers'
    BY <1>1, <1>2, <2>1, <2>2 DEF MailInv, Types, BoxTypes, Receivers, Moved, Waking, Receiving
  <2>6. BlockedExact'
    BY <1>1, <1>2, <2>1, <2>2 DEF MailInv, Types, BoxTypes, BlockedExact, Moved
  <2>7. Waits'
    BY <1>1, <2>2 DEF Moved, MailInv, Types, FlagTypes, Waits
  <2> QED
    BY <2>3, <2>4, <2>5, <2>6, <2>7, Zenon DEF MailInv
<1> QED
  BY <1>3, <1>4, Zenon

\* A receiver that blocks or stirs is queued or in the hand of one that has not
\* finished; it was counted as blocked unless it blocks for the first time.
LEMMA ParkFacts ==
    ASSUME MailInv, NEW g \in Gs, Block(g) \/ Stirs(g)
    PROVE  /\ ~got[g] /\ (queued[g] \/ (mutex[g] # None /\ pc[mutex[g]] = "finish"))
           /\ blocked[g] <=> pc[g] # "block"
           /\ blocked' = [blocked EXCEPT ![g] = TRUE]
<1> USE Sets
<1>1. \/ pc[g] \in {"block", "stirred"}
      \/ pc[g] = "parked" /\ ~got[g] /\ lock[g] = None
  BY Zenon DEF Block, Stirs
<1>2. ~got[g] /\ (queued[g] \/ (mutex[g] # None /\ pc[mutex[g]] = "finish"))
  BY <1>1 DEF MailInv, Types, BoxTypes, Receivers, Wakes, Receiving, Waking
<1>3. blocked[g] <=> pc[g] # "block"
  BY <1>1, <1>2, Zenon DEF MailInv, BlockedExact
<1>4. blocked[g] => [blocked EXCEPT ![g] = TRUE] = blocked
  BY Zenon DEF MailInv, Types, FlagTypes
<1>5. blocked' = [blocked EXCEPT ![g] = TRUE]
  BY <1>1, <1>3, <1>4, Zenon DEF Block, Stirs
<1> QED
  BY <1>2, <1>3, <1>5, Zenon

\* A receiver is marked as blocked when it parks; one that stirs stays marked.
LEMMA ParkMail ==
    ASSUME MailInv, NEW g \in Gs, Block(g) \/ Stirs(g)
    PROVE  MailInv'
<1> USE Sets
<1>1. PICK l \in {"parked", "stirred"}, o \in {None, g} :
        /\ Goto(g, l) \/ StepAndNotify(g, l)
        /\ lock' = [lock EXCEPT ![g] = o]
        /\ \/ l = "parked" /\ pc[g] \in {"block", "stirred"} /\ o = None
           \/ l = "stirred" /\ pc[g] = "parked" /\ o = g /\ lock[g] = None
        /\ UNCHANGED <<waiting, waiter, ready, queued, mutex, got, target>>
  BY Zenon DEF Block, Stirs
<1>2. Moved(g, l) /\ Placed'
  BY <1>1, GotoMoved, Zenon DEF MailInv, Types, GoroutinePlaces, Receiving
<1>3. /\ ~got[g] /\ (queued[g] \/ (mutex[g] # None /\ pc[mutex[g]] = "finish"))
      /\ blocked' = [blocked EXCEPT ![g] = TRUE]
  BY ParkFacts, Zenon
<1>4. Types'
  BY <1>1, <1>2, <1>3, Zenon DEF MailInv, Types, BoxTypes, FlagTypes
<1>5. Wakes'
  BY <1>1, <1>2, <1>3 DEF MailInv, Types, BoxTypes, Wakes, Moved, Waking, Receiving
<1>6. Receivers'
  BY <1>1, <1>2, <1>3 DEF MailInv, Types, BoxTypes, Receivers, Moved, Waking, Receiving
<1>7. BlockedExact'
  BY <1>1, <1>2, <1>3 DEF MailInv, Types, BoxTypes, FlagTypes, BlockedExact, Receivers, Moved, Waking
<1>8. Waits'
  BY <1>1, <1>2 DEF Moved, MailInv, Types, FlagTypes, Waits
<1> QED
  BY <1>4, <1>5, <1>6, <1>7, <1>8, Zenon DEF MailInv

\* A receiver that sees its status done is nobody's any more.
LEMMA ReturnMail ==
    ASSUME MailInv, NEW g \in Gs, RecvReturns(g)
    PROVE  MailInv' /\ ~queued[g] /\ ~blocked[g]
<1> USE Sets
<1>1. /\ pc[g] = "parked" /\ lock[g] = None /\ got[g] /\ Goto(g, "run")
      /\ got' = [got EXCEPT ![g] = FALSE]
      /\ UNCHANGED <<waiting, waiter, blocked, ready, queued, mutex, lock, target>>
  BY Zenon DEF RecvReturns
<1>2. Moved(g, "run") /\ Placed'
  BY <1>1, GotoMoved, Zenon DEF MailInv, Types, GoroutinePlaces
<1>3. ~queued[g] /\ mutex[g] = None
  BY <1>1 DEF MailInv, Types, BoxTypes, Receivers, Wakes
<1>4. ~blocked[g]
  BY <1>1, <1>3, Zenon DEF MailInv, BlockedExact
<1>5. Types'
  BY <1>1, <1>2, Zenon DEF MailInv, Types, BoxTypes, FlagTypes
<1>6. Wakes'
  BY <1>1, <1>2, <1>3 DEF MailInv, Types, BoxTypes, Wakes, Moved, Waking, Receiving
<1>7. Receivers'
  BY <1>1, <1>2, <1>3 DEF MailInv, Types, BoxTypes, Receivers, Moved, Waking, Receiving
<1>8. BlockedExact'
  BY <1>1, <1>2, <1>3, <1>4 DEF MailInv, Types, BoxTypes, BlockedExact, Moved
<1>9. Waits'
  BY <1>1, <1>2 DEF Moved, MailInv, Types, FlagTypes, Waits
<1> QED
  BY <1>3, <1>4, <1>5, <1>6, <1>7, <1>8, <1>9, Zenon DEF MailInv

\* An actor that runs, or a callback, fills the mailbox or takes the receiver.
LEMMA SendMail ==
    ASSUME MailInv, NEW a \in Actors, NEW h \in Gs, NEW l, SendTo(a, h, l),
           (a \in Members \ {h} /\ pc[a] = "run" /\ l = "run") \/ (a = Ctl /\ pc[a] = "callback" /\ l = "ran"),
           UNCHANGED <<waiting, waiter, blocked, ready>>
    PROVE  MailInv' /\ \E p \in {l, "finish"} : Goto(a, p) /\ Moved(a, p)
<1> USE Sets
<1>0. Placed
  BY Zenon DEF MailInv, Types
<1>1. CASE queued[h]
  <2>1. /\ queued' = [queued EXCEPT ![h] = FALSE] /\ mutex' = [mutex EXCEPT ![h] = a]
        /\ target' = [target EXCEPT ![a] = h] /\ Goto(a, "finish") /\ UNCHANGED <<lock, got>> /\ mutex[h] = None
        /\ a # h
    BY <1>1, Zenon DEF SendTo
  <2>2. Moved(a, "finish") /\ Placed'
    BY <1>0, <2>1, GotoMoved, Zenon DEF GoroutinePlaces, OutsiderPlaces, ControllerPlaces, Busy, Waking
  <2>3. pc[h] \in Receiving /\ ~got[h]
    BY <1>1, Zenon DEF MailInv, Types, BoxTypes, Receivers
  <2>4. Types'
    BY <2>1, <2>2, Zenon DEF MailInv, Types, BoxTypes, FlagTypes
  <2>5. Wakes'
    BY <2>1, <2>2, <2>3 DEF MailInv, Types, BoxTypes, Wakes, Moved, Waking, Receiving
  <2>6. Receivers'
    BY <2>1, <2>2, <2>3 DEF MailInv, Types, BoxTypes, Receivers, Moved, Waking, Receiving
  <2>7. BlockedExact'
    BY <1>1, <2>1, <2>2, <2>3 DEF MailInv, Types, BoxTypes, BlockedExact, Receivers, Moved, Waking, Receiving
  <2>8. Waits'
    BY <2>1, <2>2 DEF Moved, MailInv, Types, FlagTypes, BoxTypes, Waits
  <2> QED
    BY <2>1, <2>2, <2>4, <2>5, <2>6, <2>7, <2>8, Zenon DEF MailInv
<1>2. CASE ~queued[h]
  <2>1. Goto(a, l) /\ UNCHANGED <<queued, mutex, target, lock, got>>
    BY <1>2, Zenon DEF SendTo
  <2>2. Moved(a, l)
    BY <1>0, <2>1, GotoMoved, Zenon DEF GoroutinePlaces, OutsiderPlaces, ControllerPlaces, Busy
  <2> QED
    BY <2>1, <2>2, CalmMove, Zenon DEF Calm, Plain, GoroutinePlaces, OutsiderPlaces, ControllerPlaces, Busy
<1> QED
  BY <1>1, <1>2, Zenon

\* finish: the lock of the signal comes from a parked receiver.
LEMMA FinishMail ==
    ASSUME MailInv, NEW a \in Actors, Finish(a)
    PROVE  MailInv' /\ Moved(a, "wake")
<1> USE Sets
<1> DEFINE h == target[a]
<1>1. /\ pc[a] = "finish" /\ lock[h] = None /\ Goto(a, "wake")
      /\ lock' = [lock EXCEPT ![h] = a] /\ got' = [got EXCEPT ![h] = TRUE]
      /\ UNCHANGED <<waiting, waiter, blocked, ready, queued, mutex, target>>
  BY Zenon DEF Finish
<1>2. h \in Gs /\ mutex[h] = a /\ ~queued[h] /\ pc[h] \in Receiving /\ ~got[h]
  BY <1>1, Zenon DEF MailInv, Wakes, Waking
<1>3. pc[h] = "parked"
  BY <1>1, <1>2, Zenon DEF MailInv, Receivers, Receiving
<1> HIDE DEF h
<1>4. Moved(a, "wake") /\ Placed'
  BY <1>1, GotoMoved, Zenon DEF MailInv, Types, GoroutinePlaces, OutsiderPlaces, ControllerPlaces, Busy, Waking
<1>5. Types'
  BY <1>1, <1>2, <1>4, Zenon DEF MailInv, Types, BoxTypes, FlagTypes
<1>6. Wakes'
  BY <1>1, <1>2, <1>3, <1>4 DEF MailInv, Types, BoxTypes, Wakes, Moved, Waking, Receiving, h
<1>7. Receivers'
  BY <1>1, <1>2, <1>3, <1>4 DEF MailInv, Types, BoxTypes, Receivers, Moved, Waking, Receiving
<1>8. BlockedExact'
  BY <1>1, <1>2, <1>4 DEF MailInv, Types, BoxTypes, BlockedExact, Receivers, Moved, Waking, Receiving
<1>9. Waits'
  BY <1>1, <1>4 DEF Moved, MailInv, Types, BoxTypes, FlagTypes, Waits
<1> QED
  BY <1>4, <1>5, <1>6, <1>7, <1>8, <1>9, Zenon DEF MailInv

\* The wake is counted while the receiver cannot return: it was counted as blocked.
LEMMA WakeMail ==
    ASSUME MailInv, NEW a \in Actors, Wake(a)
    PROVE  MailInv' /\ Moved(a, "publish") /\ target[a] \in Gs /\ pc[target[a]] = "parked" /\ blocked[target[a]]
<1> USE Sets DEF boxes
<1> DEFINE h == target[a]
<1>1. /\ pc[a] = "wake" /\ Goto(a, "publish") /\ blocked' = [blocked EXCEPT ![h] = FALSE]
      /\ UNCHANGED <<waiting, waiter, ready, queued, mutex, lock, got, target>>
  BY Zenon DEF Wake
<1>2. h \in Gs /\ mutex[h] = a /\ ~queued[h] /\ pc[h] = "parked" /\ got[h] /\ lock[h] = a
  BY <1>1, Zenon DEF MailInv, Wakes, Waking
<1>3. blocked[h]
  BY <1>1, <1>2 DEF MailInv, BlockedExact
<1> HIDE DEF h
<1>4. Moved(a, "publish") /\ Placed'
  BY <1>1, GotoMoved, Zenon DEF MailInv, Types, GoroutinePlaces, OutsiderPlaces, ControllerPlaces, Busy, Waking
<1>5. Types'
  BY <1>1, <1>2, <1>4, Zenon DEF MailInv, Types, BoxTypes, FlagTypes
<1>6. Wakes'
  BY <1>1, <1>2, <1>4 DEF MailInv, Types, BoxTypes, Wakes, Moved, Waking, Receiving, h
<1>7. Receivers'
  BY <1>1, <1>2, <1>4 DEF MailInv, Types, BoxTypes, Receivers, Moved, Waking, Receiving
<1>8. BlockedExact'
  BY <1>1, <1>2, <1>4 DEF MailInv, Types, BoxTypes, FlagTypes, BlockedExact, Receivers, Moved, Waking
<1>9. Waits'
  BY <1>1, <1>4 DEF Moved, MailInv, Types, BoxTypes, FlagTypes, Waits
<1> QED
  BY <1>2, <1>3, <1>4, <1>5, <1>6, <1>7, <1>8, <1>9, Zenon DEF MailInv, h

\* The receiver is let go.
LEMMA PublishMail ==
    ASSUME MailInv, NEW a \in Actors, Publish(a)
    PROVE  MailInv' /\ Moved(a, AfterWake(a))
<1> USE Sets
<1> DEFINE h == target[a]
           l == AfterWake(a)
<1>1. /\ pc[a] = "publish" /\ Goto(a, l)
      /\ lock' = [lock EXCEPT ![h] = None] /\ mutex' = [mutex EXCEPT ![h] = None]
      /\ target' = [target EXCEPT ![a] = None]
      /\ UNCHANGED <<waiting, waiter, blocked, ready, queued, got>>
  BY Zenon DEF Publish
<1>2. h \in Gs /\ mutex[h] = a /\ ~queued[h] /\ pc[h] = "parked" /\ got[h] /\ lock[h] = a
  BY <1>1, Zenon DEF MailInv, Wakes, Waking
<1>3. (a = Ctl /\ l = "ran") \/ (a # Ctl /\ l = "run")
  BY Zenon DEF AfterWake
<1> HIDE DEF h, l
<1>4. Moved(a, l) /\ Placed'
  BY <1>1, <1>3, GotoMoved, Zenon DEF MailInv, Types, GoroutinePlaces, OutsiderPlaces, ControllerPlaces, Busy
<1>5. Types'
  BY <1>1, <1>2, <1>4, Zenon DEF MailInv, Types, BoxTypes, FlagTypes
<1>6. Wakes'
  BY <1>1, <1>2, <1>3, <1>4 DEF MailInv, Types, BoxTypes, Wakes, Moved, Waking, Receiving
<1>7. Receivers'
  BY <1>1, <1>2, <1>3, <1>4 DEF MailInv, Types, BoxTypes, Receivers, Moved, Waking, Receiving
<1>8. BlockedExact'
  BY <1>1, <1>2, <1>3, <1>4 DEF MailInv, Types, BoxTypes, BlockedExact, Receivers, Moved, Waking
<1>9. Waits'
  BY <1>1, <1>3, <1>4 DEF Moved, MailInv, Types, BoxTypes, FlagTypes, Waits
<1> QED
  BY <1>4, <1>5, <1>6, <1>7, <1>8, <1>9, Zenon DEF MailInv, l

-----------------------------------------------------------------------------
\* Wait begins, or panics because another goroutine waits.
LEMMA WaitMail ==
    ASSUME MailInv, NEW g \in Gs, SynctestWait(g)
    PROVE  MailInv'
<1> USE Sets DEF boxes
<1>1. /\ pc[g] = "run"
      /\ UNCHANGED <<ready, queued, mutex, lock, got, target>>
  BY Zenon DEF SynctestWait, Begin
<1>2. ~blocked[g] /\ mutex[g] = None /\ ~queued[g] /\ ~got[g]
  BY <1>1, Running, Zenon
<1>3. CASE waiting
  BY <1>1, <1>3, CalmStay, Zenon DEF SynctestWait
<1>4. CASE ~waiting
  <2>1. /\ waiting' = TRUE /\ waiter' = g /\ blocked' = [blocked EXCEPT ![g] = TRUE]
        /\ StepAndNotify(g, "waits")
    BY <1>4, Zenon DEF SynctestWait
  <2>2. Moved(g, "waits") /\ Placed'
    BY <2>1, GotoMoved, Zenon DEF MailInv, Types, GoroutinePlaces
  <2>3. waiter = None /\ \A h \in Gs : pc[h] # "waits"
    BY <1>4, Zenon DEF MailInv, Types, FlagTypes, Waits
  <2>4. Types'
    BY <1>1, <2>1, <2>2, Zenon DEF MailInv, Types, BoxTypes, FlagTypes
  <2>5. Wakes'
    BY <1>1, <1>2, <2>1, <2>2 DEF MailInv, Types, BoxTypes, Wakes, Moved, Waking, Receiving
  <2>6. Receivers'
    BY <1>1, <1>2, <2>1, <2>2 DEF MailInv, Types, BoxTypes, Receivers, Moved, Waking, Receiving
  <2>7. BlockedExact'
    BY <1>1, <1>2, <2>1, <2>2, <2>3 DEF MailInv, Types, BoxTypes, FlagTypes, BlockedExact, Receivers, Moved
  <2>8. Waits'
    BY <1>1, <2>1, <2>2, <2>3 DEF Moved, MailInv, Types, BoxTypes, FlagTypes, Waits
  <2> QED
    BY <2>4, <2>5, <2>6, <2>7, <2>8, Zenon DEF MailInv
<1> QED
  BY <1>3, <1>4, Zenon

\* The goroutine that was let go returns, and nobody else had been let go.
LEMMA WaitReturnMail ==
    ASSUME MailInv, NEW g \in Gs, WaitReturns(g)
    PROVE  /\ MailInv' /\ Moved(g, "run")
           /\ waiter = None /\ pc[Ctl] # "signal" /\ \A h \in Gs : pc'[h] # "waits"
<1> USE Sets DEF boxes
<1>1. /\ pc[g] = "waits" /\ ready[g] /\ Goto(g, "run")
      /\ ready' = [ready EXCEPT ![g] = FALSE]
      /\ UNCHANGED <<waiter, blocked, queued, mutex, lock, got, target>>
  BY Zenon DEF WaitReturns
<1>2. waiter = None /\ pc[Ctl] # "signal" /\ \A h \in Gs : pc[h] = "waits" => h = g
  BY <1>1, Zenon DEF MailInv, Types, FlagTypes, Waits
<1>3. ~queued[g] /\ ~got[g] /\ mutex[g] = None
  BY <1>1 DEF MailInv, Types, BoxTypes, Receivers, Wakes, Receiving
<1>4. Moved(g, "run") /\ Placed'
  BY <1>1, GotoMoved, Zenon DEF MailInv, Types, GoroutinePlaces
<1>5. Types'
  BY <1>1, <1>4, Zenon DEF MailInv, Types, BoxTypes, FlagTypes
<1>6. Wakes'
  BY <1>1, <1>3, <1>4 DEF MailInv, Types, BoxTypes, Wakes, Moved, Waking, Receiving
<1>7. Receivers'
  BY <1>1, <1>3, <1>4 DEF MailInv, Types, BoxTypes, Receivers, Moved, Waking, Receiving
<1>8. BlockedExact'
  BY <1>1, <1>2, <1>3, <1>4 DEF MailInv, Types, BoxTypes, BlockedExact, Receivers, Moved
<1>9. \A h \in Gs : pc'[h] # "waits"
  BY <1>2, <1>4, Zenon DEF Moved
<1>10. Waits'
  BY <1>1, <1>2, <1>4, <1>9 DEF Moved, MailInv, Types, BoxTypes, FlagTypes, Waits
<1> QED
  BY <1>2, <1>4, <1>5, <1>6, <1>7, <1>8, <1>9, <1>10, Zenon DEF MailInv

\* The controller lets the goroutine in Wait go: it was counted as blocked.
LEMMA ReleaseMail ==
    ASSUME MailInv, ControllerReleases
    PROVE  /\ MailInv' /\ Moved(Ctl, "signal") /\ waiter \in Gs /\ pc[waiter] = "waits" /\ blocked[waiter]
           /\ \A h \in Gs : pc[h] = "waits" => h = waiter
<1> USE Sets
<1> DEFINE w == waiter
<1>1. /\ pc[Ctl] = "top" /\ w # None /\ Goto(Ctl, "signal")
      /\ blocked' = [blocked EXCEPT ![w] = FALSE]
      /\ waiter' = None /\ target' = [target EXCEPT ![Ctl] = w]
      /\ UNCHANGED <<waiting, ready, queued, mutex, lock, got>>
  BY Zenon DEF ControllerReleases
<1>2. w \in Gs /\ pc[w] = "waits" /\ blocked[w] /\ ~ready[w] /\ \A h \in Gs : pc[h] = "waits" => h = w
  BY <1>1, Zenon DEF MailInv, Types, FlagTypes, Waits, BlockedExact
<1> HIDE DEF w
<1>3. Moved(Ctl, "signal") /\ Placed'
  BY <1>1, GotoMoved, Zenon DEF MailInv, Types, ControllerPlaces
<1>4. Types'
  BY <1>1, <1>2, <1>3, Zenon DEF MailInv, Types, BoxTypes, FlagTypes
<1>5. Wakes'
  BY <1>1, <1>3 DEF MailInv, Types, BoxTypes, Wakes, Moved, Waking
<1>6. Receivers'
  BY <1>1, <1>3 DEF MailInv, Types, BoxTypes, Receivers, Wakes, Moved, Waking
<1>7. BlockedExact'
  BY <1>1, <1>2, <1>3 DEF MailInv, Types, BoxTypes, FlagTypes, BlockedExact, Receivers, Moved, Waking, w
<1>8. Waits'
  BY <1>1, <1>2, <1>3 DEF Moved, MailInv, Types, BoxTypes, FlagTypes, Waits
<1> QED
  BY <1>2, <1>3, <1>4, <1>5, <1>6, <1>7, <1>8, Zenon DEF MailInv, w

\* ready is set only for the goroutine that was let go.
LEMMA SignalMail ==
    ASSUME MailInv, ControllerSignals
    PROVE  MailInv' /\ Moved(Ctl, "top")
<1> USE Sets
<1>1. /\ pc[Ctl] = "signal" /\ Goto(Ctl, "top")
      /\ ready' = [ready EXCEPT ![target[Ctl]] = TRUE] /\ target' = [target EXCEPT ![Ctl] = None]
      /\ UNCHANGED <<waiting, waiter, blocked, queued, mutex, lock, got>>
  BY Zenon DEF ControllerSignals
<1>2. target[Ctl] \in Gs /\ pc[target[Ctl]] = "waits" /\ waiter = None
  BY <1>1, Zenon DEF MailInv, Waits
<1>3. Moved(Ctl, "top") /\ Placed'
  BY <1>1, GotoMoved, Zenon DEF MailInv, Types, ControllerPlaces
<1>4. Types'
  BY <1>1, <1>2, <1>3, Zenon DEF MailInv, Types, BoxTypes, FlagTypes
<1>5. Wakes' /\ Receivers' /\ BlockedExact'
  BY <1>1, <1>3, MailKept, Zenon DEF Moved, Plain, MailInv, Types, BoxTypes
<1>6. Waits'
  BY <1>1, <1>2, <1>3 DEF Moved, MailInv, Types, BoxTypes, FlagTypes, Waits
<1> QED
  BY <1>3, <1>4, <1>5, <1>6, Zenon DEF MailInv

-----------------------------------------------------------------------------
LEMMA InitMail == Init => MailInv
<1> SUFFICES ASSUME Init
             PROVE  MailInv
  OBVIOUS
<1> USE Sets DEF Init
<1>1. /\ \A a \in Actors : pc[a] = (IF a = Main THEN "start" ELSE IF a = Ctl THEN "top" ELSE "none")
      /\ pc \in [Actors -> {"start", "top", "none"}]
  OBVIOUS
<1>2. Types
  BY <1>1, Zenon DEF Types, Placed, BoxTypes, FlagTypes, GoroutinePlaces, OutsiderPlaces, ControllerPlaces
<1>3. Wakes /\ Receivers /\ BlockedExact
  BY <1>1, Zenon DEF Wakes, Receivers, BlockedExact, Waking, Receiving
<1>4. Waits
  BY <1>1, Zenon DEF Waits
<1> QED
  BY <1>2, <1>3, <1>4, Zenon DEF MailInv

\* Every step of the bubble preserves the invariant of the mailboxes.
LEMMA NextMail ==
    ASSUME MailInv, [Next]_vars
    PROVE  MailInv'
<1> USE Sets
<1>1. CASE UNCHANGED vars
  BY <1>1, CalmStay, Zenon DEF vars, boxes
<1>2. ASSUME NEW g \in Members, NEW h \in Gs, Send(g, h)
      PROVE  MailInv'
  <2>1. pc[g] = "run" /\ g # h /\ SendTo(g, h, "run") /\ UNCHANGED <<waiting, waiter, blocked, ready>>
    BY <1>2, Zenon DEF Send, Begin
  <2> QED
    BY <2>1, SendMail, Zenon
<1>3. CASE Callback
  <2>1. target[Ctl] \in Gs
    BY <1>3, Zenon DEF Callback, MailInv, Waits
  <2> QED
    BY <1>3, <2>1, SendMail, Zenon DEF Callback
<1>4. CASE Controller \/ SpuriousWake
  BY <1>3, <1>4, ControllerCalm, FinishMail, WakeMail, PublishMail, ReleaseMail, SignalMail, Zenon DEF Controller
<1>5. CASE FromOutside
  BY <1>2, <1>5, OutsiderCalm, MemberCalm, FinishMail, WakeMail, PublishMail, Zenon DEF FromOutside
<1>6. ASSUME NEW g \in Gs, Goroutine(g) \/ Stirs(g)
      PROVE  MailInv'
  <2>1. CASE \/ (g = Main /\ RootStarts) \/ leaveSynctest(g) \/ SynctestAcquire(g)
             \/ \E c \in Gs : inheritSynctest(g, c) \/ SynctestTimerStop(g, c)
             \/ \E d \in Delays, p \in Periods : SetTimer(g, d, p)
    BY <2>1, MemberCalm, Zenon
  <2>2. CASE Recv(g) \/ Block(g) \/ Stirs(g) \/ RecvReturns(g) \/ SynctestWait(g) \/ WaitReturns(g)
    BY <2>2, RecvMail, ParkMail, ReturnMail, WaitMail, WaitReturnMail, Zenon
  <2>3. CASE Finish(g) \/ Wake(g) \/ Publish(g) \/ \E h \in Gs : Send(g, h)
    BY <1>2, <2>3, FinishMail, WakeMail, PublishMail, Zenon
  <2> QED
    BY <1>6, <2>1, <2>2, <2>3, Zenon DEF Goroutine
<1> QED
  BY <1>1, <1>4, <1>5, <1>6, Zenon DEF Next

\* A receiver's wake is in one hand, and bubbleBlocked says exactly who is durably
\* blocked: parked in a receive whose wake has not been counted, or in Wait and not
\* yet let go (SynctestWaiter.Block and Wake, SynctestWait, the controller).
THEOREM MailboxInvariant == Spec => []MailInv
<1>1. Init => MailInv
  BY InitMail, Zenon
<1>2. MailInv /\ [Next]_vars => MailInv'
  BY NextMail, Zenon
<1> QED
  BY <1>1, <1>2, PTL DEF Spec
=============================================================================
