-------------------------- MODULE NativeSyncProofs --------------------------
(***************************************************************************)
(* For every program and number of goroutines: tickets are served in turn, *)
(* as long as fewer than Half tickets have been given out, and no token of *)
(* the semaphore lies idle.                                                *)
(***************************************************************************)
EXTENDS NativeSync, FiniteSetTheorems, TLAPS

\* Division with remainder, and the uniqueness of the remainder.
LEMMA DivMod ==
    ASSUME NEW x \in Int, NEW m \in Nat \ {0}
    PROVE  x \div m \in Int /\ x % m \in 0 .. m - 1 /\ x = m * (x \div m) + (x % m)
  BY SMT, Zenon

LEMMA ModUnique ==
    ASSUME NEW q \in Int, NEW r \in Int, NEW m \in Nat \ {0}, 0 <= r, r < m
    PROVE  (m * q + r) % m = r
  BY SMT, Zenon

\* A successor can be taken before or after wrapping: notifyListAdd and NotifyOne
\* count on the wrapped word.
LEMMA WrapNext ==
    ASSUME NEW n \in Int
    PROVE  Wrap(Wrap(n) + 1) = Wrap(n + 1) /\ Wrap(n) \in 0 .. Modulus - 1
<1> DEFINE m == Modulus
           q == n \div m
           r == n % m
<1>1. m \in Nat \ {0}
  BY TicketsAssumption DEF Modulus
<1>2. q \in Int /\ r \in 0 .. m - 1 /\ n = m * q + r
  BY <1>1, DivMod, Zenon
<1> HIDE DEF q, r, m
<1>3. CASE r + 1 < m
  <2>1. (m * 0 + (r + 1)) % m = r + 1
    BY <1>1, <1>2, <1>3, ModUnique
  <2>2. (m * q + (r + 1)) % m = r + 1
    BY <1>1, <1>2, <1>3, ModUnique
  <2>3. m * 0 + (r + 1) = r + 1 /\ m * q + (r + 1) = n + 1
    BY <1>1, <1>2
  <2>4. (r + 1) % m = (n + 1) % m
    BY <2>1, <2>2, <2>3, Zenon
  <2> QED
    BY <2>4, <1>2, Zenon DEF Wrap, r, m
<1>4. CASE r + 1 = m
  <2>1. (m * 1 + 0) % m = 0
    BY <1>1, ModUnique
  <2>2. (m * (q + 1) + 0) % m = 0
    BY <1>1, <1>2, ModUnique
  <2>3. m * 1 + 0 = r + 1 /\ m * (q + 1) + 0 = n + 1
    BY <1>1, <1>2, <1>4
  <2>4. (r + 1) % m = (n + 1) % m
    BY <2>1, <2>2, <2>3, Zenon
  <2> QED
    BY <2>4, <1>2, Zenon DEF Wrap, r, m
<1> QED
  BY <1>1, <1>2, <1>3, <1>4

\* The sign of the wrapped difference tells the order of two tickets that are less
\* than Half apart: "int32(t - notify) >= 0" is right across the wrap.
THEOREM WrappedOrder ==
    ASSUME NEW a \in Int, NEW b \in Int, a - b < Half, b - a <= Half
    PROVE  Before(Wrap(a), Wrap(b)) <=> a < b
<1> DEFINE m == Modulus
           qa == a \div m
           qb == b \div m
           ra == a % m
           rb == b % m
<1>1. m \in Nat \ {0} /\ m = 2 * Half /\ Half \in Nat
  BY TicketsAssumption DEF Modulus
<1>2. /\ qa \in Int /\ ra \in 0 .. m - 1 /\ a = m * qa + ra
      /\ qb \in Int /\ rb \in 0 .. m - 1 /\ b = m * qb + rb
  BY <1>1, DivMod, Zenon
<1>3. Before(Wrap(a), Wrap(b)) <=> (ra - rb) % m >= Half
  BY Zenon DEF Before, Wrap
<1> HIDE DEF qa, qb, ra, rb, m
<1>4. CASE a >= b
  <2>0. qb - qa \in Int /\ a - b \in Int /\ 0 <= a - b /\ a - b < m
    BY <1>1, <1>2, <1>4
  <2>1. (m * (qb - qa) + (a - b)) % m = a - b
    BY <1>1, <2>0, ModUnique, Zenon
  <2>2. m * (qb - qa) + (a - b) = ra - rb
    BY <1>1, <1>2
  <2> QED
    BY <1>1, <1>3, <1>4, <2>1, <2>2
<1>5. CASE a < b
  <2>0. qb - qa - 1 \in Int /\ a - b + m \in Int /\ 0 <= a - b + m /\ a - b + m < m
    BY <1>1, <1>2, <1>5
  <2>1. (m * (qb - qa - 1) + (a - b + m)) % m = a - b + m
    BY <1>1, <2>0, ModUnique, Zenon
  <2>2. m * (qb - qa - 1) + (a - b + m) = ra - rb
    BY <1>1, <1>2
  <2> QED
    BY <1>1, <1>3, <1>5, <2>1, <2>2
<1> QED
  BY <1>4, <1>5

-----------------------------------------------------------------------------
\* The inductive invariant: the words are the wrapped counts, every ticket is one
\* that has been given out, and no sleeper has been notified.
ListInv ==
    /\ added \in Nat /\ notified \in Nat /\ Start <= notified /\ notified <= added
    /\ wait = Wrap(added) /\ notify = Wrap(notified)
    /\ serial \in [Gs -> Nat] /\ ticket = [g \in Gs |-> Wrap(serial[g])]
    /\ \A g \in Gs : Start <= serial[g] /\ serial[g] <= added
    /\ listening \subseteq Gs
    /\ added - Start < Half => \A g \in listening : serial[g] >= notified

\* The loop's test is the test on the counts.
LEMMA TestExact ==
    ASSUME ListInv, added - Start < Half, NEW g \in Gs
    PROVE  MustWait(ticket[g], notify) <=> serial[g] >= notified
<1>1. ticket[g] = Wrap(serial[g]) /\ notify = Wrap(notified)
  BY Zenon DEF ListInv
<1>2. serial[g] \in Int /\ notified \in Int
  BY DEF ListInv
<1>3. serial[g] - notified < Half /\ notified - serial[g] <= Half
  BY TicketsAssumption DEF ListInv
<1>4. Before(ticket[g], notify) <=> serial[g] < notified
  BY <1>1, <1>2, <1>3, WrappedOrder, Zenon
<1> QED
  BY <1>2, <1>4 DEF MustWait

LEMMA ListAdd ==
    ASSUME ListInv, NEW g \in Gs, NEW l, notifyListAdd(g, l)
    PROVE  ListInv'
<1>1. wait' = Wrap(added')
  BY WrapNext DEF ListInv, notifyListAdd
<1>2. ticket' = [h \in Gs |-> Wrap(serial'[h])] /\ serial' \in [Gs -> Nat]
  BY Zenon DEF ListInv, notifyListAdd
<1>3. \A h \in Gs : Start <= serial'[h] /\ serial'[h] <= added'
  BY TicketsAssumption DEF ListInv, notifyListAdd
<1>4. added' - Start < Half => \A h \in listening' : serial'[h] >= notified'
  BY TicketsAssumption DEF ListInv, notifyListAdd
<1> QED
  BY <1>1, <1>2, <1>3, <1>4 DEF ListInv, notifyListAdd

LEMMA ListWait ==
    ASSUME ListInv, NEW g \in Gs, NEW l, notifyListWait(g, l)
    PROVE  ListInv'
<1>1. CASE MustWait(ticket[g], notify)
  <2>1. added - Start < Half => serial[g] >= notified
    BY <1>1, TestExact, Zenon
  <2> QED
    BY <1>1, <2>1, Zenon DEF ListInv, notifyListWait
<1>2. CASE ~MustWait(ticket[g], notify)
  <2>1. ticket' = [h \in Gs |-> Wrap(serial'[h])] /\ serial' \in [Gs -> Nat]
    BY <1>2, TicketsAssumption, Zenon DEF ListInv, notifyListWait
  <2>2. \A h \in Gs : Start <= serial'[h] /\ serial'[h] <= added'
    BY <1>2, TicketsAssumption DEF ListInv, notifyListWait
  <2>3. added' - Start < Half => \A h \in listening' : serial'[h] >= notified'
    BY <1>2 DEF ListInv, notifyListWait
  <2> QED
    BY <1>2, <2>1, <2>2, <2>3, Zenon DEF ListInv, notifyListWait
<1> QED
  BY <1>1, <1>2, Zenon

LEMMA ListNotify ==
    ASSUME ListInv, NEW g \in Gs, NEW l, notifyListNotifyOne(g, l) \/ notifyListNotifyAll(g, l)
    PROVE  ListInv'
<1>1. CASE notifyListNotifyAll(g, l)
  BY <1>1, TicketsAssumption DEF ListInv, notifyListNotifyAll
<1>2. CASE notifyListNotifyOne(g, l) /\ notify # wait
  <2>1. notified < added
    BY <1>2 DEF ListInv
  <2>2. notify' = Wrap(notified')
    BY <1>2, WrapNext DEF ListInv, notifyListNotifyOne
  <2> QED
    BY <1>2, <2>1, <2>2, TicketsAssumption DEF ListInv, notifyListNotifyOne
<1>3. CASE notifyListNotifyOne(g, l) /\ notify = wait
  BY <1>3, Zenon DEF ListInv, notifyListNotifyOne
<1> QED
  BY <1>1, <1>2, <1>3, Zenon

LEMMA ListSame ==
    ASSUME ListInv, UNCHANGED listVars
    PROVE  ListInv'
  BY Zenon DEF ListInv, listVars

LEMMA ListStep ==
    ASSUME ListInv, Next
    PROVE  ListInv'
<1>1. PICK g \in Gs : Step(g) \/ Spurious(g)
  BY Zenon DEF Next
<1>2. CASE Call(g)
  BY <1>2, ListAdd, ListNotify, ListSame, Zenon DEF Call
<1>3. CASE InWait(g)
  BY <1>3, ListWait, Zenon DEF InWait
<1>4. CASE Stirs(g)
  BY <1>4, Zenon DEF Stirs, ListInv
<1>5. CASE Done(g) \/ UNCHANGED listVars
  BY <1>5, ListSame, Zenon DEF Done
<1> QED
  BY <1>1, <1>2, <1>3, <1>4, <1>5, Zenon DEF Step, Spurious

\* For any number of goroutines and any programs: while fewer than Half tickets
\* have been given out, Wait returns exactly to those that were notified, and no
\* notified goroutine is asleep, whether or not the 32-bit words have wrapped.
THEOREM ServedInTurn == Spec => [](added - Start < Half => TurnsKept)
<1>1. Init => ListInv
  BY TicketsAssumption DEF Init, ListInit, ListInv
<1>2. ListInv /\ [Next]_vars => ListInv'
  BY ListStep, ListSame, Zenon DEF vars
<1>3. ListInv => (added - Start < Half => TurnsKept)
  <2> SUFFICES ASSUME ListInv, added - Start < Half
               PROVE  TurnsKept
    OBVIOUS
  <2>1. \A g \in Gs : MustWait(ticket[g], notify) <=> serial[g] >= notified
    BY TestExact, Zenon
  <2> QED
    BY <2>1, Zenon DEF ListInv, TurnsKept, TurnsExact
<1> QED
  BY <1>1, <1>2, <1>3, PTL DEF Spec

-----------------------------------------------------------------------------
(***************************************************************************)
(* No token lies idle.                                                     *)
(***************************************************************************)
Under == {"loadLocked", "casLocked", "condWait"}
Trying == {"load", "cas", "sleep", "relock"} \union Under
Places ==
    {"run", "lock", "lockLoad", "lockCas", "try", "tryCas", "failed", "woken", "handoff", "unlock",
     "unlockSlow", "unlockCas", "unlockLoad", "add", "wake", "done", "finished", "list"} \union Trying
Ends == {"run", "woken", "done", "finished"}

\* Goroutines that want a token and are awake, that have yet to wake somebody, and
\* that are in cond.Wait or on their way out of it.
Up == {g \in Gs : pc[g] \in Trying /\ g \notin asleep}
Wakers == {g \in Gs : pc[g] = "wake"}
Relocking == {g \in Gs : pc[g] = "relock"}

\* Who holds st.mu, where a goroutine sleeps, and that a loaded count is not zero.
SemaTypes ==
    /\ pc \in [Gs -> Places] /\ after \in [Gs -> Ends] /\ seen \in [Gs -> Nat] /\ count \in Nat
    /\ form \in {"address", "cond"} /\ asleep \subseteq Gs
    /\ \A g \in asleep : pc[g] = IF form = "address" THEN "load" ELSE "relock"
    /\ form = "address" => \A g \in Gs : pc[g] \notin Under \union {"relock"}
    /\ \A g \in Gs : pc[g] \in {"cas", "casLocked"} => seen[g] # 0
    /\ \A g \in Gs : pc[g] \in Under => mu = g

\* While somebody sleeps, each token has a goroutine that is awake and wants it, or
\* a release that will still wake one.  Somebody about to sleep under st.mu saw no
\* token, and the releases since then have yet to signal.
Covered ==
    /\ waiters = Cardinality(Relocking)
    /\ asleep # {} => count <= Cardinality(Up) + Cardinality(Wakers)
    /\ \A g \in Gs : pc[g] = "condWait" => count <= Cardinality(Wakers)

SemaInv == SemaTypes /\ Covered

LEMMA Finite ==
    ASSUME NEW S \in SUBSET Gs
    PROVE  IsFiniteSet(S) /\ Cardinality(S) \in Nat
  BY NativeSyncAssumption, FS_Subset, FS_CardinalityType, Zenon

LEMMA Grow ==
    ASSUME NEW S \in SUBSET Gs, NEW T \in SUBSET Gs, S \subseteq T
    PROVE  Cardinality(S) <= Cardinality(T)
  BY Finite, FS_Subset, Zenon

LEMMA Plus ==
    ASSUME NEW S \in SUBSET Gs, NEW g \in Gs, g \notin S
    PROVE  Cardinality(S \union {g}) = Cardinality(S) + 1
  BY Finite, FS_AddElement, Zenon

LEMMA Minus ==
    ASSUME NEW S \in SUBSET Gs, NEW g \in S
    PROVE  Cardinality(S \ {g}) = Cardinality(S) - 1
  BY Finite, FS_RemoveElement, Zenon

\* The three sets, before and after a step.
LEMMA Counted ==
    /\ Up \in SUBSET Gs /\ Wakers \in SUBSET Gs /\ Relocking \in SUBSET Gs
    /\ Up' \in SUBSET Gs /\ Wakers' \in SUBSET Gs /\ Relocking' \in SUBSET Gs
    /\ Cardinality(Up) \in Nat /\ Cardinality(Wakers) \in Nat /\ Cardinality(Relocking) \in Nat
    /\ Cardinality(Up') \in Nat /\ Cardinality(Wakers') \in Nat /\ Cardinality(Relocking') \in Nat
<1>1. Up \in SUBSET Gs /\ Wakers \in SUBSET Gs /\ Relocking \in SUBSET Gs
  BY Zenon DEF Up, Wakers, Relocking
<1>2. Up' \in SUBSET Gs /\ Wakers' \in SUBSET Gs /\ Relocking' \in SUBSET Gs
  BY Zenon DEF Up, Wakers, Relocking
<1> QED
  BY <1>1, <1>2, Finite, Zenon

\* A step that takes no token and lets nobody sleep, stop trying or signal.
LEMMA CoveredKept ==
    ASSUME SemaInv, count' = count, waiters' = waiters, asleep' \subseteq asleep,
           Up \subseteq Up', Wakers' = Wakers, Relocking' = Relocking,
           \A h \in Gs : pc'[h] = "condWait" => pc[h] = "condWait"
    PROVE  Covered'
<1>1. Cardinality(Up) <= Cardinality(Up')
  BY Counted, Grow, Zenon
<1>2. asleep' # {} => count' <= Cardinality(Up') + Cardinality(Wakers')
  BY <1>1, Counted DEF SemaInv, SemaTypes, Covered
<1> QED
  BY <1>2, Zenon DEF SemaInv, Covered

\* A goroutine outside the semaphore goes on, or begins to acquire or to release.
LEMMA OutsideStep ==
    ASSUME SemaInv, NEW g \in Gs, NEW l \in Places, pc[g] \notin Trying \union {"wake"},
           l = "load" \/ l \notin Trying \union {"wake"}, Goto(g, l),
           after' \in [Gs -> Ends], UNCHANGED <<form, count, seen, asleep, mu, waiters>>
    PROVE  SemaInv'
<1>1. pc' = [pc EXCEPT ![g] = l] /\ pc' \in [Gs -> Places] /\ g \notin asleep
  BY Zenon DEF SemaInv, SemaTypes, Goto, Trying
<1>2. SemaTypes'
  BY <1>1, Zenon DEF SemaInv, SemaTypes, Trying, Under
<1>3. Up \subseteq Up' /\ Wakers' = Wakers /\ Relocking' = Relocking
  BY <1>1, Zenon DEF SemaInv, SemaTypes, Up, Wakers, Relocking, Trying, Under
<1>4. \A h \in Gs : pc'[h] = "condWait" => pc[h] = "condWait"
  BY <1>1, Zenon DEF SemaInv, SemaTypes, Trying, Under
<1> QED
  BY <1>2, <1>3, <1>4, CoveredKept, Zenon DEF SemaInv

LEMMA SemaSame ==
    ASSUME SemaInv, UNCHANGED <<form, count, seen, asleep, mu, waiters, pc>>, after' \in [Gs -> Ends]
    PROVE  SemaInv'
  BY Zenon DEF SemaInv, SemaTypes, Covered, Up, Wakers, Relocking

\* A goroutine that acquires moves on and still tries, not to or from cond.Wait.
LEMMA TryStep ==
    ASSUME SemaInv, NEW g \in Gs, NEW l \in Trying \ {"relock", "condWait"}, g \notin asleep,
           pc[g] \in Trying \ {"relock"}, Goto(g, l), UNCHANGED <<form, count, asleep, waiters, after>>,
           SemaTypes'
    PROVE  SemaInv'
<1>1. pc' = [pc EXCEPT ![g] = l] /\ pc \in [Gs -> Places]
  BY Zenon DEF SemaInv, SemaTypes, Goto
<1>2. Up \subseteq Up' /\ Wakers' = Wakers /\ Relocking' = Relocking
  BY <1>1, Zenon DEF Up, Wakers, Relocking, Trying, Under
<1>3. \A h \in Gs : pc'[h] = "condWait" => pc[h] = "condWait"
  BY <1>1, Zenon
<1> QED
  BY <1>2, <1>3, CoveredKept, Zenon DEF SemaInv

LEMMA LoadInv ==
    ASSUME SemaInv, NEW g \in Gs, Load(g)
    PROVE  SemaInv'
<1> DEFINE l == IF count = 0 THEN "sleep" ELSE "cas"
<1>1. l \in Trying \ {"relock", "condWait"} /\ l \in Places /\ l \notin Under
  BY Zenon DEF Trying, Under, Places
<1>2. Goto(g, l) /\ pc[g] = "load" /\ g \notin asleep
  BY Zenon DEF Load, At
<1>3. SemaTypes'
  BY <1>1, <1>2, Zenon DEF Load, Goto, SemaInv, SemaTypes, Under
<1> QED
  BY <1>1, <1>2, <1>3, TryStep, Zenon DEF Load, Trying, Under

LEMMA LockStateInv ==
    ASSUME SemaInv, NEW g \in Gs, LockState(g)
    PROVE  SemaInv'
<1>1. "loadLocked" \in Trying \ {"relock", "condWait"} /\ "loadLocked" \in Places
  BY Zenon DEF Trying, Under, Places
<1>2. Goto(g, "loadLocked") /\ pc[g] = "sleep" /\ g \notin asleep
  BY Zenon DEF LockState, At
<1>3. SemaTypes'
  BY <1>1, <1>2, NativeSyncAssumption, Zenon DEF LockState, Goto, SemaInv, SemaTypes, Under
<1> QED
  BY <1>1, <1>2, <1>3, TryStep, Zenon DEF LockState, Trying, Under

\* The futex: with a token it does not sleep; without one there is nothing to cover.
LEMMA WaitUint32Inv ==
    ASSUME SemaInv, NEW g \in Gs, WaitUint32(g)
    PROVE  SemaInv'
<1>1. "load" \in Trying \ {"relock", "condWait"} /\ "load" \in Places /\ "sleep" \in Trying \ {"relock"}
  BY Zenon DEF Trying, Under, Places
<1>2. Goto(g, "load") /\ pc[g] = "sleep" /\ g \notin asleep
  BY Zenon DEF WaitUint32, At
<1>3. SemaTypes'
  BY <1>1, <1>2, Zenon DEF WaitUint32, Goto, SemaInv, SemaTypes, Under
<1>4. CASE count # 0
  BY <1>1, <1>2, <1>3, <1>4, TryStep, Zenon DEF WaitUint32
<1>5. CASE count = 0
  <2>1. Relocking' = Relocking
    BY <1>2, Zenon DEF Goto, SemaInv, SemaTypes, Relocking
  <2>2. \A h \in Gs : pc'[h] = "condWait" => pc[h] = "condWait"
    BY <1>2, Zenon DEF Goto, SemaInv, SemaTypes
  <2>3. Covered'
    BY <1>5, <2>1, <2>2, Counted DEF WaitUint32, SemaInv, Covered
  <2> QED
    BY <1>3, <2>3, Zenon DEF SemaInv
<1> QED
  BY <1>4, <1>5, Zenon

LEMMA LoadLockedInv ==
    ASSUME SemaInv, NEW g \in Gs, LoadLocked(g)
    PROVE  SemaInv'
<1>1. Under \subseteq Trying /\ Under \subseteq Places /\ "relock" \notin Under
  BY Zenon DEF Trying, Under, Places
<1>2. pc[g] = "loadLocked" /\ pc[g] \in Under /\ g \notin asleep
  BY Zenon DEF LoadLocked, At, Under
<1>3. SemaTypes'
  BY <1>1, <1>2, Zenon DEF LoadLocked, Goto, SemaInv, SemaTypes, Under
<1>4. CASE count # 0
  <2>1. Goto(g, "casLocked") /\ "casLocked" \in Trying \ {"relock", "condWait"}
    BY <1>4, Zenon DEF LoadLocked, Trying, Under
  <2> QED
    BY <1>1, <1>2, <1>3, <2>1, TryStep, Zenon DEF LoadLocked
<1>5. CASE count = 0
  <2>1. Relocking' = Relocking
    BY <1>2, Zenon DEF LoadLocked, Goto, SemaInv, SemaTypes, Relocking
  <2>2. Covered'
    BY <1>5, <2>1, Counted DEF LoadLocked, SemaInv, Covered
  <2> QED
    BY <1>3, <2>2, Zenon DEF SemaInv
<1> QED
  BY <1>4, <1>5, Zenon

\* A token is taken by somebody who was awake and wanted one.
LEMMA Taken ==
    ASSUME SemaInv, NEW g \in Gs, g \notin asleep, pc[g] \in Trying \ {"relock"}, count # 0,
           count' = count - 1, Goto(g, after[g]), UNCHANGED <<form, asleep, waiters, after>>,
           SemaTypes'
    PROVE  SemaInv'
<1>1. /\ pc' = [pc EXCEPT ![g] = after[g]] /\ pc \in [Gs -> Places]
      /\ after[g] \notin Trying \union {"wake"}
  BY Zenon DEF SemaInv, SemaTypes, Goto, Ends, Trying, Under
<1>2. Up' = Up \ {g} /\ g \in Up
  BY <1>1, Zenon DEF Up, Trying, Under
<1>3. Wakers' = Wakers /\ Relocking' = Relocking
  BY <1>1, Zenon DEF Wakers, Relocking, Trying, Under
<1>4. Cardinality(Up') = Cardinality(Up) - 1
  BY <1>2, Counted, Minus, Zenon
<1>5. \A h \in Gs : pc'[h] = "condWait" => pc[h] = "condWait"
  BY <1>1, Zenon DEF Trying, Under
<1>6. count \in Nat
  BY Zenon DEF SemaInv, SemaTypes
<1>7. asleep' # {} => count' <= Cardinality(Up') + Cardinality(Wakers')
  BY <1>3, <1>4, <1>6, Counted DEF SemaInv, Covered
<1>8. \A h \in Gs : pc'[h] = "condWait" => count' <= Cardinality(Wakers')
  BY <1>3, <1>5, <1>6, Counted DEF SemaInv, Covered
<1>9. Covered'
  BY <1>3, <1>7, <1>8, Zenon DEF SemaInv, Covered
<1> QED
  BY <1>9, Zenon DEF SemaInv

LEMMA CasInv ==
    ASSUME SemaInv, NEW g \in Gs, Cas(g)
    PROVE  SemaInv'
<1>1. pc[g] = "cas" /\ g \notin asleep /\ "cas" \in Trying \ {"relock"}
  BY Zenon DEF Cas, At, Trying
<1>2. CASE count = seen[g]
  <2>1. count # 0 /\ count' = count - 1 /\ Goto(g, after[g])
    BY <1>1, <1>2, Zenon DEF Cas, SemaInv, SemaTypes
  <2>2. after[g] \in Places /\ after[g] \notin Under \union {"cas", "relock"} /\ count - 1 \in Nat
    BY <2>1 DEF SemaInv, SemaTypes, Ends, Places, Under
  <2>3. SemaTypes'
    BY <1>1, <2>1, <2>2, Zenon DEF Cas, Goto, SemaInv, SemaTypes, Under
  <2> QED
    BY <1>1, <2>1, <2>3, Taken, Zenon DEF Cas
<1>3. CASE count # seen[g]
  <2>1. Goto(g, "sleep") /\ "sleep" \in Trying \ {"relock", "condWait"} /\ "sleep" \in Places
    BY <1>3, Zenon DEF Cas, Trying, Under, Places
  <2>2. SemaTypes'
    BY <1>1, <1>3, <2>1, Zenon DEF Cas, Goto, SemaInv, SemaTypes, Under
  <2> QED
    BY <1>1, <1>3, <2>1, <2>2, TryStep, Zenon DEF Cas
<1> QED
  BY <1>2, <1>3, Zenon

LEMMA CasLockedInv ==
    ASSUME SemaInv, NEW g \in Gs, CasLocked(g)
    PROVE  SemaInv'
<1>1. pc[g] = "casLocked" /\ g \notin asleep /\ "casLocked" \in Trying \ {"relock"} /\ mu = g
  BY Zenon DEF CasLocked, At, Trying, Under, SemaInv, SemaTypes
<1>2. CASE count = seen[g]
  <2>1. count # 0 /\ count' = count - 1 /\ Goto(g, after[g])
    BY <1>1, <1>2, Zenon DEF CasLocked, SemaInv, SemaTypes
  <2>2. after[g] \in Places /\ after[g] \notin Under \union {"cas", "relock"} /\ count - 1 \in Nat
    BY <2>1 DEF SemaInv, SemaTypes, Ends, Places, Under
  <2>3. SemaTypes'
    BY <1>1, <1>2, <2>1, <2>2, Zenon DEF CasLocked, Goto, SemaInv, SemaTypes, Under
  <2> QED
    BY <1>1, <2>1, <2>3, Taken, Zenon DEF CasLocked
<1>3. CASE count # seen[g]
  <2>1. Goto(g, "loadLocked") /\ "loadLocked" \in Trying \ {"relock", "condWait"} /\ "loadLocked" \in Places
    BY <1>3, Zenon DEF CasLocked, Trying, Under, Places
  <2>2. SemaTypes'
    BY <1>1, <1>3, <2>1, Zenon DEF CasLocked, Goto, SemaInv, SemaTypes, Under
  <2> QED
    BY <1>1, <1>3, <2>1, <2>2, TryStep, Zenon DEF CasLocked
<1> QED
  BY <1>2, <1>3, Zenon

\* Whoever sleeps now saw no token under st.mu; releases since then wait for st.mu.
LEMMA CondWaitInv ==
    ASSUME SemaInv, NEW g \in Gs, CondWait(g)
    PROVE  SemaInv'
<1>0. pc[g] = "condWait" /\ g \notin asleep /\ pc[g] \in Under
  BY Zenon DEF CondWait, At, Under
<1>1. mu = g /\ form = "cond" /\ "relock" \in Places /\ "relock" \notin Under
  BY <1>0, Zenon DEF Under, Places, Trying, SemaInv, SemaTypes
<1>2. pc' = [pc EXCEPT ![g] = "relock"] /\ pc \in [Gs -> Places]
  BY Zenon DEF CondWait, Goto, SemaInv, SemaTypes
<1>3. SemaTypes'
  BY <1>0, <1>1, <1>2, Zenon DEF CondWait, SemaInv, SemaTypes, Under
<1>4. Relocking' = Relocking \union {g} /\ g \notin Relocking /\ Wakers' = Wakers
  BY <1>0, <1>2, Zenon DEF Relocking, Wakers
<1>5. waiters' = Cardinality(Relocking')
  BY <1>4, Counted, Plus, Zenon DEF CondWait, SemaInv, Covered
<1>6. count' <= Cardinality(Up') + Cardinality(Wakers')
  BY <1>0, <1>4, Counted DEF CondWait, SemaInv, SemaTypes, Covered
<1>7. \A h \in Gs : pc'[h] # "condWait"
  BY <1>1, <1>2, Zenon DEF SemaInv, SemaTypes, Under
<1>8. Covered'
  BY <1>5, <1>6, <1>7, Zenon DEF Covered
<1> QED
  BY <1>3, <1>8, Zenon DEF SemaInv

LEMMA RelockInv ==
    ASSUME SemaInv, NEW g \in Gs, Relock(g)
    PROVE  SemaInv'
<1>1. pc[g] = "relock" /\ g \notin asleep /\ "loadLocked" \in Places \intersect Trying
  BY Zenon DEF Relock, At, Under, Trying, Places
<1>2. pc' = [pc EXCEPT ![g] = "loadLocked"] /\ pc \in [Gs -> Places]
  BY Zenon DEF Relock, Goto, SemaInv, SemaTypes
<1>3. SemaTypes'
  BY <1>1, <1>2, NativeSyncAssumption, Zenon DEF Relock, SemaInv, SemaTypes, Under
<1>4. Relocking' = Relocking \ {g} /\ g \in Relocking /\ Wakers' = Wakers
  BY <1>1, <1>2, Zenon DEF Relocking, Wakers
<1>5. Up' = Up
  BY <1>1, <1>2, Zenon DEF Relock, Up, Trying
<1>6. waiters' = Cardinality(Relocking')
  BY <1>4, Counted, Minus, Zenon DEF Relock, SemaInv, Covered
<1>7. \A h \in Gs : pc'[h] = "condWait" => pc[h] = "condWait"
  BY <1>1, <1>2, Zenon
<1>8. Covered'
  BY <1>4, <1>5, <1>6, <1>7, Zenon DEF Relock, SemaInv, Covered
<1> QED
  BY <1>3, <1>8, Zenon DEF SemaInv

\* A new token has its release to cover it.
LEMMA AddInv ==
    ASSUME SemaInv, NEW g \in Gs, Add(g)
    PROVE  SemaInv'
<1>1. pc[g] = "add" /\ "wake" \in Places /\ "wake" \notin Trying /\ "add" \notin Trying
  BY Zenon DEF Add, At, Under, Trying, Places
<1>2. pc' = [pc EXCEPT ![g] = "wake"] /\ pc \in [Gs -> Places] /\ count' = count + 1
  BY Zenon DEF Add, Goto, SemaInv, SemaTypes
<1>3. count \in Nat /\ count' \in Nat
  BY <1>2 DEF SemaInv, SemaTypes
<1>4. SemaTypes'
  BY <1>1, <1>2, <1>3, Zenon DEF Add, SemaInv, SemaTypes, Under
<1>5. Wakers' = Wakers \union {g} /\ g \notin Wakers /\ Relocking' = Relocking
  BY <1>1, <1>2, Zenon DEF Relocking, Wakers
<1>6. Up' = Up
  BY <1>1, <1>2, Zenon DEF Add, Up
<1>7. Cardinality(Wakers') = Cardinality(Wakers) + 1
  BY <1>5, Counted, Plus, Zenon
<1>8. \A h \in Gs : pc'[h] = "condWait" => pc[h] = "condWait"
  BY <1>1, <1>2, Zenon
<1>9. waiters' = Cardinality(Relocking') /\ asleep' = asleep
  BY <1>5, Zenon DEF Add, SemaInv, Covered
<1>10. asleep' # {} => count' <= Cardinality(Up') + Cardinality(Wakers')
  BY <1>2, <1>3, <1>6, <1>7, <1>9, Counted DEF SemaInv, Covered
<1>11. \A h \in Gs : pc'[h] = "condWait" => count' <= Cardinality(Wakers')
  BY <1>2, <1>3, <1>7, <1>8, Counted DEF SemaInv, Covered
<1> QED
  BY <1>4, <1>9, <1>10, <1>11, Zenon DEF SemaInv, Covered

\* One of the sleepers wakes, if there is one.
LEMMA WokenOne ==
    ASSUME SemaInv, NEW h \in asleep, asleep' = asleep \ {h},
           \A x \in Gs : pc[x] \in Trying => pc'[x] = pc[x]
    PROVE  Cardinality(Up') >= Cardinality(Up) + 1
<1>1. h \in Gs /\ pc[h] \in Trying
  BY Zenon DEF SemaInv, SemaTypes, Trying
<1>2. Up \union {h} \subseteq Up' /\ h \notin Up
  BY <1>1, Zenon DEF Up
<1>3. Up \union {h} \in SUBSET Gs /\ Cardinality(Up \union {h}) = Cardinality(Up) + 1
  BY <1>1, <1>2, Counted, Plus, Zenon
<1> QED
  BY <1>2, <1>3, Counted, Grow, Zenon

\* A release is over: it has woken a sleeper, or there is none.
LEMMA ReleaseOver ==
    ASSUME SemaInv, NEW g \in Gs, At(g, "wake"), Goto(g, after[g]),
           UNCHANGED <<form, count, seen, mu, waiters, after>>,
           (asleep = {} /\ asleep' = {}) \/ \E h \in asleep : asleep' = asleep \ {h},
           \A h \in Gs : pc[h] # "condWait"
    PROVE  SemaInv'
<1>1. /\ pc' = [pc EXCEPT ![g] = after[g]] /\ pc \in [Gs -> Places]
      /\ after[g] \notin Trying \union {"wake"} /\ after[g] \in Places /\ pc[g] = "wake"
  BY Zenon DEF At, SemaInv, SemaTypes, Goto, Ends, Trying, Under, Places
<1>2. SemaTypes'
  BY <1>1, Zenon DEF SemaInv, SemaTypes, Trying, Under
<1>3. Wakers' = Wakers \ {g} /\ g \in Wakers /\ Relocking' = Relocking
  BY <1>1, Zenon DEF Wakers, Relocking, Trying
<1>4. Cardinality(Wakers') = Cardinality(Wakers) - 1
  BY <1>3, Counted, Minus, Zenon
<1>5. \A h \in Gs : pc'[h] # "condWait"
  BY <1>1, Zenon DEF Trying, Under
<1>6. asleep' # {} => count' <= Cardinality(Up') + Cardinality(Wakers')
  <2> SUFFICES ASSUME asleep' # {}
               PROVE  count <= Cardinality(Up') + Cardinality(Wakers')
    OBVIOUS
  <2>1. PICK h \in asleep : asleep' = asleep \ {h}
    OBVIOUS
  <2>2. \A x \in Gs : pc[x] \in Trying => pc'[x] = pc[x]
    BY <1>1, Zenon DEF Trying, Under
  <2>3. Cardinality(Up') >= Cardinality(Up) + 1
    BY <2>1, <2>2, WokenOne, Zenon
  <2>4. count \in Nat /\ count <= Cardinality(Up) + Cardinality(Wakers)
    BY <2>1, Zenon DEF SemaInv, SemaTypes, Covered
  <2> QED
    BY <1>4, <2>3, <2>4, Counted
<1> QED
  BY <1>2, <1>3, <1>5, <1>6, Zenon DEF SemaInv, Covered

LEMMA Sleeping ==
    ASSUME SemaInv
    PROVE  Sleepers = asleep
  BY Zenon DEF SemaInv, SemaTypes, Sleepers

LEMMA WakeInv ==
    ASSUME SemaInv, NEW g \in Gs, WakeUint32(g)
    PROVE  SemaInv'
<1>1. \A h \in Gs : pc[h] # "condWait"
  BY Zenon DEF WakeUint32, SemaInv, SemaTypes, Under
<1>2. (asleep = {} /\ asleep' = {}) \/ \E h \in asleep : asleep' = asleep \ {h}
  BY Sleeping, Zenon DEF WakeUint32, WakeOne
<1> QED
  BY <1>1, <1>2, ReleaseOver, Zenon DEF WakeUint32

LEMMA SignalInv ==
    ASSUME SemaInv, NEW g \in Gs, Signal(g)
    PROVE  SemaInv'
<1>1. \A h \in Gs : pc[h] # "condWait"
  BY NativeSyncAssumption, Zenon DEF Signal, SemaInv, SemaTypes, Under
<1>2. CASE waiters # 0
  <2>1. (asleep = {} /\ asleep' = {}) \/ \E h \in asleep : asleep' = asleep \ {h}
    BY <1>2, Sleeping, Zenon DEF Signal, WakeOne
  <2> QED
    BY <1>1, <2>1, ReleaseOver, Zenon DEF Signal
<1>3. CASE waiters = 0
  <2>1. Relocking = {}
    BY <1>3, Counted, Finite, FS_EmptySet, Zenon DEF SemaInv, Covered
  <2>2. asleep = {}
    BY <2>1, Zenon DEF Signal, SemaInv, SemaTypes, Relocking
  <2> QED
    BY <1>1, <1>3, <2>2, ReleaseOver, Zenon DEF Signal
<1> QED
  BY <1>2, <1>3, Zenon

LEMMA SpuriousInv ==
    ASSUME SemaInv, NEW g \in Gs, SpuriousWake(g)
    PROVE  SemaInv'
<1>1. SemaTypes'
  BY Zenon DEF SpuriousWake, SemaInv, SemaTypes
<1>2. Up \subseteq Up' /\ Wakers' = Wakers /\ Relocking' = Relocking
  BY Zenon DEF SpuriousWake, Up, Wakers, Relocking
<1> QED
  BY <1>1, <1>2, CoveredKept, Zenon DEF SemaInv, SpuriousWake

LEMMA SemaStepInv ==
    ASSUME SemaInv, NEW g \in Gs, SemaStep(g)
    PROVE  SemaInv'
  BY Zenon, LoadInv, CasInv, WaitUint32Inv, LockStateInv, LoadLockedInv, CasLockedInv, CondWaitInv,
     RelockInv, AddInv, WakeInv, SignalInv DEF SemaStep

\* The mutex and the program only ask for tokens and bring them.
LEMMA AfterKept ==
    ASSUME SemaInv
    PROVE  /\ UNCHANGED after => after' \in [Gs -> Ends]
           /\ \A g \in Gs, e \in Ends : after' = [after EXCEPT ![g] = e] => after' \in [Gs -> Ends]
  BY Zenon DEF SemaInv, SemaTypes

LEMMA MutexOutside ==
    ASSUME SemaInv, NEW g \in Gs, MutexStep(g)
    PROVE  SemaInv'
<1> DEFINE Free(l) == l \in Places /\ (l = "load" \/ l \notin Trying \union {"wake"})
<1>1. /\ Free("done") /\ Free("lockLoad") /\ Free("lockCas") /\ Free("failed") /\ Free("tryCas")
      /\ Free("load") /\ Free("handoff") /\ Free("unlockSlow") /\ Free("unlockCas")
      /\ Free("unlockLoad") /\ Free("add")
  BY Zenon DEF Places, Trying, Under
<1>2. "woken" \in Ends /\ "run" \in Ends /\ "done" \in Ends
  BY Zenon DEF Ends
<1> HIDE DEF Free
<1> SUFFICES ASSUME NEW l, Free(l), Goto(g, l), pc[g] \notin Trying \union {"wake"},
                    after' \in [Gs -> Ends], UNCHANGED <<form, count, seen, asleep, mu, waiters>>
             PROVE  SemaInv'
  <2>1. CASE Lock(g)
    <3>1. pc[g] \notin Trying \union {"wake"} /\ (Goto(g, "done") \/ Goto(g, "lockLoad"))
      BY <2>1, Zenon DEF Lock, Gets, Trying, Under
    <3> QED
      BY <1>1, <2>1, <3>1, AfterKept, Zenon DEF Lock, semaVars
  <2>2. CASE LockLoad(g)
    <3>1. pc[g] \notin Trying \union {"wake"} /\ Goto(g, "lockCas")
      BY <2>2, Zenon DEF LockLoad, Trying, Under
    <3> QED
      BY <1>1, <2>2, <3>1, AfterKept, Zenon DEF LockLoad, semaVars
  <2>3. CASE TryLock(g)
    <3>1. pc[g] \notin Trying \union {"wake"} /\ (Goto(g, "failed") \/ Goto(g, "tryCas"))
      BY <2>3, Zenon DEF TryLock, Trying, Under
    <3> QED
      BY <1>1, <2>3, <3>1, AfterKept, Zenon DEF TryLock, semaVars
  <2>4. CASE TryLockCas(g)
    <3>1. pc[g] \notin Trying \union {"wake"} /\ (Goto(g, "failed") \/ Goto(g, "done"))
      BY <2>4, Zenon DEF TryLockCas, Gets, Trying, Under
    <3> QED
      BY <1>1, <2>4, <3>1, AfterKept, Zenon DEF TryLockCas, semaVars
  <2>5. CASE LockCas(g)
    <3>1. pc[g] \notin Trying \union {"wake"}
      BY <2>5, Zenon DEF LockCas, Trying, Under
    <3>2. UNCHANGED pc \/ Goto(g, "lockLoad") \/ Goto(g, "load") \/ Goto(g, "done")
      BY <2>5, Zenon DEF LockCas, Throws, Gets
    <3>3. UNCHANGED after \/ after' = [after EXCEPT ![g] = "woken"]
      BY <2>5, Zenon DEF LockCas, Throws
    <3>4. after' \in [Gs -> Ends] /\ UNCHANGED <<form, count, seen, asleep, mu, waiters>>
      BY <1>2, <2>5, <3>3, AfterKept, Zenon DEF LockCas
    <3> QED
      BY <1>1, <3>1, <3>2, <3>4, SemaSame, Zenon
  <2>6. CASE LockWoken(g)
    <3>1. pc[g] \notin Trying \union {"wake"}
      BY <2>6, Zenon DEF LockWoken, Trying, Under
    <3>2. UNCHANGED pc \/ Goto(g, "handoff") \/ Goto(g, "lockCas")
      BY <2>6, Zenon DEF LockWoken, Throws
    <3>3. UNCHANGED after \/ after' = [after EXCEPT ![g] = "run"]
      BY <2>6, Zenon DEF LockWoken, Throws
    <3>4. after' \in [Gs -> Ends] /\ UNCHANGED <<form, count, seen, asleep, mu, waiters>>
      BY <1>2, <2>6, <3>3, AfterKept, Zenon DEF LockWoken
    <3> QED
      BY <1>1, <3>1, <3>2, <3>4, SemaSame, Zenon
  <2>7. CASE LockHandoff(g)
    <3>1. pc[g] \notin Trying \union {"wake"} /\ Goto(g, "done")
      BY <2>7, Zenon DEF LockHandoff, Gets, Trying, Under
    <3> QED
      BY <1>1, <2>7, <3>1, AfterKept, Zenon DEF LockHandoff, semaVars
  <2>8. CASE Unlock(g)
    <3>1. pc[g] \notin Trying \union {"wake"} /\ (Goto(g, "done") \/ Goto(g, "unlockSlow"))
      BY <2>8, Zenon DEF Unlock, Trying, Under
    <3> QED
      BY <1>1, <2>8, <3>1, AfterKept, Zenon DEF Unlock, semaVars
  <2>9. CASE UnlockSlow(g)
    <3>1. pc[g] \notin Trying \union {"wake"}
      BY <2>9, Zenon DEF UnlockSlow, Trying, Under
    <3>2. UNCHANGED pc \/ Goto(g, "add") \/ Goto(g, "unlockCas")
      BY <2>9, Zenon DEF UnlockSlow, Throws
    <3>3. UNCHANGED after \/ after' = [after EXCEPT ![g] = "done"]
      BY <2>9, Zenon DEF UnlockSlow, Throws
    <3>4. after' \in [Gs -> Ends] /\ UNCHANGED <<form, count, seen, asleep, mu, waiters>>
      BY <1>2, <2>9, <3>3, AfterKept, Zenon DEF UnlockSlow
    <3> QED
      BY <1>1, <3>1, <3>2, <3>4, SemaSame, Zenon
  <2>10. CASE UnlockCas(g)
    <3>1. pc[g] \notin Trying \union {"wake"}
      BY <2>10, Zenon DEF UnlockCas, Trying, Under
    <3>2. Goto(g, "done") \/ Goto(g, "add") \/ Goto(g, "unlockLoad")
      BY <2>10, Zenon DEF UnlockCas
    <3>3. UNCHANGED after \/ after' = [after EXCEPT ![g] = "done"]
      BY <2>10, Zenon DEF UnlockCas
    <3>4. after' \in [Gs -> Ends] /\ UNCHANGED <<form, count, seen, asleep, mu, waiters>>
      BY <1>2, <2>10, <3>3, AfterKept, Zenon DEF UnlockCas
    <3> QED
      BY <1>1, <3>1, <3>2, <3>4, Zenon
  <2>11. CASE UnlockLoad(g)
    <3>1. pc[g] \notin Trying \union {"wake"} /\ Goto(g, "unlockCas")
      BY <2>11, Zenon DEF UnlockLoad, Trying, Under
    <3> QED
      BY <1>1, <2>11, <3>1, AfterKept, Zenon DEF UnlockLoad, semaVars
  <2> QED
    BY <2>1, <2>2, <2>3, <2>4, <2>5, <2>6, <2>7, <2>8, <2>9, <2>10, <2>11, Zenon DEF MutexStep
<1> QED
  BY OutsideStep, Zenon DEF Free

LEMMA CallOutside ==
    ASSUME SemaInv, NEW g \in Gs, Call(g)
    PROVE  SemaInv'
<1>1. pc[g] \notin Trying \union {"wake"}
  BY Zenon DEF Call, Trying, Under
<1>2. \A l \in {"lock", "try", "unlock", "load", "add", "run"} :
        l \in Places /\ (l = "load" \/ l \notin Trying \union {"wake"})
  BY Zenon DEF Places, Trying, Under
<1>3. UNCHANGED pc \/ \E l \in {"lock", "try", "unlock", "load", "add", "run"} : Goto(g, l)
  BY Zenon DEF Call, notifyListAdd, notifyListNotifyOne, notifyListNotifyAll
<1>4. UNCHANGED after \/ after' = [after EXCEPT ![g] = "finished"]
  BY Zenon DEF Call, semaVars
<1>5. after' \in [Gs -> Ends]
  BY <1>4, AfterKept, Zenon DEF Ends
<1>6. UNCHANGED <<form, count, seen, asleep, mu, waiters>>
  BY Zenon DEF Call, semaVars
<1> QED
  BY <1>1, <1>2, <1>3, <1>5, <1>6, SemaSame, OutsideStep, Zenon

LEMMA DoneOutside ==
    ASSUME SemaInv, NEW g \in Gs, Done(g)
    PROVE  SemaInv'
<1>1. pc[g] \notin Trying \union {"wake"}
  BY Zenon DEF Done, Trying, Under
<1>2. \A l \in {"run", "list"} : l \in Places /\ l \notin Trying \union {"wake"}
  BY Zenon DEF Places, Trying, Under
<1>3. \E l \in {"run", "list"} : Goto(g, l)
  BY Zenon DEF Done
<1>4. after' \in [Gs -> Ends]
  BY AfterKept, Zenon DEF Done, Ends
<1> QED
  BY <1>1, <1>2, <1>3, <1>4, OutsideStep, Zenon DEF Done

LEMMA InWaitOutside ==
    ASSUME SemaInv, NEW g \in Gs, InWait(g)
    PROVE  SemaInv'
<1>1. pc[g] \notin Trying \union {"wake"} /\ "lock" \in Places /\ "lock" \notin Trying \union {"wake"}
  BY Zenon DEF InWait, Places, Trying, Under
<1>2. UNCHANGED pc \/ Goto(g, "lock")
  BY Zenon DEF InWait, notifyListWait
<1>3. after' \in [Gs -> Ends] /\ UNCHANGED <<form, count, seen, asleep, mu, waiters>>
  BY AfterKept, Zenon DEF InWait, semaVars
<1> QED
  BY <1>1, <1>2, <1>3, SemaSame, OutsideStep, Zenon

LEMMA SemaNext ==
    ASSUME SemaInv, Next
    PROVE  SemaInv'
<1>1. PICK g \in Gs : Step(g) \/ Spurious(g)
  BY Zenon DEF Next
<1>2. CASE Step(g)
  BY <1>2, CallOutside, InWaitOutside, DoneOutside, SemaStepInv, MutexOutside, Zenon DEF Step
<1>3. CASE SpuriousWake(g)
  BY <1>3, SpuriousInv, Zenon
<1>4. CASE Stirs(g) /\ UNCHANGED semaVars
  BY <1>4, SemaSame, AfterKept, Zenon DEF Stirs, semaVars
<1> QED
  BY <1>1, <1>2, <1>3, <1>4, Zenon DEF Spurious

\* The invariant of the semaphore, in both forms and for every program.
THEOREM SemaInvariant == Spec => []SemaInv
<1>1. Init => SemaInv
  <2> SUFFICES ASSUME Init
               PROVE  SemaInv
    OBVIOUS
  <2>1. SemaTypes
    BY Zenon DEF Init, SemaInit, SemaTypes, Places, Ends, Under
  <2>2. Relocking = {} /\ Cardinality({}) = 0
    BY FS_EmptySet, Zenon DEF Init, Relocking
  <2> QED
    BY <2>1, <2>2, Zenon DEF Init, SemaInit, SemaInv, Covered
<1>2. SemaInv /\ [Next]_vars => SemaInv'
  BY SemaNext, SemaSame, AfterKept, Zenon DEF vars, semaVars
<1> QED
  BY <1>1, <1>2, PTL DEF Spec

\* No wake-up of the semaphore is lost: with a token there, semaAcquire sleeps on
\* it only while the release that brought it has yet to wake somebody, on the
\* futex and on the condition variable.
THEOREM TokensFindTakers == Spec => []NoSleepOnToken
<1>1. SemaInv => NoSleepOnToken
  <2> SUFFICES ASSUME SemaInv, count > 0, Acquiring # {}, Acquiring \subseteq asleep,
                      \A g \in Gs : pc[g] # "wake"
               PROVE  FALSE
    BY Zenon DEF NoSleepOnToken
  <2>1. asleep # {} /\ Up = {} /\ Wakers = {}
    BY Zenon DEF Acquiring, Up, Wakers, Trying, Under
  <2>2. Cardinality(Up) = 0 /\ Cardinality(Wakers) = 0
    BY <2>1, FS_EmptySet, Zenon
  <2> QED
    BY <2>1, <2>2 DEF SemaInv, SemaTypes, Covered
<1> QED
  BY <1>1, SemaInvariant, PTL
=============================================================================
