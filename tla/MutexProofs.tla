---------------------------- MODULE MutexProofs ----------------------------
(***************************************************************************)
(* The patched mutex excludes, its word counts the waiters, and it never   *)
(* throws, for every number of goroutines and every program that unlocks   *)
(* only what it has locked.                                                *)
(***************************************************************************)
EXTENDS NativeSyncProofs

\* A goroutine that was woken, or is about to wake somebody: it has the token of
\* the semaphore, will release it, or works from it.
Credit(g) ==
    \/ pc[g] \in {"add", "woken", "handoff"}
    \/ pc[g] = "unlockSlow" /\ Starving(old[g])
    \/ pc[g] \in {"lockLoad", "lockCas"} /\ awoke[g]

Credits == {g \in Gs : Credit(g)}
HasCredit == count = 1 \/ Credits # {}
Takers == {g \in Gs : pc[g] \in {"woken", "handoff"}}
OneIf(S) == IF S = {} THEN 0 ELSE 1

\* What a goroutine knows from its own variables.
Local(g) ==
    /\ pc[g] \in Trying => after[g] = "woken"
    /\ pc[g] \in {"add", "wake"} => after[g] = "done"
    /\ pc[g] \notin {"lockLoad", "lockCas", "woken", "handoff"} \union Trying => ~awoke[g] /\ ~starving[g]
    /\ pc[g] \in {"lockLoad", "lockCas"} /\ starving[g] => awoke[g]
    /\ pc[g] = "lockCas" /\ awoke[g] => Woken(old[g])
    /\ pc[g] = "tryCas" => ~Locked(old[g]) /\ ~Starving(old[g])
    /\ pc[g] = "unlockSlow" => ~Locked(old[g])

\* The operation a goroutine is in, and whether it has the mutex.
InProgram(g) ==
    /\ pc[g] # "run" => ip[g] <= Len(program[g])
    /\ pc[g] = "run" /\ ip[g] <= Len(program[g]) /\ Holding(program[g], ip[g]) => g \in holds
    /\ pc[g] = "unlock" => g \in holds
    /\ pc[g] = "done" => Op(g) \in {"unlock", "await"} \/ (Op(g) \in {"lock", "try"} /\ g \in holds)
    /\ pc[g] \in {"lock", "lockLoad", "lockCas", "woken", "handoff"} \union Trying => Op(g) \in {"lock", "await"}
    /\ pc[g] \in {"try", "tryCas", "failed"} => Op(g) = "try"
    /\ pc[g] \in {"unlock", "unlockSlow", "unlockCas", "unlockLoad", "add", "wake"} => Op(g) \in {"unlock", "await"}
    /\ pc[g] = "list" => Op(g) = "await"
    /\ pc[g] # "finished"

\* The mutex is locked exactly while one goroutine holds it.
Owner ==
    /\ Locked(state) => \E g \in Gs : holds = {g}
    /\ ~Locked(state) => holds = {}

\* At most one wake-up is under way.  In normal mode the woken bit says so; in
\* starvation mode it is under way exactly while the mutex is not locked.
OneCredit ==
    /\ count <= 1 /\ (count = 1 => Credits = {})
    /\ \A g, h \in Credits : g = h

Mode ==
    IF Starving(state)
    THEN /\ ~Woken(state) /\ (HasCredit <=> ~Locked(state))
         /\ \A g \in Credits : pc[g] \notin {"lockLoad", "lockCas"}
    ELSE /\ HasCredit <=> Woken(state)
         /\ \A g \in Credits : pc[g] \notin {"handoff", "unlockSlow"}

\* The waiters that the word counts.
Exact ==
    Waiters(state) =
        IF Starving(state)
        THEN Cardinality(Queued) + OneIf(Takers)
        ELSE Cardinality(Queued) - count - OneIf(Released)

MutexTypes ==
    /\ state \in Nat /\ old \in [Gs -> Nat] /\ holds \subseteq Gs /\ thrown = FALSE
    /\ awoke \in [Gs -> BOOLEAN] /\ starving \in [Gs -> BOOLEAN]

ProgramTypes == program \in Programs /\ ip \in [Gs -> Nat \ {0}]

WordInv == MutexTypes /\ Owner /\ OneCredit /\ Mode /\ Exact /\ \A g \in Gs : Local(g)
InUse == WordInv /\ \A g \in Gs : InProgram(g)

\* A program that only uses the semaphore leaves the mutex alone.
NoMutex == \A g \in Gs : \A i \in 1 .. Len(program[g]) : program[g][i] \notin MutexOperations
Idle ==
    /\ state = 0 /\ holds = {} /\ thrown = FALSE
    /\ \A g \in Gs : pc[g] \in {"run", "add", "wake", "finished"} \union Trying /\ after[g] \in {"run", "finished"}
    /\ \A g \in Gs : pc[g] \in {"add", "wake"} \union Trying => after[g] = "finished"

MutexInv == ProgramTypes /\ IF NoMutex THEN Idle ELSE InUse

-----------------------------------------------------------------------------
(***************************************************************************)
(* The word: each change of the code touches one field of it.              *)
(***************************************************************************)
LEMMA WordLock ==
    ASSUME NEW s \in Nat, ~Locked(s)
    PROVE  /\ s + mutexLocked \in Nat /\ Locked(s + mutexLocked)
           /\ Woken(s + mutexLocked) <=> Woken(s)
           /\ Starving(s + mutexLocked) <=> Starving(s)
           /\ Waiters(s + mutexLocked) = Waiters(s)
  BY DEF Locked, Woken, Starving, Waiters, mutexLocked, mutexWoken, mutexStarving, Waiter

LEMMA WordUnlock ==
    ASSUME NEW s \in Nat, Locked(s)
    PROVE  /\ s - mutexLocked \in Nat /\ ~Locked(s - mutexLocked)
           /\ Woken(s - mutexLocked) <=> Woken(s)
           /\ Starving(s - mutexLocked) <=> Starving(s)
           /\ Waiters(s - mutexLocked) = Waiters(s)
  BY DEF Locked, Woken, Starving, Waiters, mutexLocked, mutexWoken, mutexStarving, Waiter

LEMMA WordJoin ==
    ASSUME NEW s \in Nat
    PROVE  /\ s + Waiter \in Nat /\ Waiters(s) \in Nat /\ Waiters(s + Waiter) = Waiters(s) + 1
           /\ Locked(s + Waiter) <=> Locked(s)
           /\ Woken(s + Waiter) <=> Woken(s)
           /\ Starving(s + Waiter) <=> Starving(s)
  BY DEF Locked, Woken, Starving, Waiters, mutexLocked, mutexWoken, mutexStarving, Waiter

LEMMA WordLeave ==
    ASSUME NEW s \in Nat, Waiters(s) # 0
    PROVE  /\ s - Waiter \in Nat /\ Waiters(s - Waiter) = Waiters(s) - 1
           /\ Locked(s - Waiter) <=> Locked(s)
           /\ Woken(s - Waiter) <=> Woken(s)
           /\ Starving(s - Waiter) <=> Starving(s)
  BY DEF Locked, Woken, Starving, Waiters, mutexLocked, mutexWoken, mutexStarving, Waiter

LEMMA WordWake ==
    ASSUME NEW s \in Nat, ~Woken(s)
    PROVE  /\ s + mutexWoken \in Nat /\ Woken(s + mutexWoken)
           /\ Locked(s + mutexWoken) <=> Locked(s)
           /\ Starving(s + mutexWoken) <=> Starving(s)
           /\ Waiters(s + mutexWoken) = Waiters(s)
  BY DEF Locked, Woken, Starving, Waiters, mutexLocked, mutexWoken, mutexStarving, Waiter

LEMMA WordUnwake ==
    ASSUME NEW s \in Nat, Woken(s)
    PROVE  /\ s - mutexWoken \in Nat /\ ~Woken(s - mutexWoken)
           /\ Locked(s - mutexWoken) <=> Locked(s)
           /\ Starving(s - mutexWoken) <=> Starving(s)
           /\ Waiters(s - mutexWoken) = Waiters(s)
  BY DEF Locked, Woken, Starving, Waiters, mutexLocked, mutexWoken, mutexStarving, Waiter

LEMMA WordStarve ==
    ASSUME NEW s \in Nat, ~Starving(s)
    PROVE  /\ s + mutexStarving \in Nat /\ Starving(s + mutexStarving)
           /\ Locked(s + mutexStarving) <=> Locked(s)
           /\ Woken(s + mutexStarving) <=> Woken(s)
           /\ Waiters(s + mutexStarving) = Waiters(s)
  BY DEF Locked, Woken, Starving, Waiters, mutexLocked, mutexWoken, mutexStarving, Waiter

LEMMA WordCalm ==
    ASSUME NEW s \in Nat, Starving(s)
    PROVE  /\ s - mutexStarving \in Nat /\ ~Starving(s - mutexStarving)
           /\ Locked(s - mutexStarving) <=> Locked(s)
           /\ Woken(s - mutexStarving) <=> Woken(s)
           /\ Waiters(s - mutexStarving) = Waiters(s)
  BY DEF Locked, Woken, Starving, Waiters, mutexLocked, mutexWoken, mutexStarving, Waiter

-----------------------------------------------------------------------------
(***************************************************************************)
(* A step of g, as the other goroutines see it.                            *)
(***************************************************************************)
Others(g) ==
    \A h \in Gs \ {g} :
      /\ pc'[h] = pc[h] /\ after'[h] = after[h] /\ old'[h] = old[h]
      /\ awoke'[h] = awoke[h] /\ starving'[h] = starving[h]

LEMMA CreditsFrame ==
    ASSUME NEW g \in Gs, Others(g)
    PROVE  \A h \in Gs \ {g} : h \in Credits' <=> h \in Credits
  BY Zenon DEF Others, Credits, Credit

LEMMA QueuedFrame ==
    ASSUME NEW g \in Gs, Others(g)
    PROVE  \A h \in Gs \ {g} : h \in Queued' <=> h \in Queued
  BY Zenon DEF Others, Queued, Acquiring

LEMMA RolesFrame ==
    ASSUME NEW g \in Gs, Others(g)
    PROVE  \A h \in Gs \ {g} : (h \in Takers' <=> h \in Takers) /\ (h \in Released' <=> h \in Released)
  BY Zenon DEF Others, Takers, Released

LEMMA LocalFrame ==
    ASSUME NEW g \in Gs, Others(g), \A h \in Gs : Local(h), Local(g)'
    PROVE  (\A h \in Gs : Local(h))'
<1> SUFFICES ASSUME NEW h \in Gs \ {g}
             PROVE  Local(h)'
  OBVIOUS
<1>1. Local(h)
  OBVIOUS
<1> QED
  BY <1>1, Zenon DEF Others, Local

\* The sets are sets of goroutines.
LEMMA Roles ==
    /\ Credits \subseteq Gs /\ Queued \subseteq Gs /\ Takers \subseteq Gs /\ Released \subseteq Gs
    /\ Credits' \subseteq Gs /\ Queued' \subseteq Gs /\ Takers' \subseteq Gs /\ Released' \subseteq Gs
    /\ Cardinality(Queued) \in Nat /\ Cardinality(Queued') \in Nat
<1>1. Credits \subseteq Gs /\ Queued \subseteq Gs /\ Takers \subseteq Gs /\ Released \subseteq Gs
  BY Zenon DEF Credits, Queued, Acquiring, Takers, Released
<1>2. Credits' \subseteq Gs /\ Queued' \subseteq Gs /\ Takers' \subseteq Gs /\ Released' \subseteq Gs
  BY Zenon DEF Credits, Queued, Acquiring, Takers, Released
<1> QED
  BY <1>1, <1>2, Finite, Zenon

LEMMA SameSet ==
    ASSUME NEW g \in Gs, NEW S \in SUBSET Gs, NEW T \in SUBSET Gs,
           \A h \in Gs \ {g} : h \in T <=> h \in S
    PROVE  /\ (g \in T <=> g \in S) => T = S
           /\ g \in T /\ g \notin S => T = S \union {g}
           /\ g \notin T /\ g \in S => T = S \ {g}
  OBVIOUS

\* A step that leaves the word, the token and the holder alone, and no role of g
\* that the word counts changes.
LEMMA QuietStep ==
    ASSUME WordInv, NEW g \in Gs, Others(g), UNCHANGED <<state, count, holds>>, MutexTypes', Local(g)',
           g \in Credits' <=> g \in Credits, g \in Queued' <=> g \in Queued,
           Starving(state) => (g \in Takers' <=> g \in Takers),
           ~Starving(state) => (g \in Released' <=> g \in Released),
           g \in Credits' /\ pc'[g] \in {"lockLoad", "lockCas"} => ~Starving(state),
           g \in Credits' /\ pc'[g] \in {"handoff", "unlockSlow"} => Starving(state)
    PROVE  WordInv'
<1>1. Credits' = Credits
  BY CreditsFrame, Roles, SameSet, Zenon
<1>2. Queued' = Queued
  BY QueuedFrame, Roles, SameSet, Zenon
<1>3. Starving(state) => Takers' = Takers
  BY RolesFrame, Roles, SameSet
<1>4. ~Starving(state) => Released' = Released
  BY RolesFrame, Roles, SameSet
<1>5. (\A h \in Gs : Local(h))'
  BY LocalFrame, Zenon DEF WordInv
<1>6. Owner'
  BY Zenon DEF WordInv, Owner
<1>7. OneCredit'
  BY <1>1, Zenon DEF WordInv, OneCredit
<1>8. Mode'
  <2>1. HasCredit' <=> HasCredit
    BY <1>1, Zenon DEF HasCredit
  <2>2. \A h \in Credits' : h # g => pc'[h] = pc[h]
    BY Roles, Zenon DEF Others
  <2>3. CASE Starving(state)
    BY <1>1, <2>1, <2>2, <2>3, Zenon DEF WordInv, Mode
  <2>4. CASE ~Starving(state)
    BY <1>1, <2>1, <2>2, <2>4, Zenon DEF WordInv, Mode
  <2> QED
    BY <2>3, <2>4, Zenon
<1>9. Exact'
  BY <1>2, <1>3, <1>4, Zenon DEF WordInv, Exact
<1> QED
  BY <1>5, <1>6, <1>7, <1>8, <1>9, Zenon DEF WordInv

LEMMA RoleOf ==
    ASSUME NEW g \in Gs
    PROVE  /\ g \in Credits <=> Credit(g)
           /\ g \in Queued <=> pc[g] \in Trying /\ after[g] = "woken"
           /\ g \in Takers <=> pc[g] \in {"woken", "handoff"}
           /\ g \in Released <=> pc[g] = "add" /\ after[g] = "done"
  BY Zenon DEF Credits, Queued, Acquiring, Takers, Released, Trying, Under

LEMMA NextRoleOf ==
    ASSUME NEW g \in Gs
    PROVE  /\ g \in Credits' <=> Credit(g)'
           /\ g \in Queued' <=> pc'[g] \in Trying /\ after'[g] = "woken"
           /\ g \in Takers' <=> pc'[g] \in {"woken", "handoff"}
           /\ g \in Released' <=> pc'[g] = "add" /\ after'[g] = "done"
  BY Zenon DEF Credits, Queued, Acquiring, Takers, Released, Trying, Under

-----------------------------------------------------------------------------
(***************************************************************************)
(* Steps of the semaphore.                                                 *)
(***************************************************************************)
LEMMA SemaOthers ==
    ASSUME SemaInv, NEW g \in Gs, NEW l, Goto(g, l), UNCHANGED after, UNCHANGED mutexVars
    PROVE  Others(g) /\ pc'[g] = l /\ after'[g] = after[g] /\ old' = old /\ awoke' = awoke /\ starving' = starving
  BY Zenon DEF Goto, Others, mutexVars, SemaInv, SemaTypes

\* A goroutine that acquires goes on without a token.
LEMMA TryingWord ==
    ASSUME SemaInv, WordInv, NEW g \in Gs, pc[g] \in Trying, NEW l \in Trying, Goto(g, l),
           UNCHANGED after, UNCHANGED mutexVars, UNCHANGED count
    PROVE  WordInv'
<1>1. Others(g) /\ pc'[g] = l /\ after'[g] = after[g] /\ awoke' = awoke /\ starving' = starving
  BY SemaOthers, Zenon
<1>2. ~Credit(g) /\ ~Credit(g)'
  BY <1>1, Zenon DEF Credit, Trying, Under
<1>3. Local(g)'
  BY <1>1, Zenon DEF WordInv, Local, Trying, Under
<1>4. MutexTypes' /\ UNCHANGED <<state, count, holds>>
  BY Zenon DEF mutexVars, WordInv, MutexTypes
<1>5. /\ g \notin Takers /\ g \notin Takers' /\ g \notin Released /\ g \notin Released'
      /\ g \in Queued' <=> g \in Queued
      /\ g \notin Credits' /\ g \notin Credits
  BY <1>1, <1>2, RoleOf, NextRoleOf, Zenon DEF Trying, Under
<1> QED
  BY <1>1, <1>3, <1>4, <1>5, QuietStep, Zenon

\* A token is taken: the goroutine is no longer queued, and the wake-up is its own.
LEMMA TakenWord ==
    ASSUME SemaInv, WordInv, NEW g \in Gs, pc[g] \in Trying, count # 0, count' = count - 1,
           Goto(g, after[g]), UNCHANGED after, UNCHANGED mutexVars
    PROVE  WordInv'
<1>1. after[g] = "woken"
  BY Zenon DEF WordInv, Local
<1>2. Others(g) /\ pc'[g] = "woken" /\ after'[g] = "woken" /\ awoke' = awoke /\ starving' = starving
  BY <1>1, SemaOthers, Zenon
<1>3. count = 1 /\ count' = 0 /\ Credits = {}
  BY DEF WordInv, OneCredit, SemaInv, SemaTypes
<1>4. Credits' = {g}
  <2>1. g \in Credits'
    BY <1>2, NextRoleOf, Zenon DEF Credit
  <2> QED
    BY <1>2, <1>3, <2>1, CreditsFrame, Roles, Zenon
<1>5. Queued' = Queued \ {g} /\ g \in Queued
  <2>1. g \in Queued /\ g \notin Queued'
    BY <1>1, <1>2, RoleOf, NextRoleOf, Zenon DEF Trying, Under
  <2> QED
    BY <1>2, <2>1, QueuedFrame, Roles, SameSet, Zenon
<1>6. Takers = {} /\ Released = {}
  BY <1>3, Roles, RoleOf, Zenon DEF Credit
<1>7. Takers' # {} /\ Released' = {}
  <2>1. g \in Takers' /\ g \notin Released'
    BY <1>2, NextRoleOf, Zenon
  <2> QED
    BY <1>2, <1>6, <2>1, RolesFrame, Roles, Zenon
<1>8. Cardinality(Queued') = Cardinality(Queued) - 1
  BY <1>5, Roles, Minus, Zenon
<1>9. Local(g)'
  BY <1>2, Zenon DEF Local, Trying, Under
<1>10. UNCHANGED <<state, old, awoke, starving, holds, thrown>>
  BY Zenon DEF mutexVars
<1>11. MutexTypes' /\ Owner' /\ OneCredit'
  BY <1>3, <1>4, <1>10 DEF WordInv, MutexTypes, Owner, OneCredit
<1>12. Mode'
  <2>1. HasCredit /\ HasCredit'
    BY <1>3, <1>4, Zenon DEF HasCredit
  <2> QED
    BY <1>2, <1>4, <1>10, <2>1, Zenon DEF WordInv, Mode
<1>13. Exact'
  <2>1. OneIf(Takers) = 0 /\ OneIf(Released) = 0 /\ OneIf(Takers') = 1 /\ OneIf(Released') = 0
    BY <1>6, <1>7, Zenon DEF OneIf
  <2> QED
    BY <1>3, <1>8, <1>10, <2>1, Roles DEF WordInv, Exact
<1> QED
  BY <1>2, <1>9, <1>11, <1>12, <1>13, LocalFrame, Zenon DEF WordInv

\* A token is brought: the release of it becomes the token.
LEMMA AddWord ==
    ASSUME SemaInv, WordInv, NEW g \in Gs, Add(g), UNCHANGED mutexVars
    PROVE  WordInv'
<1>1. pc[g] = "add" /\ after[g] = "done" /\ Goto(g, "wake") /\ UNCHANGED after
  BY Zenon DEF Add, At, WordInv, Local
<1>2. Others(g) /\ pc'[g] = "wake" /\ after'[g] = "done" /\ awoke' = awoke /\ starving' = starving
  BY <1>1, SemaOthers, Zenon
<1>3. g \in Credits /\ g \in Released
  BY <1>1, RoleOf, Zenon DEF Credit
<1>4. Credits = {g} /\ count = 0 /\ count' = 1
  BY <1>3, Roles DEF WordInv, OneCredit, SemaInv, SemaTypes, Add
<1>5. Credits' = {}
  <2>1. g \notin Credits'
    BY <1>2, NextRoleOf, Zenon DEF Credit
  <2> QED
    BY <1>2, <1>4, <2>1, CreditsFrame, Roles, Zenon
<1>6. Queued' = Queued
  <2>1. g \notin Queued /\ g \notin Queued'
    BY <1>1, <1>2, RoleOf, NextRoleOf, Zenon DEF Trying, Under
  <2> QED
    BY <1>2, <2>1, QueuedFrame, Roles, SameSet, Zenon
<1>7. Takers = {} /\ Released' = {} /\ Takers' = {}
  <2>1. \A h \in Gs : h \in Takers \/ h \in Released => h = g
    BY <1>4, RoleOf, Zenon DEF Credit
  <2>2. g \notin Takers /\ g \notin Takers' /\ g \notin Released'
    BY <1>1, <1>2, RoleOf, NextRoleOf, Zenon
  <2> QED
    BY <1>2, <2>1, <2>2, RolesFrame, Roles, Zenon
<1>8. Local(g)'
  BY <1>1, <1>2, Zenon DEF WordInv, Local, Trying, Under
<1>9. UNCHANGED <<state, old, awoke, starving, holds, thrown>>
  BY Zenon DEF mutexVars
<1>10. MutexTypes' /\ Owner' /\ OneCredit'
  BY <1>4, <1>5, <1>9 DEF WordInv, MutexTypes, Owner, OneCredit
<1>11. Mode'
  <2>1. HasCredit /\ HasCredit'
    BY <1>4, Zenon DEF HasCredit
  <2> QED
    BY <1>5, <1>9, <2>1, Zenon DEF WordInv, Mode
<1>12. Exact'
  <2>1. OneIf(Takers) = 0 /\ OneIf(Released) = 1 /\ OneIf(Takers') = 0 /\ OneIf(Released') = 0
    BY <1>3, <1>7, Zenon DEF OneIf
  <2> QED
    BY <1>4, <1>6, <1>9, <2>1, Roles DEF WordInv, Exact
<1> QED
  BY <1>2, <1>8, <1>10, <1>11, <1>12, LocalFrame, Zenon DEF WordInv

\* A release is over.
LEMMA WakeWord ==
    ASSUME SemaInv, WordInv, NEW g \in Gs, pc[g] = "wake", Goto(g, after[g]),
           UNCHANGED after, UNCHANGED mutexVars, UNCHANGED count
    PROVE  WordInv'
<1>1. after[g] = "done"
  BY Zenon DEF WordInv, Local
<1>2. Others(g) /\ pc'[g] = "done" /\ after'[g] = "done" /\ awoke' = awoke /\ starving' = starving
  BY <1>1, SemaOthers, Zenon
<1>3. ~Credit(g) /\ ~Credit(g)'
  BY <1>2, Zenon DEF Credit
<1>4. Local(g)'
  BY <1>2, Zenon DEF WordInv, Local, Trying, Under
<1>5. MutexTypes' /\ UNCHANGED <<state, count, holds>>
  BY Zenon DEF mutexVars, WordInv, MutexTypes
<1>6. /\ g \notin Takers /\ g \notin Takers' /\ g \notin Released /\ g \notin Released'
      /\ g \notin Queued /\ g \notin Queued' /\ g \notin Credits' /\ g \notin Credits
  BY <1>2, <1>3, RoleOf, NextRoleOf, Zenon DEF Trying, Under
<1> QED
  BY <1>2, <1>4, <1>5, <1>6, QuietStep, Zenon

LEMMA SemaWord ==
    ASSUME SemaInv, WordInv, NEW g \in Gs, SemaStep(g), UNCHANGED mutexVars
    PROVE  WordInv'
<1>1. /\ {"load", "cas", "sleep", "loadLocked", "casLocked", "condWait", "relock"} \subseteq Trying
  BY Zenon DEF Trying, Under
<1>2. CASE Load(g) \/ WaitUint32(g) \/ LockState(g) \/ LoadLocked(g) \/ CondWait(g) \/ Relock(g)
  <2>1. pc[g] \in Trying /\ (\E l \in Trying : Goto(g, l)) /\ UNCHANGED after /\ UNCHANGED count
    BY <1>1, <1>2, Zenon DEF At, Load, WaitUint32, LockState, LoadLocked, CondWait, Relock
  <2> QED
    BY <2>1, TryingWord, Zenon
<1>3. CASE Cas(g)
  <2>1. pc[g] \in Trying /\ UNCHANGED after /\ (count = seen[g] => count # 0)
    BY <1>1, <1>3, Zenon DEF Cas, At, SemaInv, SemaTypes
  <2>2. CASE count = seen[g]
    BY <1>3, <2>1, <2>2, TakenWord, Zenon DEF Cas
  <2>3. CASE count # seen[g]
    BY <1>1, <1>3, <2>1, <2>3, TryingWord, Zenon DEF Cas
  <2> QED
    BY <2>2, <2>3, Zenon
<1>4. CASE CasLocked(g)
  <2>1. pc[g] \in Trying /\ UNCHANGED after /\ (count = seen[g] => count # 0)
    BY <1>1, <1>4, Zenon DEF CasLocked, At, SemaInv, SemaTypes
  <2>2. CASE count = seen[g]
    BY <1>4, <2>1, <2>2, TakenWord, Zenon DEF CasLocked
  <2>3. CASE count # seen[g]
    BY <1>1, <1>4, <2>1, <2>3, TryingWord, Zenon DEF CasLocked
  <2> QED
    BY <2>2, <2>3, Zenon
<1>5. CASE Add(g)
  BY <1>5, AddWord, Zenon
<1>6. CASE WakeUint32(g) \/ Signal(g)
  BY <1>6, WakeWord, Zenon DEF WakeUint32, Signal, At
<1> QED
  BY <1>2, <1>3, <1>4, <1>5, <1>6, Zenon DEF SemaStep

-----------------------------------------------------------------------------
(***************************************************************************)
(* Steps of the mutex.                                                     *)
(***************************************************************************)
\* A goroutine without a wake-up goes on, outside the semaphore.
LEMMA PlainStep ==
    ASSUME WordInv, NEW g \in Gs, Others(g), UNCHANGED <<state, count, holds>>, MutexTypes', Local(g)',
           ~Credit(g), ~Credit(g)', pc[g] \notin Trying, pc'[g] \notin Trying
    PROVE  WordInv'
<1>1. /\ g \notin Takers /\ g \notin Takers' /\ g \notin Released /\ g \notin Released'
      /\ g \notin Queued /\ g \notin Queued' /\ g \notin Credits' /\ g \notin Credits
  BY RoleOf, NextRoleOf, Zenon DEF Credit
<1> QED
  BY <1>1, QuietStep, Zenon

\* A goroutine locks that has no wake-up, or loses it with the woken bit.
LEMMA LockedWord ==
    ASSUME WordInv, NEW g \in Gs, Others(g), MutexTypes', Local(g)', UNCHANGED count,
           ~Starving(state), ~Starving(state'), ~Locked(state), Locked(state'),
           Waiters(state') = Waiters(state), holds' = holds \union {g},
           Woken(state') <=> Woken(state) /\ ~Credit(g),
           pc[g] \notin Trying \union {"add"}, pc'[g] = "done"
    PROVE  WordInv'
<1>1. ~Credit(g)'
  BY Zenon DEF Credit
<1>2. g \notin Queued /\ g \notin Queued' /\ g \notin Released /\ g \notin Released' /\ g \notin Credits'
  BY <1>1, RoleOf, NextRoleOf, Zenon DEF Trying, Under
<1>3. Queued' = Queued /\ Released' = Released
  BY <1>2, QueuedFrame, RolesFrame, Roles, SameSet
<1>4. Credits' = Credits \ {g}
  BY <1>2, CreditsFrame, Roles, Zenon
<1>5. Owner'
  BY Zenon DEF WordInv, Owner
<1>6. OneCredit'
  BY <1>4, Zenon DEF WordInv, OneCredit
<1>7. HasCredit' <=> HasCredit /\ ~Credit(g)
  <2>1. CASE Credit(g)
    <3>1. g \in Credits
      BY <2>1, RoleOf, Zenon
    <3>2. Credits' = {} /\ count # 1
      BY <1>4, <3>1, Zenon DEF WordInv, OneCredit
    <3> QED
      BY <2>1, <3>2, Zenon DEF HasCredit
  <2>2. CASE ~Credit(g)
    BY <1>4, <2>2, RoleOf, Zenon DEF HasCredit
  <2> QED
    BY <2>1, <2>2, Zenon
<1>8. Mode'
  <2>1. \A h \in Credits' : h \in Credits /\ pc'[h] = pc[h]
    BY <1>4, Roles, Zenon DEF Others
  <2> QED
    BY <1>7, <2>1, Zenon DEF WordInv, Mode
<1>9. Exact'
  BY <1>3, Zenon DEF WordInv, Exact
<1> QED
  BY <1>5, <1>6, <1>8, <1>9, LocalFrame, Zenon DEF WordInv

LEMMA ForgetFacts ==
    ASSUME SemaInv, MutexTypes, NEW g \in Gs, NEW l, Forget(g), Goto(g, l),
           \A h \in Gs \ {g} : after'[h] = after[h]
    PROVE  /\ Others(g) /\ pc'[g] = l /\ ~awoke'[g] /\ ~starving'[g]
           /\ old' \in [Gs -> Nat] /\ awoke' \in [Gs -> BOOLEAN] /\ starving' \in [Gs -> BOOLEAN]
<1>1. old' \in [Gs -> Nat] /\ awoke' \in [Gs -> BOOLEAN] /\ starving' \in [Gs -> BOOLEAN]
  BY Zenon DEF Forget, MutexTypes
<1>2. pc'[g] = l /\ ~awoke'[g] /\ ~starving'[g]
  BY Zenon DEF Forget, Goto, SemaInv, SemaTypes, MutexTypes
<1>3. Others(g)
  BY Zenon DEF Forget, Goto, SemaInv, SemaTypes, MutexTypes, Others
<1> QED
  BY <1>1, <1>2, <1>3, Zenon

LEMMA GetsFacts ==
    ASSUME SemaInv, MutexTypes, NEW g \in Gs, Gets(g), UNCHANGED after
    PROVE  /\ Others(g) /\ pc'[g] = "done" /\ ~awoke'[g] /\ ~starving'[g]
           /\ old' \in [Gs -> Nat] /\ holds' \subseteq Gs
           /\ awoke' \in [Gs -> BOOLEAN] /\ starving' \in [Gs -> BOOLEAN]
           /\ Local(g)'
<1>1. /\ Others(g) /\ pc'[g] = "done" /\ ~awoke'[g] /\ ~starving'[g]
      /\ old' \in [Gs -> Nat] /\ holds' \subseteq Gs
      /\ awoke' \in [Gs -> BOOLEAN] /\ starving' \in [Gs -> BOOLEAN]
  BY ForgetFacts, Zenon DEF Gets, MutexTypes
<1>2. Local(g)'
  BY <1>1, Zenon DEF Local, Trying, Under
<1> QED
  BY <1>1, <1>2, Zenon

LEMMA ZeroWord == ~Locked(0) /\ ~Starving(0) /\ ~Woken(0) /\ Waiters(0) = 0
  BY DEF Locked, Woken, Starving, Waiters, mutexWoken, mutexStarving, Waiter

LEMMA LockWord ==
    ASSUME SemaInv, WordInv, NEW g \in Gs, Lock(g)
    PROVE  WordInv'
<1>1. pc[g] = "lock" /\ ~awoke[g] /\ ~starving[g] /\ UNCHANGED <<count, after, thrown>> /\ MutexTypes
  BY Zenon DEF Lock, semaVars, WordInv, Local, Trying, Under
<1>2. CASE state = 0
  <2>1. state' = state + mutexLocked /\ Gets(g)
    BY <1>2 DEF Lock, mutexLocked
  <2>2. ~Locked(state) /\ ~Starving(state) /\ state \in Nat
    BY <1>2, ZeroWord, Zenon
  <2>3. Locked(state') /\ ~Starving(state') /\ (Woken(state') <=> Woken(state)) /\ Waiters(state') = Waiters(state) /\ state' \in Nat
    BY <2>1, <2>2, WordLock, Zenon
  <2>4. MutexTypes'
    BY <1>1, <2>1, <2>3, GetsFacts, Zenon DEF MutexTypes
  <2>5. ~Credit(g)
    BY <1>1, Zenon DEF Credit
  <2> QED
    BY <1>1, <2>1, <2>2, <2>3, <2>4, <2>5, GetsFacts, LockedWord, Zenon DEF Gets, Trying, Under
<1>3. CASE state # 0
  <2>1. Goto(g, "lockLoad") /\ UNCHANGED <<state, old, awoke, starving, holds>>
    BY <1>3, Zenon DEF Lock
  <2>2. Others(g) /\ pc'[g] = "lockLoad" /\ MutexTypes'
    BY <1>1, <2>1, Zenon DEF Goto, SemaInv, SemaTypes, MutexTypes, Others
  <2>3. Local(g)' /\ ~Credit(g) /\ ~Credit(g)' /\ pc[g] \notin Trying /\ pc'[g] \notin Trying
    BY <1>1, <2>1, <2>2, Zenon DEF Local, Credit, Trying, Under
  <2> QED
    BY <1>1, <2>1, <2>2, <2>3, PlainStep, Zenon
<1> QED
  BY <1>2, <1>3, Zenon

\* A woken goroutine that reads the word finds the woken bit: the mutex is not in
\* starvation mode while such a goroutine is about.
LEMMA LockLoadWord ==
    ASSUME SemaInv, WordInv, NEW g \in Gs, LockLoad(g)
    PROVE  WordInv'
<1>1. pc[g] = "lockLoad" /\ UNCHANGED <<state, awoke, starving, holds, thrown, count, after>> /\ MutexTypes /\ Local(g)
  BY Zenon DEF LockLoad, semaVars, WordInv
<1>2. Others(g) /\ pc'[g] = "lockCas" /\ MutexTypes' /\ old'[g] = state
  BY <1>1, Zenon DEF LockLoad, Remember, Goto, SemaInv, SemaTypes, MutexTypes, Others
<1>3. Credit(g)' <=> Credit(g)
  BY <1>1, <1>2, Zenon DEF Credit
<1>4. Credit(g) => ~Starving(state) /\ Woken(state)
  <2> SUFFICES ASSUME Credit(g)
               PROVE  ~Starving(state) /\ Woken(state)
    OBVIOUS
  <2>1. g \in Credits /\ HasCredit
    BY RoleOf, Zenon DEF HasCredit
  <2> QED
    BY <1>1, <2>1, Zenon DEF WordInv, Mode
<1>5. awoke[g] => Woken(state)
  BY <1>1, <1>4, Zenon DEF Credit
<1>6. Local(g)'
  BY <1>1, <1>2, <1>5, Zenon DEF Local, Trying, Under
<1>7. /\ g \notin Takers /\ g \notin Takers' /\ g \notin Released /\ g \notin Released'
      /\ g \notin Queued /\ g \notin Queued' /\ (g \in Credits' <=> g \in Credits)
      /\ g \in Credits => ~Starving(state)
  BY <1>1, <1>2, <1>3, <1>4, RoleOf, NextRoleOf, Zenon DEF Trying, Under
<1> QED
  BY <1>1, <1>2, <1>6, <1>7, QuietStep, Zenon

LEMMA TryLockWord ==
    ASSUME SemaInv, WordInv, NEW g \in Gs, TryLock(g)
    PROVE  WordInv'
<1>1. pc[g] = "try" /\ UNCHANGED <<state, awoke, starving, holds, thrown, count, after>> /\ MutexTypes /\ Local(g)
  BY Zenon DEF TryLock, semaVars, WordInv
<1>2. /\ Others(g) /\ MutexTypes'
      /\ pc'[g] = "failed" \/ (pc'[g] = "tryCas" /\ old'[g] = state /\ ~Locked(state) /\ ~Starving(state))
  <2>1. CASE Locked(state) \/ Starving(state)
    <3>1. Goto(g, "failed") /\ UNCHANGED old
      BY <2>1, Zenon DEF TryLock
    <3> QED
      BY <1>1, <3>1, Zenon DEF Goto, SemaInv, SemaTypes, MutexTypes, Others
  <2>2. CASE ~Locked(state) /\ ~Starving(state)
    <3>1. Goto(g, "tryCas") /\ Remember(g)
      BY <2>2, Zenon DEF TryLock
    <3>2. old' \in [Gs -> Nat] /\ old'[g] = state /\ \A h \in Gs \ {g} : old'[h] = old[h]
      BY <1>1, <3>1, Zenon DEF Remember, MutexTypes
    <3>3. pc'[g] = "tryCas" /\ \A h \in Gs \ {g} : pc'[h] = pc[h]
      BY <3>1, Zenon DEF Goto, SemaInv, SemaTypes
    <3> QED
      BY <1>1, <2>2, <3>2, <3>3, Zenon DEF MutexTypes, Others
  <2> QED
    BY <2>1, <2>2, Zenon
<1>3. Local(g)' /\ ~Credit(g) /\ ~Credit(g)' /\ pc[g] \notin Trying /\ pc'[g] \notin Trying
  BY <1>1, <1>2, Zenon DEF Local, Credit, Trying, Under
<1> QED
  BY <1>1, <1>2, <1>3, PlainStep, Zenon

LEMMA TryLockCasWord ==
    ASSUME SemaInv, WordInv, NEW g \in Gs, TryLockCas(g)
    PROVE  WordInv'
<1>1. pc[g] = "tryCas" /\ UNCHANGED <<thrown, count, after>> /\ MutexTypes /\ Local(g)
  BY Zenon DEF TryLockCas, semaVars, WordInv
<1>2. ~Credit(g) /\ pc[g] \notin Trying \union {"add"}
  BY <1>1, Zenon DEF Credit, Trying, Under
<1>3. CASE state = old[g]
  <2>1. state' = state + mutexLocked /\ Gets(g)
    BY <1>3, Zenon DEF TryLockCas
  <2>2. ~Locked(state) /\ ~Starving(state) /\ state \in Nat
    BY <1>1, <1>3, Zenon DEF Local, MutexTypes
  <2>3. Locked(state') /\ ~Starving(state') /\ (Woken(state') <=> Woken(state)) /\ Waiters(state') = Waiters(state) /\ state' \in Nat
    BY <2>1, <2>2, WordLock, Zenon
  <2>4. MutexTypes'
    BY <1>1, <2>1, <2>3, GetsFacts, Zenon DEF MutexTypes
  <2> QED
    BY <1>1, <1>2, <2>1, <2>2, <2>3, <2>4, GetsFacts, LockedWord, Zenon DEF Gets
<1>4. CASE state # old[g]
  <2>1. Others(g) /\ MutexTypes' /\ pc'[g] = "failed" /\ ~awoke'[g] /\ ~starving'[g] /\ UNCHANGED <<state, holds>>
    BY <1>1, <1>4, ForgetFacts, Zenon DEF TryLockCas, MutexTypes
  <2>2. Local(g)' /\ ~Credit(g)' /\ pc'[g] \notin Trying
    BY <2>1, Zenon DEF Local, Credit, Trying, Under
  <2> QED
    BY <1>1, <1>2, <2>1, <2>2, PlainStep, Zenon
<1> QED
  BY <1>3, <1>4, Zenon

\* Awake with a token.  In starvation mode the mutex is not locked, not marked as
\* woken, and counts this goroutine: the code does not throw.
LEMMA LockWokenWord ==
    ASSUME SemaInv, WordInv, NEW g \in Gs, LockWoken(g)
    PROVE  WordInv'
<1>1. pc[g] = "woken" /\ UNCHANGED count /\ MutexTypes /\ Credit(g) /\ g \in Takers /\ g \in Credits
  BY RoleOf, Zenon DEF LockWoken, WordInv, Credit
<1>2. HasCredit /\ count = 0 /\ Released = {}
  <2>1. count = 0 /\ HasCredit
    BY <1>1 DEF WordInv, OneCredit, HasCredit, SemaInv, SemaTypes
  <2>2. \A h \in Released : h \in Credits
    BY RoleOf, Roles, Zenon DEF Credit
  <2> QED
    BY <1>1, <2>1, <2>2, RoleOf, Roles DEF WordInv, OneCredit
<1>3. Starving(state) => ~Locked(state) /\ ~Woken(state) /\ Waiters(state) # 0
  <2>1. OneIf(Takers) = 1
    BY <1>1, Zenon DEF OneIf
  <2> QED
    BY <1>2, <2>1, Roles DEF WordInv, Mode, Exact
<1>4. /\ \E b \in {starving[g], TRUE} : starving' = [starving EXCEPT ![g] = b]
      /\ Remember(g)
      /\ awoke' = [awoke EXCEPT ![g] = ~Starving(state)]
      /\ Goto(g, IF Starving(state) THEN "handoff" ELSE "lockCas")
      /\ after' = [after EXCEPT ![g] = "run"]
      /\ UNCHANGED <<state, holds, thrown>>
  BY <1>3, Zenon DEF LockWoken
<1>5. old' \in [Gs -> Nat] /\ awoke' \in [Gs -> BOOLEAN] /\ starving' \in [Gs -> BOOLEAN]
  BY <1>1, <1>4, Zenon DEF MutexTypes, Remember
<1>6. MutexTypes'
  BY <1>1, <1>4, <1>5, Zenon DEF MutexTypes
<1>7. Others(g)
  BY <1>1, <1>4, Zenon DEF Others, Remember, Goto, SemaInv, SemaTypes, MutexTypes
<1>8. /\ old'[g] = state /\ (awoke'[g] <=> ~Starving(state)) /\ after'[g] = "run"
      /\ pc'[g] = IF Starving(state) THEN "handoff" ELSE "lockCas"
  BY <1>1, <1>4, Zenon DEF Remember, Goto, SemaInv, SemaTypes, MutexTypes
<1>9. ~Starving(state) => Woken(state)
  BY <1>2, Zenon DEF WordInv, Mode
<1>10. Local(g)'
  BY <1>8, <1>9, Zenon DEF Local, Trying, Under
<1>11. Credit(g)'
  BY <1>8, Zenon DEF Credit
<1>12. /\ g \notin Queued /\ g \notin Queued' /\ g \in Credits' /\ (Starving(state) => g \in Takers')
       /\ g \notin Released /\ g \notin Released'
  BY <1>1, <1>8, <1>11, RoleOf, NextRoleOf, Zenon DEF Trying, Under
<1> QED
  BY <1>1, <1>4, <1>6, <1>7, <1>8, <1>10, <1>12, QuietStep, Zenon

\* The mutex is handed over: it was not locked, and this is the only wake-up.
LEMMA LockHandoffWord ==
    ASSUME SemaInv, WordInv, NEW g \in Gs, LockHandoff(g)
    PROVE  WordInv'
<1>1. pc[g] = "handoff" /\ UNCHANGED <<count, after, thrown>> /\ MutexTypes /\ Gets(g) /\ g \in Credits /\ g \in Takers
  BY RoleOf, Zenon DEF LockHandoff, semaVars, WordInv, Credit
<1>2. count = 0 /\ Credits = {g} /\ Starving(state) /\ ~Woken(state) /\ ~Locked(state) /\ holds = {}
  <2>1. count = 0 /\ Credits = {g} /\ HasCredit
    BY <1>1, Roles DEF WordInv, OneCredit, HasCredit, SemaInv, SemaTypes
  <2> QED
    BY <1>1, <2>1, Zenon DEF WordInv, Mode, Owner
<1>3. Takers = {g} /\ Released = {}
  BY <1>1, <1>2, Roles, RoleOf, Zenon DEF Credit
<1>4. Waiters(state) = Cardinality(Queued) + 1 /\ Waiters(state) # 0
  BY <1>2, <1>3, Roles DEF WordInv, Exact, OneIf
<1>5. /\ Others(g) /\ pc'[g] = "done" /\ Local(g)'
  BY <1>1, GetsFacts, Zenon
<1>6. ~Credit(g)' /\ g \notin Queued /\ g \notin Queued' /\ g \notin Takers' /\ g \notin Released' /\ g \notin Credits'
  BY <1>1, <1>5, RoleOf, NextRoleOf, Zenon DEF Credit, Trying, Under
<1>7. Credits' = {} /\ Takers' = {} /\ Released' = {} /\ Queued' = Queued
  BY <1>2, <1>3, <1>5, <1>6, CreditsFrame, RolesFrame, QueuedFrame, Roles, SameSet
<1> DEFINE s == state + mutexLocked
           t == s - Waiter
<1>8. s \in Nat /\ Locked(s) /\ ~Woken(s) /\ Starving(s) /\ Waiters(s) = Waiters(state)
  BY <1>1, <1>2, WordLock, Zenon DEF MutexTypes
<1>9. t \in Nat /\ Locked(t) /\ ~Woken(t) /\ Starving(t) /\ Waiters(t) = Cardinality(Queued)
  <2> HIDE DEF s
  <2> QED
    BY <1>4, <1>8, WordLeave, Roles
<1>10. state' \in Nat /\ Locked(state') /\ ~Woken(state') /\ Waiters(state') = Cardinality(Queued)
  <2>1. state \in Nat
    BY <1>1, Zenon DEF MutexTypes
  <2>2. CASE LeavesStarvation(g)
    <3>1. state' = t - mutexStarving
      BY <2>1, <2>2 DEF LockHandoff, Bit, mutexLocked, mutexStarving, Waiter
    <3> HIDE DEF t
    <3> QED
      BY <1>9, <3>1, WordCalm, Zenon
  <2>3. CASE ~LeavesStarvation(g)
    <3>1. state' = t
      BY <2>1, <2>3 DEF LockHandoff, Bit, mutexLocked, Waiter
    <3> QED
      BY <1>9, <3>1, Zenon
  <2> QED
    BY <2>2, <2>3, Zenon
<1>11. MutexTypes'
  BY <1>1, <1>10, GetsFacts, Zenon DEF MutexTypes
<1>12. holds' = {g}
  BY <1>1, <1>2, Zenon DEF Gets
<1>13. Owner' /\ OneCredit'
  BY <1>1, <1>2, <1>7, <1>10, <1>12 DEF Owner, OneCredit
<1>14. Mode'
  BY <1>1, <1>2, <1>7, <1>10 DEF Mode, HasCredit
<1>15. Exact'
  BY <1>1, <1>2, <1>7, <1>10, Roles DEF Exact, OneIf
<1> QED
  BY <1>5, <1>11, <1>13, <1>14, <1>15, LocalFrame, Zenon DEF WordInv

\* A woken goroutine works from a word with the woken bit, and in normal mode: the
\* code does not throw, and clearing the bit is exact.
LEMMA LockCasFacts ==
    ASSUME SemaInv, WordInv, NEW g \in Gs, pc[g] = "lockCas"
    PROVE  /\ g \in Credits <=> awoke[g]
           /\ awoke[g] => Woken(old[g]) /\ ~Starving(state) /\ count = 0 /\ Credits = {g}
           /\ starving[g] => awoke[g]
<1>1. g \in Credits <=> awoke[g]
  BY RoleOf, Zenon DEF Credit
<1>2. awoke[g] => Woken(old[g])
  BY Zenon DEF WordInv, Local
<1>3. starving[g] => awoke[g]
  BY Zenon DEF WordInv, Local
<1>4. awoke[g] => ~Starving(state)
  BY <1>1, Zenon DEF WordInv, Mode
<1>5. awoke[g] => count = 0 /\ Credits = {g}
  BY <1>1, Roles DEF WordInv, OneCredit, SemaInv, SemaTypes
<1> QED
  BY <1>1, <1>2, <1>3, <1>4, <1>5, Zenon


\* The new word of lockSlow: the mutex locked or one more waiter, starvation mode
\* on request, and the woken bit cleared by a woken goroutine.
NewOf(o, w, a) ==
    o + Bit(~Starving(o) /\ ~Locked(o), mutexLocked) + Bit(Locked(o) \/ Starving(o), Waiter)
      + Bit(w /\ Locked(o) /\ ~Starving(o), mutexStarving) - Bit(a, mutexWoken)

LEMMA NewWord ==
    ASSUME NEW o \in Nat, NEW w \in BOOLEAN, NEW a \in BOOLEAN, a => Woken(o)
    PROVE  /\ NewOf(o, w, a) \in Nat
           /\ Locked(NewOf(o, w, a)) <=> Locked(o) \/ ~Starving(o)
           /\ Starving(NewOf(o, w, a)) <=> Starving(o) \/ (w /\ Locked(o))
           /\ Woken(NewOf(o, w, a)) <=> Woken(o) /\ ~a
           /\ Waiters(NewOf(o, w, a)) = IF Locked(o) \/ Starving(o) THEN Waiters(o) + 1 ELSE Waiters(o)
<1> DEFINE n1 == IF ~Starving(o) /\ ~Locked(o) THEN o + mutexLocked ELSE o
           n2 == IF Locked(o) \/ Starving(o) THEN n1 + Waiter ELSE n1
           n3 == IF w /\ Locked(o) /\ ~Starving(o) THEN n2 + mutexStarving ELSE n2
           n4 == IF a THEN n3 - mutexWoken ELSE n3
<1>1. /\ n1 \in Nat /\ (Locked(n1) <=> Locked(o) \/ ~Starving(o)) /\ (Starving(n1) <=> Starving(o))
      /\ (Woken(n1) <=> Woken(o)) /\ Waiters(n1) = Waiters(o)
  BY WordLock, Zenon
<1>2. /\ n2 \in Nat /\ (Locked(n2) <=> Locked(o) \/ ~Starving(o)) /\ (Starving(n2) <=> Starving(o))
      /\ (Woken(n2) <=> Woken(o))
      /\ Waiters(n2) = IF Locked(o) \/ Starving(o) THEN Waiters(o) + 1 ELSE Waiters(o)
  <2> HIDE DEF n1
  <2> QED
    BY <1>1, WordJoin, Zenon
<1>3. /\ n3 \in Nat /\ (Locked(n3) <=> Locked(o) \/ ~Starving(o))
      /\ (Starving(n3) <=> Starving(o) \/ (w /\ Locked(o)))
      /\ (Woken(n3) <=> Woken(o)) /\ Waiters(n3) = Waiters(n2)
  <2> HIDE DEF n2
  <2> QED
    BY <1>2, WordStarve, Zenon
<1>4. /\ n4 \in Nat /\ (Locked(n4) <=> Locked(o) \/ ~Starving(o))
      /\ (Starving(n4) <=> Starving(o) \/ (w /\ Locked(o)))
      /\ (Woken(n4) <=> Woken(o) /\ ~a) /\ Waiters(n4) = Waiters(n2)
  <2> HIDE DEF n2, n3
  <2> QED
    BY <1>3, WordUnwake, Zenon
<1>5. n4 = NewOf(o, w, a)
  BY DEF NewOf, Bit, mutexLocked, Waiter, mutexStarving, mutexWoken
<1> HIDE DEF n2, n4
<1> QED
  BY <1>2, <1>4, <1>5, Zenon

LEMMA NewStateWord ==
    ASSUME MutexTypes, NEW g \in Gs, awoke[g] => Woken(old[g]), state = old[g]
    PROVE  /\ NewState(g) \in Nat
           /\ Locked(NewState(g)) <=> Locked(state) \/ ~Starving(state)
           /\ Starving(NewState(g)) <=> Starving(state) \/ (starving[g] /\ Locked(state))
           /\ Woken(NewState(g)) <=> Woken(state) /\ ~awoke[g]
           /\ Waiters(NewState(g)) = IF Locked(state) \/ Starving(state) THEN Waiters(state) + 1 ELSE Waiters(state)
<1>1. old[g] \in Nat /\ awoke[g] \in BOOLEAN /\ starving[g] \in BOOLEAN
  BY Zenon DEF MutexTypes
<1>2. NewState(g) = NewOf(old[g], starving[g], awoke[g])
  BY Zenon DEF NewState, NewOf
<1> QED
  BY <1>1, <1>2, NewWord

\* The compare-and-swap failed: from the start, with the wake-up it has.
LEMMA LockRetryWord ==
    ASSUME SemaInv, WordInv, NEW g \in Gs, pc[g] = "lockCas", Goto(g, "lockLoad"), old' = [old EXCEPT ![g] = 0],
           UNCHANGED <<state, awoke, starving, holds, after, thrown, count>>
    PROVE  WordInv'
<1>1. MutexTypes /\ Local(g)
  BY Zenon DEF WordInv
<1>2. Others(g) /\ pc'[g] = "lockLoad" /\ MutexTypes'
  BY <1>1, Zenon DEF Goto, SemaInv, SemaTypes, MutexTypes, Others
<1>3. Local(g)' /\ (Credit(g)' <=> Credit(g))
  BY <1>1, <1>2, Zenon DEF Local, Credit, Trying, Under
<1>4. g \in Credits => ~Starving(state)
  BY LockCasFacts, Zenon
<1>5. /\ g \notin Takers /\ g \notin Takers' /\ g \notin Released /\ g \notin Released'
      /\ g \notin Queued /\ g \notin Queued' /\ (g \in Credits' <=> g \in Credits)
  BY <1>2, <1>3, RoleOf, NextRoleOf, Zenon DEF Trying, Under
<1> QED
  BY <1>2, <1>3, <1>4, <1>5, QuietStep, Zenon

\* The goroutine joins the waiters: it gives up its wake-up, and the mode changes
\* only if it had one.
LEMMA LockJoinWord ==
    ASSUME SemaInv, WordInv, NEW g \in Gs, pc[g] = "lockCas", state = old[g], state' = NewState(g),
           Locked(state) \/ Starving(state), after' = [after EXCEPT ![g] = "woken"], Goto(g, "load"),
           old' = [old EXCEPT ![g] = 0], awoke' = [awoke EXCEPT ![g] = FALSE],
           UNCHANGED <<starving, holds, thrown, count>>
    PROVE  WordInv'
<1>1. MutexTypes /\ Local(g)
  BY Zenon DEF WordInv
<1>2. Others(g) /\ pc'[g] = "load" /\ ~awoke'[g] /\ after'[g] = "woken"
  BY <1>1, Zenon DEF Goto, SemaInv, SemaTypes, MutexTypes, Others
<1>3. /\ state' \in Nat /\ Waiters(state') = Waiters(state) + 1
      /\ Locked(state') <=> Locked(state) \/ ~Starving(state)
      /\ Starving(state') <=> Starving(state) \/ (starving[g] /\ Locked(state))
      /\ Woken(state') <=> Woken(state) /\ ~awoke[g]
  BY <1>1, NewStateWord, LockCasFacts, Zenon
<1>4. MutexTypes'
  BY <1>1, <1>3, Zenon DEF MutexTypes
<1>5. Local(g)' /\ ~Credit(g)'
  BY <1>2, Zenon DEF Local, Credit, Trying, Under
<1>6. /\ g \notin Takers /\ g \notin Takers' /\ g \notin Released /\ g \notin Released'
      /\ g \notin Queued /\ g \in Queued' /\ g \notin Credits'
  BY <1>2, <1>5, RoleOf, NextRoleOf DEF Trying, Under
<1>7. Takers' = Takers /\ Released' = Released /\ Queued' = Queued \union {g} /\ Credits' = Credits \ {g}
  BY <1>2, <1>6, RolesFrame, QueuedFrame, CreditsFrame, Roles, SameSet
<1>8. Cardinality(Queued') = Cardinality(Queued) + 1
  BY <1>6, <1>7, Roles, Plus
<1>9. (Locked(state') <=> Locked(state)) /\ Owner'
  BY <1>3, Zenon DEF WordInv, Owner
<1>10. OneCredit'
  BY <1>7, Zenon DEF WordInv, OneCredit
<1>11. HasCredit' <=> HasCredit /\ ~awoke[g]
  BY <1>7, LockCasFacts DEF HasCredit
<1>12. \A h \in Credits' : h \in Credits /\ pc'[h] = pc[h]
  BY <1>2, <1>7, Roles, Zenon DEF Others
<1>13. CASE awoke[g]
  <2>1. Credits' = {} /\ count' = 0 /\ ~HasCredit' /\ Takers = {} /\ Released = {} /\ ~Starving(state)
    <3>1. Credits = {g} /\ count = 0 /\ ~Starving(state)
      BY <1>13, LockCasFacts, Zenon
    <3>2. Takers = {} /\ Released = {}
      BY <1>6, <3>1, Roles, RoleOf, Zenon DEF Credit
    <3> QED
      BY <1>7, <1>11, <1>13, <3>1, <3>2, Zenon
  <2>2. Locked(state)
    BY <2>1, Zenon
  <2>3. Mode'
    BY <1>3, <1>9, <1>13, <2>1, <2>2, Zenon DEF Mode
  <2>4. Waiters(state) = Cardinality(Queued)
    BY <2>1, Roles DEF WordInv, Exact, OneIf
  <2>5. Exact'
    BY <1>3, <1>7, <1>8, <2>1, <2>4, Roles DEF Exact, OneIf
  <2> QED
    BY <1>2, <1>4, <1>5, <1>9, <1>10, <2>3, <2>5, LocalFrame DEF WordInv
<1>14. CASE ~awoke[g]
  <2>1. Starving(state') <=> Starving(state)
    BY <1>3, <1>14, LockCasFacts, Zenon
  <2>2. Mode'
    BY <1>3, <1>9, <1>11, <1>12, <1>14, <2>1, Zenon DEF WordInv, Mode
  <2>3. Exact'
    <3>1. OneIf(Takers) \in Nat /\ OneIf(Released) \in Nat /\ count \in Nat
      BY Zenon DEF OneIf, SemaInv, SemaTypes
    <3> QED
      BY <1>3, <1>7, <1>8, <2>1, <3>1, Roles DEF WordInv, Exact
  <2> QED
    BY <1>2, <1>4, <1>5, <1>9, <1>10, <2>2, <2>3, LocalFrame DEF WordInv
<1> QED
  BY <1>13, <1>14, Zenon

LEMMA LockCasWord ==
    ASSUME SemaInv, WordInv, NEW g \in Gs, LockCas(g)
    PROVE  WordInv'
<1>1. pc[g] = "lockCas" /\ ~(awoke[g] /\ ~Woken(old[g])) /\ MutexTypes /\ UNCHANGED <<thrown, count>>
  BY LockCasFacts, Zenon DEF LockCas, WordInv
<1>2. CASE state # old[g]
  BY <1>1, <1>2, LockRetryWord, Zenon DEF LockCas
<1>3. CASE state = old[g] /\ (Locked(old[g]) \/ Starving(old[g]))
  BY <1>1, <1>3, LockJoinWord, Zenon DEF LockCas
<1>4. CASE state = old[g] /\ ~(Locked(old[g]) \/ Starving(old[g]))
  <2>1. state' = NewState(g) /\ Gets(g) /\ UNCHANGED after
    BY <1>1, <1>4, Zenon DEF LockCas
  <2>2. /\ state' \in Nat /\ Locked(state') /\ ~Starving(state') /\ Waiters(state') = Waiters(state)
        /\ Woken(state') <=> Woken(state) /\ ~Credit(g)
    BY <1>1, <1>4, <2>1, NewStateWord, LockCasFacts, RoleOf, Zenon
  <2>3. MutexTypes'
    BY <1>1, <2>1, <2>2, GetsFacts, Zenon DEF MutexTypes
  <2>4. pc[g] \notin Trying \union {"add"}
    BY <1>1, Zenon DEF Trying, Under
  <2> QED
    BY <1>1, <1>4, <2>1, <2>2, <2>3, <2>4, GetsFacts, LockedWord, Zenon DEF Gets
<1> QED
  BY <1>2, <1>3, <1>4, Zenon

\* In starvation mode an unlock is the wake-up of the next owner; in normal mode it
\* is not yet decided.
LEMMA UnlockWord ==
    ASSUME SemaInv, WordInv, NEW g \in Gs, Unlock(g), g \in holds
    PROVE  WordInv'
<1>1. pc[g] = "unlock" /\ MutexTypes /\ Local(g) /\ UNCHANGED <<thrown, count, after, awoke, starving>>
  BY Zenon DEF Unlock, semaVars, WordInv
<1>2. Locked(state) /\ holds = {g} /\ state \in Nat
  BY <1>1, Zenon DEF WordInv, Owner, MutexTypes
<1>3. state' = state - mutexLocked /\ holds' = {} /\ old' = [old EXCEPT ![g] = state']
  BY <1>2, Zenon DEF Unlock
<1>4. /\ state' \in Nat /\ ~Locked(state') /\ (Woken(state') <=> Woken(state))
      /\ (Starving(state') <=> Starving(state)) /\ Waiters(state') = Waiters(state)
  BY <1>2, <1>3, WordUnlock, Zenon
<1>5. MutexTypes'
  BY <1>1, <1>3, <1>4, Zenon DEF MutexTypes
<1>6. Others(g) /\ old'[g] = state' /\ pc'[g] = IF state = mutexLocked THEN "done" ELSE "unlockSlow"
  BY <1>1, <1>3, Zenon DEF Unlock, Goto, SemaInv, SemaTypes, MutexTypes, Others
<1>7. Starving(state) => state # mutexLocked
  BY DEF Starving, mutexLocked, mutexStarving
<1>8. Local(g)'
  BY <1>1, <1>4, <1>6, Zenon DEF Local, Trying, Under
<1>9. ~Credit(g) /\ (Credit(g)' <=> Starving(state))
  BY <1>1, <1>4, <1>6, <1>7, Zenon DEF Credit
<1>10. /\ g \notin Takers /\ g \notin Takers' /\ g \notin Released /\ g \notin Released'
       /\ g \notin Queued /\ g \notin Queued' /\ g \notin Credits /\ (g \in Credits' <=> Starving(state))
  BY <1>1, <1>6, <1>9, RoleOf, NextRoleOf, Zenon DEF Trying, Under
<1>11. Takers' = Takers /\ Released' = Released /\ Queued' = Queued
  BY <1>6, <1>10, RolesFrame, QueuedFrame, Roles, SameSet
<1>12. Owner'
  BY <1>3, <1>4, Zenon DEF Owner
<1>13. Exact'
  BY <1>1, <1>4, <1>11, Zenon DEF WordInv, Exact
<1>14. CASE Starving(state)
  <2>1. ~HasCredit /\ ~Woken(state)
    BY <1>2, <1>14 DEF WordInv, Mode
  <2>2. Credits = {} /\ count # 1
    BY <2>1, Zenon DEF HasCredit
  <2>3. Credits' = {g}
    BY <1>6, <1>10, <1>14, <2>2, CreditsFrame, Roles, Zenon
  <2>4. OneCredit' /\ HasCredit'
    BY <1>1, <2>2, <2>3, Zenon DEF WordInv, OneCredit, HasCredit
  <2>5. Mode'
    BY <1>4, <1>6, <1>7, <1>14, <2>1, <2>3, <2>4, Zenon DEF Mode
  <2> QED
    BY <1>5, <1>6, <1>8, <1>12, <1>13, <2>4, <2>5, LocalFrame, Zenon DEF WordInv
<1>15. CASE ~Starving(state)
  <2>1. Credits' = Credits
    BY <1>6, <1>10, <1>15, CreditsFrame, Roles, SameSet, Zenon
  <2>2. OneCredit' /\ (HasCredit' <=> HasCredit)
    BY <1>1, <2>1, Zenon DEF WordInv, OneCredit, HasCredit
  <2>3. \A h \in Credits' : h \in Credits /\ pc'[h] = pc[h]
    BY <1>6, <1>10, <2>1, Roles, Zenon DEF Others
  <2>4. Mode'
    BY <1>4, <1>15, <2>2, <2>3, Zenon DEF WordInv, Mode
  <2> QED
    BY <1>5, <1>6, <1>8, <1>12, <1>13, <2>2, <2>4, LocalFrame DEF WordInv
<1> QED
  BY <1>14, <1>15, Zenon

LEMMA UnlockSlowWord ==
    ASSUME SemaInv, WordInv, NEW g \in Gs, UnlockSlow(g)
    PROVE  WordInv'
<1>1. pc[g] = "unlockSlow" /\ MutexTypes /\ Local(g) /\ UNCHANGED count /\ old[g] \in Nat
  BY Zenon DEF UnlockSlow, WordInv, MutexTypes
<1>2. Locked(old[g] + mutexLocked)
  BY <1>1, WordLock, Zenon DEF Local
<1>3. UNCHANGED <<state, holds, thrown>>
  BY <1>2, Zenon DEF UnlockSlow
<1>4. CASE Starving(old[g])
  <2>1. after' = [after EXCEPT ![g] = "done"] /\ Goto(g, "add") /\ Forget(g)
    BY <1>2, <1>4, Zenon DEF UnlockSlow
  <2>2. (\A h \in Gs \ {g} : after'[h] = after[h]) /\ after'[g] = "done"
    BY <2>1, Zenon DEF SemaInv, SemaTypes
  <2>3. Others(g) /\ pc'[g] = "add" /\ ~awoke'[g] /\ ~starving'[g] /\ MutexTypes'
    BY <1>1, <1>3, <2>1, <2>2, ForgetFacts, Zenon DEF MutexTypes
  <2>4. Local(g)' /\ Credit(g)' /\ Credit(g)
    BY <1>1, <1>4, <2>2, <2>3, Zenon DEF Local, Credit, Trying, Under
  <2>5. g \in Credits /\ g \in Credits' /\ g \notin Queued /\ g \notin Queued' /\ g \notin Takers /\ g \notin Takers'
    BY <1>1, <2>3, <2>4, RoleOf, NextRoleOf, Zenon DEF Trying, Under
  <2>6. Starving(state)
    BY <1>1, <2>5, Zenon DEF WordInv, Mode
  <2> QED
    BY <1>1, <1>3, <2>3, <2>4, <2>5, <2>6, QuietStep, Zenon
<1>5. CASE ~Starving(old[g])
  <2>1. Goto(g, "unlockCas") /\ UNCHANGED <<old, awoke, starving, after>>
    BY <1>2, <1>5, Zenon DEF UnlockSlow
  <2>2. Others(g) /\ pc'[g] = "unlockCas" /\ MutexTypes'
    BY <1>1, <1>3, <2>1, Zenon DEF Goto, SemaInv, SemaTypes, MutexTypes, Others
  <2>3. Local(g)' /\ ~Credit(g) /\ ~Credit(g)' /\ pc[g] \notin Trying /\ pc'[g] \notin Trying
    BY <1>1, <1>5, <2>1, <2>2, Zenon DEF Local, Credit, Trying, Under
  <2> QED
    BY <1>1, <1>3, <2>2, <2>3, PlainStep, Zenon
<1> QED
  BY <1>4, <1>5, Zenon

\* One waiter is to be woken, and none was: its wake-up begins with the woken bit.
LEMMA UnlockWakeWord ==
    ASSUME SemaInv, WordInv, NEW g \in Gs, pc[g] = "unlockCas", ~Enough(state),
           state' = state - Waiter + Bit(~Woken(state), mutexWoken),
           after' = [after EXCEPT ![g] = "done"], Goto(g, "add"), Forget(g), UNCHANGED <<holds, thrown, count>>
    PROVE  WordInv'
<1>1. /\ MutexTypes /\ state \in Nat /\ Waiters(state) # 0 /\ ~Locked(state) /\ ~Woken(state) /\ ~Starving(state)
  BY Zenon DEF WordInv, MutexTypes, Enough
<1> DEFINE s == state - Waiter
<1>2. /\ s \in Nat /\ Waiters(s) = Waiters(state) - 1 /\ ~Locked(s) /\ ~Woken(s) /\ ~Starving(s)
  BY <1>1, WordLeave, Zenon
<1>3. state' = s + mutexWoken
  BY <1>1, Zenon DEF Bit
<1>4. /\ state' \in Nat /\ Waiters(state') = Waiters(state) - 1
      /\ ~Locked(state') /\ Woken(state') /\ ~Starving(state')
  <2> HIDE DEF s
  <2> QED
    BY <1>2, <1>3, WordWake, Zenon
<1>5. (\A h \in Gs \ {g} : after'[h] = after[h]) /\ after'[g] = "done"
  BY Zenon DEF SemaInv, SemaTypes
<1>6. Others(g) /\ pc'[g] = "add" /\ ~awoke'[g] /\ ~starving'[g] /\ MutexTypes'
  BY <1>1, <1>4, <1>5, ForgetFacts, Zenon DEF MutexTypes
<1>7. Local(g)' /\ Credit(g)'
  BY <1>5, <1>6, Zenon DEF Local, Credit, Trying, Under
<1>8. count = 0 /\ Credits = {}
  BY <1>1 DEF WordInv, Mode, HasCredit, OneCredit, SemaInv, SemaTypes
<1>9. g \in Credits' /\ g \in Released' /\ g \notin Queued /\ g \notin Queued'
  BY <1>5, <1>6, <1>7, RoleOf, NextRoleOf, Zenon DEF Trying, Under
<1>10. Credits' = {g} /\ Queued' = Queued
  BY <1>6, <1>8, <1>9, CreditsFrame, QueuedFrame, Roles, SameSet
<1>11. Released = {}
  BY <1>8, Roles, RoleOf, Zenon DEF Credit
<1>12. Owner' /\ OneCredit'
  BY <1>1, <1>4, <1>8, <1>10 DEF WordInv, Owner, OneCredit
<1>13. Mode'
  BY <1>4, <1>6, <1>10, Zenon DEF Mode, HasCredit
<1>14. Exact'
  <2>1. Waiters(state) = Cardinality(Queued)
    BY <1>1, <1>8, <1>11, Roles DEF WordInv, Exact, OneIf
  <2>2. OneIf(Released') = 1
    BY <1>9, Zenon DEF OneIf
  <2> QED
    BY <1>4, <1>8, <1>10, <2>1, <2>2, Roles DEF Exact
<1> QED
  BY <1>6, <1>7, <1>12, <1>13, <1>14, LocalFrame, Zenon DEF WordInv

LEMMA UnlockCasWord ==
    ASSUME SemaInv, WordInv, NEW g \in Gs, UnlockCas(g)
    PROVE  WordInv'
<1>1. pc[g] = "unlockCas" /\ MutexTypes /\ UNCHANGED <<holds, thrown, count>>
  BY Zenon DEF UnlockCas, WordInv
<1>2. CASE ~Enough(old[g]) /\ state = old[g]
  BY <1>1, <1>2, UnlockWakeWord, Zenon DEF UnlockCas
<1>3. CASE Enough(old[g]) \/ state # old[g]
  <2>1. PICK l \in {"done", "unlockLoad"} : Goto(g, l) /\ Forget(g) /\ UNCHANGED <<state, after>>
    BY <1>3, Zenon DEF UnlockCas
  <2>2. Others(g) /\ pc'[g] = l /\ ~awoke'[g] /\ ~starving'[g] /\ MutexTypes'
    BY <1>1, <2>1, ForgetFacts, Zenon DEF MutexTypes
  <2>3. Local(g)' /\ ~Credit(g) /\ ~Credit(g)' /\ pc[g] \notin Trying /\ pc'[g] \notin Trying
    BY <1>1, <2>2, Zenon DEF Local, Credit, Trying, Under
  <2> QED
    BY <1>1, <2>1, <2>2, <2>3, PlainStep, Zenon
<1> QED
  BY <1>2, <1>3, Zenon

LEMMA UnlockLoadWord ==
    ASSUME SemaInv, WordInv, NEW g \in Gs, UnlockLoad(g)
    PROVE  WordInv'
<1>1. pc[g] = "unlockLoad" /\ UNCHANGED <<state, awoke, starving, holds, thrown, count, after>> /\ MutexTypes /\ Local(g)
  BY Zenon DEF UnlockLoad, semaVars, WordInv
<1>2. Others(g) /\ pc'[g] = "unlockCas" /\ MutexTypes'
  BY <1>1, Zenon DEF UnlockLoad, Remember, Goto, SemaInv, SemaTypes, MutexTypes, Others
<1>3. Local(g)' /\ ~Credit(g) /\ ~Credit(g)' /\ pc[g] \notin Trying /\ pc'[g] \notin Trying
  BY <1>1, <1>2, Zenon DEF Local, Credit, Trying, Under
<1> QED
  BY <1>1, <1>2, <1>3, PlainStep, Zenon

LEMMA MutexWord ==
    ASSUME SemaInv, WordInv, NEW g \in Gs, MutexStep(g), pc[g] = "unlock" => g \in holds
    PROVE  WordInv'
<1>1. CASE Unlock(g)
  BY <1>1, UnlockWord, Zenon DEF Unlock
<1> QED
  BY Zenon, <1>1, LockWord, TryLockWord, TryLockCasWord, LockLoadWord, LockCasWord, LockWokenWord, LockHandoffWord,
     UnlockSlowWord, UnlockCasWord, UnlockLoadWord DEF MutexStep

-----------------------------------------------------------------------------
(***************************************************************************)
(* Steps of the program.                                                   *)
(***************************************************************************)
\* From an operation to the next, or into or out of Cond.Wait: outside the mutex.
LEMMA BetweenWord ==
    ASSUME SemaInv, WordInv, NEW g \in Gs, NEW l \in {"run", "lock", "try", "unlock", "list"},
           pc[g] \in {"run", "done", "failed", "list"}, Goto(g, l),
           \A h \in Gs \ {g} : after'[h] = after[h], UNCHANGED mutexVars, UNCHANGED count
    PROVE  WordInv'
<1>1. MutexTypes /\ MutexTypes' /\ Local(g) /\ UNCHANGED <<state, holds, old, awoke, starving>>
  BY Zenon DEF WordInv, MutexTypes, mutexVars
<1>2. Others(g) /\ pc'[g] = l
  BY <1>1, Zenon DEF Goto, SemaInv, SemaTypes, MutexTypes, Others
<1>3. Local(g)' /\ ~Credit(g) /\ ~Credit(g)' /\ pc[g] \notin Trying /\ pc'[g] \notin Trying
  BY <1>1, <1>2, Zenon DEF Local, Credit, Trying, Under
<1> QED
  BY <1>1, <1>2, <1>3, PlainStep, Zenon

LEMMA SameWord ==
    ASSUME WordInv, UNCHANGED mutexVars, UNCHANGED <<count, pc, after>>
    PROVE  WordInv'
  BY Zenon DEF WordInv, mutexVars, MutexTypes, Owner, OneCredit, Mode, Exact, Local, Credits, Credit, HasCredit,
         Takers, Released, Queued, Acquiring

\* What an operation does to Holding.
LEMMA HoldingNext ==
    ASSUME NEW s, NEW i \in Nat \ {0}
    PROVE  /\ s[i] \notin {"lock", "try"} /\ Holding(s, i + 1) => Holding(s, i)
           /\ s[i] = "unlock" => ~Holding(s, i + 1)
<1>1. ASSUME s[i] \notin {"lock", "try"}, Holding(s, i + 1)
      PROVE  Holding(s, i)
  <2>1. PICK j \in 1 .. i : s[j] \in {"lock", "try"} /\ \A k \in j + 1 .. i : s[k] # "unlock"
    BY <1>1 DEF Holding
  <2>2. j \in 1 .. i - 1 /\ \A k \in j + 1 .. i - 1 : s[k] # "unlock"
    BY <1>1, <2>1
  <2> QED
    BY <2>1, <2>2, Zenon DEF Holding
<1>2. ASSUME s[i] = "unlock", Holding(s, i + 1)
      PROVE  FALSE
  <2>1. PICK j \in 1 .. i : s[j] \in {"lock", "try"} /\ \A k \in j + 1 .. i : s[k] # "unlock"
    BY <1>2 DEF Holding
  <2>2. j # i
    BY <1>2, <2>1, Zenon
  <2> QED
    BY <1>2, <2>1, <2>2
<1> QED
  BY <1>1, <1>2, Zenon

LEMMA ProgramFrame ==
    ASSUME NEW g \in Gs, \A h \in Gs : InProgram(h), UNCHANGED program,
           \A h \in Gs \ {g} : pc'[h] = pc[h] /\ ip'[h] = ip[h] /\ (h \in holds' <=> h \in holds),
           InProgram(g)'
    PROVE  (\A h \in Gs : InProgram(h))'
<1> SUFFICES ASSUME NEW h \in Gs \ {g}
             PROVE  InProgram(h)'
  OBVIOUS
<1>1. InProgram(h)
  OBVIOUS
<1>2. Op(h)' = Op(h)
  BY Zenon DEF Op
<1> QED
  BY <1>1, <1>2, Zenon DEF InProgram

\* A step inside an operation.
LockPlaces == {"lock", "lockLoad", "lockCas", "woken", "handoff"} \union Trying
TryPlaces == {"try", "tryCas", "failed"}
UnlockPlaces == {"unlock", "unlockSlow", "unlockCas", "unlockLoad", "add", "wake"}

LEMMA InsideStep ==
    ASSUME NEW g \in Gs, InProgram(g), UNCHANGED <<program, ip>>,
           \/ pc[g] \in LockPlaces /\ (pc'[g] \in LockPlaces \/ (pc'[g] = "done" /\ g \in holds'))
           \/ pc[g] \in TryPlaces /\ (pc'[g] \in TryPlaces \/ (pc'[g] = "done" /\ g \in holds'))
           \/ pc[g] \in UnlockPlaces /\ pc'[g] \in (UnlockPlaces \ {"unlock"}) \union {"done"}
    PROVE  InProgram(g)'
<1>1. Op(g)' = Op(g) /\ pc[g] # "run" /\ ip[g] <= Len(program[g])
  BY Zenon DEF Op, InProgram, LockPlaces, TryPlaces, UnlockPlaces, Trying, Under
<1>2. CASE pc[g] \in LockPlaces
  BY <1>1, <1>2, Zenon DEF InProgram, LockPlaces, TryPlaces, UnlockPlaces, Trying, Under
<1>3. CASE pc[g] \in TryPlaces
  BY <1>1, <1>3, Zenon DEF InProgram, LockPlaces, TryPlaces, UnlockPlaces, Trying, Under
<1>4. CASE pc[g] \in UnlockPlaces
  BY <1>1, <1>4, Zenon DEF InProgram, LockPlaces, TryPlaces, UnlockPlaces, Trying, Under
<1> QED
  BY <1>2, <1>3, <1>4, Zenon

LEMMA SemaProgram ==
    ASSUME SemaInv, InUse, NEW g \in Gs, SemaStep(g), UNCHANGED mutexVars, UNCHANGED ctlVars
    PROVE  (\A h \in Gs : InProgram(h))'
<1>1. PICK l : /\ Goto(g, l)
               /\ \/ pc[g] \in Trying /\ l \in Trying \union {after[g]}
                  \/ pc[g] = "add" /\ l = "wake"
                  \/ pc[g] = "wake" /\ l = after[g]
  <2>1. CASE Load(g) \/ WaitUint32(g) \/ LockState(g) \/ LoadLocked(g) \/ CondWait(g) \/ Relock(g)
    BY <2>1, Zenon DEF Load, WaitUint32, LockState, LoadLocked, CondWait, Relock, At, Trying, Under
  <2>2. CASE Cas(g) \/ CasLocked(g)
    BY <2>2, Zenon DEF Cas, CasLocked, At, Trying, Under
  <2>3. CASE Add(g) \/ WakeUint32(g) \/ Signal(g)
    BY <2>3, Zenon DEF Add, WakeUint32, Signal, At
  <2> QED
    BY <2>1, <2>2, <2>3, Zenon DEF SemaStep
<1>2. pc'[g] = l /\ UNCHANGED <<program, ip, holds>> /\ \A h \in Gs \ {g} : pc'[h] = pc[h]
  BY <1>1, Zenon DEF Goto, SemaInv, SemaTypes, mutexVars, ctlVars
<1>3. (pc[g] \in Trying => after[g] = "woken") /\ (pc[g] = "wake" => after[g] = "done")
  BY Zenon DEF InUse, WordInv, Local
<1>4. \/ pc[g] \in LockPlaces /\ pc'[g] \in LockPlaces
      \/ pc[g] \in UnlockPlaces /\ pc'[g] \in (UnlockPlaces \ {"unlock"}) \union {"done"}
  BY <1>1, <1>2, <1>3, Zenon DEF LockPlaces, UnlockPlaces, Trying, Under
<1>5. InProgram(g)'
  BY <1>2, <1>4, InsideStep, Zenon DEF InUse
<1> QED
  BY <1>2, <1>5, ProgramFrame, Zenon DEF InUse

LEMMA MutexProgram ==
    ASSUME SemaInv, InUse, NEW g \in Gs, MutexStep(g), UNCHANGED ctlVars
    PROVE  (\A h \in Gs : InProgram(h))'
<1>1. UNCHANGED pc \/ \E l : Goto(g, l)
  BY Zenon DEF MutexStep, Lock, TryLock, TryLockCas, LockLoad, LockCas, LockWoken, LockHandoff, Unlock, UnlockSlow,
         UnlockCas, UnlockLoad, Gets, Throws
<1>2. /\ UNCHANGED <<program, ip>>
      /\ \A h \in Gs \ {g} : pc'[h] = pc[h]
  BY <1>1, Zenon DEF Goto, SemaInv, SemaTypes, ctlVars
<1>3. \A h \in Gs \ {g} : h \in holds' <=> h \in holds
  BY Zenon DEF MutexStep, Lock, TryLock, TryLockCas, LockLoad, LockCas, LockWoken, LockHandoff, Unlock, UnlockSlow,
         UnlockCas, UnlockLoad, Gets, Throws
<1>4. CASE UNCHANGED pc
  <2>1. holds' = holds
    BY <1>4, Zenon DEF MutexStep, Lock, TryLock, TryLockCas, LockLoad, LockCas, LockWoken, LockHandoff, Unlock, UnlockSlow,
         UnlockCas, UnlockLoad, Gets, Throws, Goto, SemaInv, SemaTypes
  <2> QED
    BY <1>2, <1>4, <2>1, Zenon DEF InUse, InProgram, Op
<1>5. ASSUME UNCHANGED pc \/
             \/ pc[g] \in LockPlaces /\ (pc'[g] \in LockPlaces \/ (pc'[g] = "done" /\ g \in holds'))
             \/ pc[g] \in TryPlaces /\ (pc'[g] \in TryPlaces \/ (pc'[g] = "done" /\ g \in holds'))
             \/ pc[g] \in UnlockPlaces /\ pc'[g] \in (UnlockPlaces \ {"unlock"}) \union {"done"}
      PROVE  (\A h \in Gs : InProgram(h))'
  <2>1. CASE UNCHANGED pc
    BY <1>4, <2>1, Zenon
  <2>2. CASE ~UNCHANGED pc
    <3>1. InProgram(g)'
      BY <1>2, <1>5, <2>2, InsideStep, Zenon DEF InUse
    <3> QED
      BY <1>2, <1>3, <3>1, ProgramFrame, Zenon DEF InUse
  <2> QED
    BY <2>1, <2>2, Zenon
<1>6. CASE Lock(g) \/ LockLoad(g) \/ LockHandoff(g)
  <2>1. pc[g] \in LockPlaces /\ (pc'[g] \in LockPlaces \/ (pc'[g] = "done" /\ g \in holds'))
    BY <1>6, Zenon DEF Lock, LockLoad, LockHandoff, Gets, Goto, LockPlaces, SemaInv, SemaTypes
  <2> QED
    BY <1>5, <2>1, Zenon
<1>7. CASE LockCas(g) \/ LockWoken(g)
  <2>1. pc[g] \in LockPlaces
    BY <1>7, Zenon DEF LockCas, LockWoken, LockPlaces
  <2>2. UNCHANGED pc \/ Goto(g, "lockLoad") \/ Goto(g, "load") \/ Gets(g) \/ Goto(g, "handoff") \/ Goto(g, "lockCas")
    BY <1>7, Zenon DEF LockCas, LockWoken, Throws
  <2>3. UNCHANGED pc \/ pc'[g] \in LockPlaces \/ (pc'[g] = "done" /\ g \in holds')
    BY <2>2, Zenon DEF Gets, Goto, LockPlaces, Trying, SemaInv, SemaTypes
  <2> QED
    BY <1>5, <2>1, <2>3, Zenon
<1>8. CASE TryLock(g) \/ TryLockCas(g)
  <2>1. pc[g] \in TryPlaces /\ (pc'[g] \in TryPlaces \/ (pc'[g] = "done" /\ g \in holds'))
    BY <1>8, Zenon DEF TryLock, TryLockCas, Gets, Goto, TryPlaces, SemaInv, SemaTypes
  <2> QED
    BY <1>5, <2>1, Zenon
<1>9. CASE Unlock(g) \/ UnlockSlow(g) \/ UnlockCas(g) \/ UnlockLoad(g)
  <2>1. pc[g] \in UnlockPlaces
    BY <1>9, Zenon DEF Unlock, UnlockSlow, UnlockCas, UnlockLoad, UnlockPlaces
  <2>2. UNCHANGED pc \/ \E l \in (UnlockPlaces \ {"unlock"}) \union {"done"} : Goto(g, l)
    BY <1>9, Zenon DEF Unlock, UnlockSlow, UnlockCas, UnlockLoad, Throws, UnlockPlaces
  <2>3. UNCHANGED pc \/ pc'[g] \in (UnlockPlaces \ {"unlock"}) \union {"done"}
    BY <2>2, Zenon DEF Goto, SemaInv, SemaTypes
  <2> QED
    BY <1>5, <2>1, <2>3, Zenon
<1> QED
  BY <1>6, <1>7, <1>8, <1>9, Zenon DEF MutexStep

\* The programs: what UseAssumption says of the operation a goroutine is at.
LEMMA Uses ==
    ASSUME ProgramTypes, ~NoMutex, NEW g \in Gs, ip[g] <= Len(program[g])
    PROVE  /\ ip[g] \in Nat \ {0} /\ ip[g] \in 1 .. Len(program[g])
           /\ Op(g) \notin SemaOperations
           /\ Op(g) \in {"unlock", "await"} => Holding(program[g], ip[g])
           /\ Op(g) = "try" => program[g][ip[g] + 1] = "unlock"
<1>1. program \in Programs /\ program[g] \in Seq(Operations)
  BY NativeSyncAssumption, Zenon DEF ProgramTypes
<1>2. ip[g] \in Nat \ {0} /\ ip[g] \in 1 .. Len(program[g])
  BY <1>1 DEF ProgramTypes
<1>3. Op(g) \notin SemaOperations
  BY <1>1, <1>2, UseAssumption, Zenon DEF NoMutex, Op
<1>4. /\ Op(g) \in {"unlock", "await"} => Holding(program[g], ip[g])
      /\ Op(g) = "try" => program[g][ip[g] + 1] = "unlock"
  BY <1>1, <1>2, UseAssumption, Zenon DEF Op
<1> QED
  BY <1>2, <1>3, <1>4, Zenon

\* The next operation: a goroutine that has locked and not unlocked holds the mutex.
LEMMA AdvanceProgram ==
    ASSUME ProgramTypes, ~NoMutex, NEW g \in Gs, NEW k \in {1, 2}, InProgram(g), Advance(g, k), UNCHANGED <<program, holds>>,
           ip[g] <= Len(program[g]), pc'[g] = "run",
           \/ k = 1 /\ Op(g) \in {"lock", "try"} /\ g \in holds
           \/ k = 1 /\ Op(g) = "unlock"
           \/ k = 1 /\ pc[g] = "run" /\ Op(g) \notin {"lock", "try", "unlock"}
           \/ k = 2 /\ Op(g) = "try"
    PROVE  InProgram(g)'
<1>1. ip[g] \in Nat \ {0} /\ ip'[g] = ip[g] + k
  BY Uses, Zenon DEF Advance, ProgramTypes
<1>2. Holding(program[g], ip'[g]) => g \in holds
  <2>1. CASE k = 1 /\ Op(g) \in {"lock", "try"} /\ g \in holds
    BY <2>1, Zenon
  <2>2. CASE k = 1 /\ Op(g) = "unlock"
    BY <1>1, <2>2, HoldingNext, Zenon DEF Op
  <2>3. CASE k = 1 /\ pc[g] = "run" /\ Op(g) \notin {"lock", "try", "unlock"}
    BY <1>1, <2>3, HoldingNext, Zenon DEF Op, InProgram
  <2>4. CASE k = 2 /\ Op(g) = "try"
    <3>1. program[g][ip[g] + 1] = "unlock" /\ ip[g] + 1 \in Nat \ {0} /\ ip'[g] = (ip[g] + 1) + 1
      BY <1>1, <2>4, Uses
    <3> QED
      BY <3>1, HoldingNext, Zenon
  <2> QED
    BY <2>1, <2>2, <2>3, <2>4, Zenon
<1> QED
  BY <1>2, Zenon DEF InProgram, Trying, Under

LEMMA CallInUse ==
    ASSUME SemaInv, ProgramTypes, ~NoMutex, InUse, NEW g \in Gs, Call(g)
    PROVE  InUse'
<1>1. /\ pc[g] = "run" /\ ip[g] <= Len(program[g]) /\ UNCHANGED mutexVars /\ UNCHANGED <<program, holds>>
      /\ WordInv /\ InProgram(g) /\ pc[g] \in {"run", "done", "failed", "list"}
  BY Zenon DEF Call, mutexVars, InUse
<1>2. /\ Op(g) \notin SemaOperations /\ ip[g] \in Nat \ {0}
      /\ Op(g) \in {"unlock", "await"} => g \in holds
  BY <1>1, Uses, Zenon DEF InProgram
<1>3. ASSUME NEW l \in {"lock", "try", "unlock"}, Goto(g, l), UNCHANGED <<semaVars, ip>>, l = Op(g) \/ (l = "unlock" /\ Op(g) = "await")
      PROVE  InUse'
  <2>1. WordInv'
    BY <1>1, <1>3, BetweenWord, Zenon DEF semaVars
  <2>2. pc'[g] = l /\ (\A h \in Gs \ {g} : pc'[h] = pc[h]) /\ Op(g)' = Op(g)
    BY <1>1, <1>3, Zenon DEF Goto, SemaInv, SemaTypes, Op
  <2>3. InProgram(g)'
    BY <1>1, <1>2, <1>3, <2>2, Zenon DEF InProgram, Trying, Under
  <2> QED
    BY <1>1, <1>3, <2>1, <2>2, <2>3, ProgramFrame, Zenon DEF InUse
<1>4. ASSUME pc' = pc \/ Goto(g, "run"), Advance(g, 1), UNCHANGED semaVars,
             Op(g) \in {"set", "signal", "broadcast", "await"}
      PROVE  InUse'
  <2>1. Goto(g, "run") /\ pc'[g] = "run" /\ \A h \in Gs \ {g} : pc'[h] = pc[h] /\ ip'[h] = ip[h]
    BY <1>1, <1>4, Zenon DEF Goto, Advance, SemaInv, SemaTypes, ProgramTypes
  <2>2. WordInv'
    BY <1>1, <1>4, <2>1, BetweenWord, Zenon DEF semaVars
  <2>3. InProgram(g)'
    BY <1>1, <1>4, <2>1, AdvanceProgram, Zenon
  <2> QED
    BY <1>1, <2>1, <2>2, <2>3, ProgramFrame, Zenon DEF InUse
<1> QED
  BY <1>2, <1>3, <1>4, Zenon DEF Call, notifyListAdd, notifyListNotifyOne, notifyListNotifyAll, SemaOperations

LEMMA InWaitInUse ==
    ASSUME SemaInv, InUse, NEW g \in Gs, InWait(g)
    PROVE  InUse'
<1>1. pc[g] = "list" /\ UNCHANGED <<semaVars, mutexVars, ctlVars>> /\ (UNCHANGED pc \/ Goto(g, "lock"))
  BY Zenon DEF InWait, notifyListWait
<1>2. UNCHANGED <<count, after, holds, program, ip>>
  BY <1>1, Zenon DEF semaVars, mutexVars, ctlVars
<1>3. CASE UNCHANGED pc
  BY <1>1, <1>2, <1>3, SameWord, Zenon DEF InUse, InProgram, Op
<1>4. CASE Goto(g, "lock")
  <2>1. WordInv'
    BY <1>1, <1>2, <1>4, BetweenWord, Zenon DEF InUse
  <2>2. pc'[g] = "lock" /\ (\A h \in Gs \ {g} : pc'[h] = pc[h]) /\ Op(g)' = Op(g)
    BY <1>2, <1>4, Zenon DEF Goto, SemaInv, SemaTypes, Op
  <2>3. InProgram(g)'
    BY <1>1, <1>2, <2>2, Zenon DEF InUse, InProgram, Trying, Under
  <2> QED
    BY <1>2, <2>1, <2>2, <2>3, ProgramFrame, Zenon DEF InUse
<1> QED
  BY <1>1, <1>3, <1>4, Zenon

LEMMA DoneInUse ==
    ASSUME SemaInv, ProgramTypes, ~NoMutex, InUse, NEW g \in Gs, Done(g)
    PROVE  InUse'
<1>1. /\ pc[g] \in {"done", "failed"} /\ UNCHANGED mutexVars /\ UNCHANGED <<program, holds, count>>
      /\ WordInv /\ InProgram(g) /\ ip[g] <= Len(program[g])
  BY Zenon DEF Done, mutexVars, InUse, InProgram
<1>2. \A h \in Gs \ {g} : after'[h] = after[h]
  BY Zenon DEF Done, SemaInv, SemaTypes
<1>3. PICK l \in {"run", "list"} : Goto(g, l)
  BY Zenon DEF Done
<1>4. WordInv'
  BY <1>1, <1>2, <1>3, BetweenWord, Zenon
<1>5. pc'[g] = l /\ \A h \in Gs \ {g} : pc'[h] = pc[h]
  BY <1>3, Zenon DEF Goto, SemaInv, SemaTypes
<1>6. CASE pc[g] = "done" /\ Op(g) = "await"
  <2>1. l = (IF g \in holds THEN "run" ELSE "list") /\ UNCHANGED ip /\ Op(g)' = Op(g)
    BY <1>1, <1>5, <1>6, Zenon DEF Done, Goto, SemaInv, SemaTypes, Op
  <2>2. InProgram(g)'
    BY <1>1, <1>5, <1>6, <2>1, Zenon DEF InProgram, Trying, Under
  <2> QED
    BY <1>1, <1>4, <1>5, <2>1, <2>2, ProgramFrame, Zenon DEF InUse
<1>7. CASE ~(pc[g] = "done" /\ Op(g) = "await")
  <2>1. Goto(g, "run") /\ Advance(g, IF pc[g] = "failed" THEN 2 ELSE 1)
    BY <1>7, Zenon DEF Done
  <2>2. pc'[g] = "run" /\ \A h \in Gs \ {g} : ip'[h] = ip[h]
    BY <2>1, Zenon DEF Goto, Advance, SemaInv, SemaTypes, ProgramTypes
  <2>3. CASE pc[g] = "failed"
    <3>1. Op(g) = "try" /\ Advance(g, 2)
      BY <1>1, <2>1, <2>3, Zenon DEF InProgram
    <3>2. InProgram(g)'
      BY <1>1, <2>2, <3>1, AdvanceProgram, Zenon
    <3> QED
      BY <1>1, <1>4, <1>5, <2>2, <3>2, ProgramFrame, Zenon DEF InUse
  <2>4. CASE pc[g] = "done"
    <3>1. (Op(g) = "unlock" \/ (Op(g) \in {"lock", "try"} /\ g \in holds)) /\ Advance(g, 1)
      BY <1>1, <1>7, <2>1, <2>4, Zenon DEF InProgram
    <3>2. InProgram(g)'
      BY <1>1, <2>2, <3>1, AdvanceProgram, Zenon
    <3> QED
      BY <1>1, <1>4, <1>5, <2>2, <3>2, ProgramFrame, Zenon DEF InUse
  <2> QED
    BY <1>1, <2>3, <2>4, Zenon
<1> QED
  BY <1>6, <1>7, Zenon

LEMMA StepInUse ==
    ASSUME SemaInv, ProgramTypes, ~NoMutex, InUse, Next
    PROVE  InUse'
<1>1. PICK g \in Gs : Step(g) \/ Spurious(g)
  BY Zenon DEF Next
<1>2. CASE Call(g) \/ InWait(g) \/ Done(g)
  BY <1>2, CallInUse, InWaitInUse, DoneInUse, Zenon
<1>3. CASE SemaStep(g) /\ UNCHANGED <<mutexVars, listVars, ctlVars>>
  BY <1>3, SemaWord, SemaProgram, Zenon DEF InUse
<1>4. CASE MutexStep(g) /\ UNCHANGED <<listVars, ctlVars>>
  <2>1. pc[g] = "unlock" => g \in holds
    BY Zenon DEF InUse, InProgram
  <2> QED
    BY <1>4, <2>1, MutexWord, MutexProgram, Zenon DEF InUse
<1>5. CASE Spurious(g)
  <2>1. UNCHANGED mutexVars /\ UNCHANGED <<count, pc, after, holds, program, ip>>
    BY <1>5, Zenon DEF Spurious, SpuriousWake, Stirs, semaVars, mutexVars, ctlVars
  <2> QED
    BY <2>1, SameWord, Zenon DEF InUse, InProgram, Op
<1> QED
  BY <1>1, <1>2, <1>3, <1>4, <1>5, Zenon DEF Step

\* Without mutex operations nothing leads to the mutex.
LEMMA StepIdle ==
    ASSUME SemaInv, ProgramTypes, NoMutex, Idle, Next
    PROVE  Idle'
<1> DEFINE Here == {"run", "add", "wake", "finished"} \union Trying
<1>1. PICK g \in Gs : Step(g) \/ Spurious(g)
  BY Zenon DEF Next
<1>2. pc[g] \in Here /\ after[g] \in {"run", "finished"} /\ (pc[g] \in {"add", "wake"} \union Trying => after[g] = "finished")
  BY Zenon DEF Idle
<1>3. ASSUME NEW l \in Here, Goto(g, l), NEW e \in {"run", "finished"}, after' = [after EXCEPT ![g] = e],
             l \in {"add", "wake"} \union Trying => e = "finished", UNCHANGED mutexVars
      PROVE  Idle'
  <2>1. pc' = [pc EXCEPT ![g] = l] /\ pc \in [Gs -> Places] /\ after \in [Gs -> Ends]
    BY <1>3, Zenon DEF Goto, SemaInv, SemaTypes
  <2>2. \A h \in Gs : pc'[h] \in Here /\ after'[h] \in {"run", "finished"}
    BY <1>3, <2>1, Zenon DEF Idle
  <2>3. \A h \in Gs : pc'[h] \in {"add", "wake"} \union Trying => after'[h] = "finished"
    BY <1>3, <2>1, Zenon DEF Idle
  <2> QED
    BY <1>3, <2>2, <2>3, Zenon DEF Idle, mutexVars
<1>4. ASSUME UNCHANGED <<pc, after>>, UNCHANGED mutexVars
      PROVE  Idle'
  BY <1>4, Zenon DEF Idle, mutexVars
<1>5. after' = after => after' = [after EXCEPT ![g] = after[g]]
  BY Zenon DEF SemaInv, SemaTypes
<1>6. CASE Call(g)
  <2>1. pc[g] = "run" /\ ip[g] \in 1 .. Len(program[g]) /\ UNCHANGED mutexVars
    <3>1. program[g] \in Seq(Operations) /\ ip[g] \in Nat \ {0} /\ pc[g] = "run" /\ ip[g] <= Len(program[g])
      BY <1>6, NativeSyncAssumption, Zenon DEF Call, ProgramTypes
    <3> QED
      BY <1>6, <3>1 DEF Call
  <2>2. Op(g) \notin MutexOperations
    BY <2>1, Zenon DEF NoMutex, Op
  <2>3. CASE Op(g) \in {"acquire", "release"}
    <3>1. after' = [after EXCEPT ![g] = "finished"] /\ (Goto(g, "load") \/ Goto(g, "add"))
      BY <1>6, <2>3, Zenon DEF Call
    <3> QED
      BY <1>3, <2>1, <3>1, Zenon DEF Trying
  <2>4. CASE Op(g) \notin {"acquire", "release"}
    <3>1. (UNCHANGED pc \/ Goto(g, "run")) /\ UNCHANGED after
      BY <1>6, <2>2, <2>4, Zenon DEF Call, notifyListNotifyOne, notifyListNotifyAll, semaVars, MutexOperations
    <3>2. "run" \notin {"add", "wake"} \union Trying
      BY Zenon DEF Trying, Under
    <3> QED
      BY <1>2, <1>3, <1>4, <1>5, <2>1, <3>1, <3>2, Zenon
  <2> QED
    BY <2>3, <2>4, Zenon
<1>7. CASE SemaStep(g) /\ UNCHANGED mutexVars
  <2>1. UNCHANGED after
    BY <1>7, Zenon DEF SemaStep, Load, Cas, WaitUint32, LockState, LoadLocked, CasLocked, CondWait, Relock, Add,
                WakeUint32, Signal
  <2>2. pc[g] \in {"add", "wake"} \union Trying
    BY <1>7, Zenon DEF SemaStep, Load, Cas, WaitUint32, LockState, LoadLocked, CasLocked, CondWait, Relock, Add,
                WakeUint32, Signal, At, Trying, Under
  <2>3. after[g] = "finished"
    BY <1>2, <2>2, Zenon
  <2>4. \E l \in Trying \union {"wake", "finished"} : Goto(g, l)
    <3>1. CASE Load(g) \/ WaitUint32(g) \/ LockState(g) \/ LoadLocked(g) \/ CondWait(g) \/ Relock(g)
      BY <3>1, Zenon DEF Load, WaitUint32, LockState, LoadLocked, CondWait, Relock, Trying, Under
    <3>2. CASE Cas(g) \/ CasLocked(g)
      BY <2>3, <3>2, Zenon DEF Cas, CasLocked, Trying, Under
    <3>3. CASE Add(g) \/ WakeUint32(g) \/ Signal(g)
      BY <2>3, <3>3, Zenon DEF Add, WakeUint32, Signal
    <3> QED
      BY <1>7, <3>1, <3>2, <3>3, Zenon DEF SemaStep
  <2> QED
    BY <1>3, <1>5, <1>7, <2>1, <2>3, <2>4, Zenon
<1>8. CASE Done(g)
  <2>1. pc[g] = "finished"
    BY <1>2, <1>8, Zenon DEF Done, Trying, Under
  <2>2. Goto(g, "run") /\ after' = [after EXCEPT ![g] = "run"] /\ UNCHANGED mutexVars
    BY <1>8, <2>1, Zenon DEF Done
  <2>3. "run" \notin {"add", "wake"} \union Trying
    BY Zenon DEF Trying, Under
  <2> QED
    BY <1>3, <2>2, <2>3, Zenon
<1>9. ~InWait(g) /\ ~MutexStep(g)
  BY <1>2, Zenon DEF InWait, MutexStep, Lock, TryLock, TryLockCas, LockLoad, LockCas, LockWoken, LockHandoff, Unlock,
              UnlockSlow, UnlockCas, UnlockLoad, Trying, Under
<1>10. CASE Spurious(g)
  BY <1>4, <1>10, Zenon DEF Spurious, SpuriousWake, Stirs, semaVars
<1> QED
  BY <1>1, <1>6, <1>7, <1>8, <1>9, <1>10, Zenon DEF Step

LEMMA ProgramKept ==
    ASSUME ProgramTypes, Next
    PROVE  ProgramTypes' /\ program' = program
<1>1. PICK g \in Gs : Step(g) \/ Spurious(g)
  BY Zenon DEF Next
<1>2. UNCHANGED program /\ (UNCHANGED ip \/ \E k \in {1, 2} : Advance(g, k))
  BY <1>1, Zenon DEF Step, Spurious, Call, InWait, Done, ctlVars
<1>3. ip' \in [Gs -> Nat \ {0}]
  BY <1>2 DEF ProgramTypes, Advance
<1> QED
  BY <1>2, <1>3, Zenon DEF ProgramTypes

LEMMA MutexInit0 ==
    ASSUME Init
    PROVE  MutexInv
<1>1. ProgramTypes
  BY DEF Init, ProgramTypes
<1>2. Idle
  BY Zenon DEF Init, MutexInit, SemaInit, Idle, Trying, Under
<1>3. \A g \in Gs : pc[g] = "run" /\ ~awoke[g] /\ ~starving[g] /\ ip[g] = 1
  BY Zenon DEF Init, MutexInit
<1>4. Credits = {} /\ Queued = {} /\ Takers = {} /\ Released = {}
  BY <1>3, Zenon DEF Credits, Credit, Queued, Acquiring, Takers, Released
<1>5. state = 0 /\ count = 0 /\ holds = {} /\ MutexTypes
  BY Zenon DEF Init, MutexInit, SemaInit, MutexTypes
<1>6. Owner /\ OneCredit /\ Mode
  BY <1>4, <1>5, ZeroWord DEF Owner, OneCredit, Mode, HasCredit
<1>7. Exact
  BY <1>4, <1>5, ZeroWord, FS_EmptySet DEF Exact, OneIf
<1>8. \A g \in Gs : Local(g)
  BY <1>3, Zenon DEF Local, Trying, Under
<1>9. \A g \in Gs : InProgram(g)
  <2>1. \A g \in Gs : ~Holding(program[g], 1)
    BY DEF Holding
  <2> QED
    BY <1>3, <2>1, Zenon DEF InProgram, Trying, Under
<1> QED
  BY <1>1, <1>2, <1>5, <1>6, <1>7, <1>8, <1>9, Zenon DEF MutexInv, InUse, WordInv

\* The invariant of the mutex, for every program that respects its use.
THEOREM MutexInvariant == Spec => [](SemaInv /\ MutexInv)
<1>1. Init => MutexInv
  BY MutexInit0, Zenon
<1>2. SemaInv /\ MutexInv /\ [Next]_vars => MutexInv'
  <2> SUFFICES ASSUME SemaInv, MutexInv, [Next]_vars
               PROVE  MutexInv'
    OBVIOUS
  <2>1. CASE Next
    <3>1. ProgramTypes' /\ (NoMutex' <=> NoMutex)
      BY <2>1, ProgramKept, Zenon DEF MutexInv, NoMutex
    <3> QED
      BY <2>1, <3>1, StepIdle, StepInUse, Zenon DEF MutexInv
  <2>2. CASE UNCHANGED vars
    <3>1. UNCHANGED mutexVars /\ UNCHANGED <<count, pc, after, holds, program, ip>>
      BY <2>2, Zenon DEF vars, semaVars, mutexVars, ctlVars
    <3>2. InUse => InUse'
      BY <3>1, SameWord, Zenon DEF InUse, InProgram, Op
    <3>3. Idle => Idle'
      BY <3>1, Zenon DEF Idle, mutexVars
    <3> QED
      BY <3>1, <3>2, <3>3, Zenon DEF MutexInv, ProgramTypes, NoMutex
  <2> QED
    BY <2>1, <2>2, Zenon
<1> QED
  BY <1>1, <1>2, SemaInvariant, PTL DEF Spec

\* Lock excludes: at most one goroutine has the mutex, and exactly then its word
\* says so, whatever mixture of Lock, TryLock, Unlock and Cond.Wait contends for it
\* in normal and in starvation mode.
THEOREM MutualExclusion == Spec => []Exclusion
<1>1. SemaInv /\ MutexInv => Exclusion
  <2> SUFFICES ASSUME MutexInv
               PROVE  Exclusion
    OBVIOUS
  <2>1. CASE NoMutex
    BY <2>1, ZeroWord, FS_EmptySet, Zenon DEF MutexInv, Idle, Exclusion
  <2>2. CASE ~NoMutex
    <3>1. Owner
      BY <2>2, Zenon DEF MutexInv, InUse, WordInv
    <3>2. \A g : Cardinality({g}) = 1
      BY FS_Singleton, Zenon
    <3> QED
      BY <3>1, <3>2, FS_EmptySet, Zenon DEF Owner, Exclusion
  <2> QED
    BY <2>1, <2>2, Zenon
<1> QED
  BY <1>1, MutexInvariant, PTL

\* The word of the mutex counts its waiters exactly, and at most one wake-up is
\* under way, marked by the woken bit or by starvation mode: no waiter is forgotten
\* or woken twice.
THEOREM WaitersCounted == Spec => []WaitersExact
<1>1. SemaInv /\ MutexInv => WaitersExact
  <2> SUFFICES ASSUME SemaInv, MutexInv
               PROVE  WaitersExact
    OBVIOUS
  <2>1. CASE NoMutex
    <3>1. state = 0 /\ Queued = {}
      BY <2>1, Zenon DEF MutexInv, Idle, Queued, Acquiring, Trying, Under
    <3> QED
      BY <3>1, Zenon DEF WaitersExact
  <2>2. CASE ~NoMutex
    <3>1. OneCredit /\ Mode /\ Exact /\ count \in Nat
      BY <2>2, Zenon DEF MutexInv, InUse, WordInv, SemaInv, SemaTypes
    <3>2. \A h \in Takers \union Released : h \in Credits
      BY Roles, RoleOf, Zenon DEF Credit
    <3>3. Takers = {} \/ Released = {}
      BY <3>1, <3>2, Roles, RoleOf, Zenon DEF OneCredit
    <3>4. ASSUME NEW S \in {Takers, Released}
          PROVE  Cardinality(S) = OneIf(S)
      <4>1. CASE S = {}
        BY <4>1, FS_EmptySet, Zenon DEF OneIf
      <4>2. CASE S # {}
        <5>1. \A x, y \in S : x = y
          BY <3>1, <3>2, Zenon DEF OneCredit
        <5>2. PICK h \in S : TRUE
          BY <4>2, Zenon
        <5>3. S = {h}
          BY <5>1, Zenon
        <5> QED
          BY <4>2, <5>3, FS_Singleton, Zenon DEF OneIf
      <4> QED
        BY <4>1, <4>2, Zenon
    <3>5. Cardinality(Takers) = OneIf(Takers) /\ Cardinality(Released) = OneIf(Released)
      BY <3>4, Zenon
    <3>6. count + OneIf(Released) + OneIf(Takers) <= 1
      BY <3>1, <3>2, <3>3 DEF OneCredit, OneIf
    <3>7. count + OneIf(Released) = 1 => HasCredit
      BY <3>1, <3>2 DEF HasCredit, OneIf
    <3>8. Starving(state) \/ (HasCredit => Woken(state))
      BY <3>1, Zenon DEF Mode
    <3>9. OneIf(Released) \in Nat /\ Cardinality(Queued) \in Nat
      BY <3>1, Roles, Zenon DEF OneIf
    <3> HIDE DEF OneIf
    <3>10. Cardinality({g \in Gs : pc[g] \in {"woken", "handoff"}}) = OneIf(Takers)
      BY <3>5, Zenon DEF Takers
    <3> QED
      BY <3>1, <3>5, <3>6, <3>7, <3>8, <3>9, <3>10 DEF WaitersExact, Exact
  <2> QED
    BY <2>1, <2>2, Zenon
<1> QED
  BY <1>1, MutexInvariant, PTL

\* The mutex never finds its word inconsistent: neither throw nor fatal is reached
\* from lockSlow or unlockSlow.
THEOREM NeverThrows == Spec => [](~thrown)
<1>1. SemaInv /\ MutexInv => ~thrown
  BY Zenon DEF MutexInv, Idle, InUse, WordInv, MutexTypes
<1> QED
  BY <1>1, MutexInvariant, PTL
=============================================================================
