---------------------------- MODULE PatchedMutex ----------------------------
(***************************************************************************)
(* The patched sync.Mutex (_patch/internal/sync/mutex.go) on the native    *)
(* semaphore, which hands nothing off: a token goes to whoever takes it.   *)
(*                                                                         *)
(* state is the code's word: bit 0 locked, bit 1 woken, bit 2 starving,    *)
(* above them the number of waiters.  Each access to it is a step.  The    *)
(* spinning branch is left out: runtime_canSpin is false on these targets. *)
(***************************************************************************)
EXTENDS NativeSema

VARIABLES
    state,     \* m.state
    old,       \* the value a goroutine works from
    awoke, starving,
    holds,     \* goroutines that have locked and not unlocked
    thrown     \* throw or fatal was called

mutexVars == <<state, old, awoke, starving, holds, thrown>>

mutexLocked == 1
mutexWoken == 2
mutexStarving == 4
Waiter == 8

Locked(s) == s % 2 = 1
Woken(s) == (s \div mutexWoken) % 2 = 1
Starving(s) == (s \div mutexStarving) % 2 = 1
Waiters(s) == s \div Waiter

MutexInit ==
    /\ state = 0 /\ old = [g \in Gs |-> 0]
    /\ awoke = [g \in Gs |-> FALSE] /\ starving = [g \in Gs |-> FALSE]
    /\ holds = {} /\ thrown = FALSE

\* A local variable that is dead is reset, so that it does not tell states apart.
Forget(g) == old' = [old EXCEPT ![g] = 0] /\ awoke' = [awoke EXCEPT ![g] = FALSE] /\ starving' = [starving EXCEPT ![g] = FALSE]
Remember(g) == old' = [old EXCEPT ![g] = state]
Gets(g) == holds' = holds \union {g} /\ Forget(g) /\ Goto(g, "done")
Throws == thrown' = TRUE /\ UNCHANGED <<state, old, awoke, starving, holds, pc, after>>

Lock(g) ==
    /\ pc[g] = "lock"
    /\ IF state = 0
       THEN state' = mutexLocked /\ Gets(g)
       ELSE Goto(g, "lockLoad") /\ UNCHANGED <<state, old, awoke, starving, holds>>
    /\ UNCHANGED <<thrown, semaVars>>

\* old = m.state, at the start of lockSlow and after each failed compare-and-swap.
LockLoad(g) ==
    /\ pc[g] = "lockLoad"
    /\ Remember(g) /\ Goto(g, "lockCas")
    /\ UNCHANGED <<state, awoke, starving, holds, thrown, semaVars>>

TryLock(g) ==
    /\ pc[g] = "try"
    /\ IF Locked(state) \/ Starving(state)
       THEN Goto(g, "failed") /\ UNCHANGED old
       ELSE Goto(g, "tryCas") /\ Remember(g)
    /\ UNCHANGED <<state, awoke, starving, holds, thrown, semaVars>>

\* Mutated form: a store instead of the compare-and-swap.
TryLockStore(g) ==
    /\ pc[g] = "tryCas"
    /\ state' = old[g] + mutexLocked /\ Gets(g)
    /\ UNCHANGED <<thrown, semaVars>>

TryLockCas(g) ==
    /\ pc[g] = "tryCas"
    /\ IF state = old[g]
       THEN state' = state + mutexLocked /\ Gets(g)
       ELSE Goto(g, "failed") /\ Forget(g) /\ UNCHANGED <<state, holds>>
    /\ UNCHANGED <<thrown, semaVars>>

Bit(b, v) == IF b THEN v ELSE 0

\* new, before the compare-and-swap of lockSlow.
NewState(g) ==
    LET o == old[g]
    IN  o + Bit(~Starving(o) /\ ~Locked(o), mutexLocked)
          + Bit(Locked(o) \/ Starving(o), Waiter)
          + Bit(starving[g] /\ Locked(o) /\ ~Starving(o), mutexStarving)
          - Bit(awoke[g], mutexWoken)

\* One turn of lockSlow: it locks, or joins the waiters and acquires the semaphore.
LockCas(g) ==
    /\ pc[g] = "lockCas"
    /\ IF awoke[g] /\ ~Woken(old[g])
       THEN Throws
       ELSE /\ IF state # old[g]
               THEN Goto(g, "lockLoad") /\ old' = [old EXCEPT ![g] = 0]
                    /\ UNCHANGED <<state, awoke, starving, holds, after>>
               ELSE /\ state' = NewState(g)
                    /\ IF Locked(old[g]) \/ Starving(old[g])
                       THEN after' = [after EXCEPT ![g] = "woken"] /\ Goto(g, "load")
                            /\ old' = [old EXCEPT ![g] = 0] /\ awoke' = [awoke EXCEPT ![g] = FALSE]
                            /\ UNCHANGED <<starving, holds>>
                       ELSE Gets(g) /\ UNCHANGED after
            /\ UNCHANGED thrown
    /\ UNCHANGED <<form, count, seen, asleep, mu, waiters>>

\* Awake with a token: the wait may have exceeded starvationThresholdNs.
LockWoken(g) ==
    /\ pc[g] = "woken"
    /\ IF Starving(state) /\ (Locked(state) \/ Woken(state) \/ Waiters(state) = 0)
       THEN Throws
       ELSE /\ \E b \in {starving[g], TRUE} : starving' = [starving EXCEPT ![g] = b]
            /\ Remember(g)
            /\ awoke' = [awoke EXCEPT ![g] = ~Starving(state)]
            /\ Goto(g, IF Starving(state) THEN "handoff" ELSE "lockCas")
            /\ after' = [after EXCEPT ![g] = "run"]
            /\ UNCHANGED <<state, holds, thrown>>
    /\ UNCHANGED <<form, count, seen, asleep, mu, waiters>>

\* Starvation mode ends with the last waiter, or one that did not wait long.
LeavesStarvation(g) == ~starving[g] \/ Waiters(old[g]) = 1

\* In starvation mode the mutex is the waiter's: it adds delta.
LockHandoff(g) ==
    /\ pc[g] = "handoff"
    /\ state' = state + mutexLocked - Waiter - Bit(LeavesStarvation(g), mutexStarving)
    /\ Gets(g)
    /\ UNCHANGED <<thrown, semaVars>>

Unlock(g) ==
    /\ pc[g] = "unlock"
    /\ state' = state - mutexLocked /\ holds' = holds \ {g}
    /\ old' = [old EXCEPT ![g] = state - mutexLocked]
    /\ Goto(g, IF state = mutexLocked THEN "done" ELSE "unlockSlow")
    /\ UNCHANGED <<awoke, starving, thrown, semaVars>>

\* Mutated forms: a waiter is woken although another one is awake; a single waiter
\* is not woken.
EnoughUnwoken(s) == Waiters(s) = 0 \/ Locked(s) \/ Starving(s)
EnoughButOne(s) == Waiters(s) <= 1 \/ Locked(s) \/ Woken(s) \/ Starving(s)

\* Nobody waits, or somebody else will take care of the waiters.
Enough(s) == Waiters(s) = 0 \/ Locked(s) \/ Woken(s) \/ Starving(s)

UnlockSlow(g) ==
    /\ pc[g] = "unlockSlow"
    /\ IF ~Locked(old[g] + mutexLocked)
       THEN Throws
       ELSE /\ IF Starving(old[g])
               THEN after' = [after EXCEPT ![g] = "done"] /\ Goto(g, "add") /\ Forget(g)
               ELSE Goto(g, "unlockCas") /\ UNCHANGED <<old, awoke, starving, after>>
            /\ UNCHANGED <<state, holds, thrown>>
    /\ UNCHANGED <<form, count, seen, asleep, mu, waiters>>

UnlockCas(g) ==
    /\ pc[g] = "unlockCas"
    /\ IF Enough(old[g])
       THEN Goto(g, "done") /\ Forget(g) /\ UNCHANGED <<state, after>>
       ELSE IF state = old[g]
       THEN /\ state' = state - Waiter + Bit(~Woken(state), mutexWoken)
            /\ after' = [after EXCEPT ![g] = "done"] /\ Goto(g, "add") /\ Forget(g)
       ELSE Goto(g, "unlockLoad") /\ Forget(g) /\ UNCHANGED <<state, after>>
    /\ UNCHANGED <<holds, thrown, form, count, seen, asleep, mu, waiters>>

UnlockLoad(g) ==
    /\ pc[g] = "unlockLoad"
    /\ Remember(g) /\ Goto(g, "unlockCas")
    /\ UNCHANGED <<state, awoke, starving, holds, thrown, semaVars>>

MutexStep(g) ==
    \/ Lock(g) \/ TryLock(g) \/ TryLockCas(g)
    \/ LockLoad(g) \/ LockCas(g) \/ LockWoken(g) \/ LockHandoff(g)
    \/ Unlock(g) \/ UnlockSlow(g) \/ UnlockCas(g) \/ UnlockLoad(g)

-----------------------------------------------------------------------------
\* At most one goroutine has the mutex, and exactly then it is locked.
Exclusion == Cardinality(holds) = IF Locked(state) THEN 1 ELSE 0

Queued == {g \in Acquiring : after[g] = "woken"}
Released == {g \in Gs : pc[g] = "add" /\ after[g] = "done"}

\* The waiters in the word are the goroutines in the semaphore, less the one that
\* a token was released for; in starvation mode that one is still counted until it
\* takes the mutex.  At most one token is out, and it is covered by a bit.
WaitersExact ==
    LET tokens == count + Cardinality(Released)
        takers == Cardinality({g \in Gs : pc[g] \in {"woken", "handoff"}})
    IN  Queued # {} \/ state # 0 =>
          /\ tokens + takers <= 1
          /\ IF Starving(state)
             THEN Waiters(state) = Cardinality(Queued) + takers
             ELSE Waiters(state) = Cardinality(Queued) - tokens /\ (tokens = 1 => Woken(state))
=============================================================================
