----------------------------- MODULE NativeSync -----------------------------
(***************************************************************************)
(* Programs over the synchronisation of hosted targets: a mutex, a         *)
(* condition (sync.Cond: notifyList and that mutex) and a bare semaphore,  *)
(* which WaitGroup and RWMutex use.                                        *)
(*                                                                         *)
(* A goroutine runs a sequence of operations.  "await" is the loop         *)
(*     for !flag { cond.Wait() }                                           *)
(* under the mutex, and "set" makes flag true.  "try" is TryLock; if it    *)
(* fails, the operation after it is skipped too.                           *)
(***************************************************************************)
EXTENDS PatchedMutex, NativeNotifyList, Sequences

CONSTANT Programs   \* bound: what the goroutines do

Operations == {"lock", "unlock", "try", "acquire", "release", "await", "set", "signal", "broadcast"}

ASSUME NativeSyncAssumption ==
    /\ IsFiniteSet(Gs) /\ None \notin Gs
    /\ \A p \in Programs : p \in [Gs -> Seq(Operations)]

MutexOperations == {"lock", "unlock", "try", "await"}
SemaOperations == {"acquire", "release"}

\* Before the operation at i the goroutine has locked the mutex and not unlocked it.
Holding(s, i) ==
    \E j \in 1 .. i - 1 : s[j] \in {"lock", "try"} /\ \A k \in j + 1 .. i - 1 : s[k] # "unlock"

\* How package sync may be used: whoever unlocks, or waits for a condition, has the
\* mutex.  The semaphore of a mutex is private to it.
ASSUME UseAssumption ==
    \A p \in Programs :
      /\ \A g \in Gs : \A i \in 1 .. Len(p[g]) :
           /\ p[g][i] \in {"unlock", "await"} => Holding(p[g], i)
           /\ p[g][i] = "try" => i < Len(p[g]) /\ p[g][i + 1] = "unlock"
      /\ \/ \A g \in Gs : \A i \in 1 .. Len(p[g]) : p[g][i] \notin MutexOperations
         \/ \A g \in Gs : \A i \in 1 .. Len(p[g]) : p[g][i] \notin SemaOperations

VARIABLES
    program,  \* the program that runs, chosen at the start
    ip,       \* the operation each goroutine is at
    flag

ctlVars == <<program, ip, flag>>
vars == <<semaVars, mutexVars, listVars, ctlVars, pc>>

Init ==
    /\ SemaInit /\ MutexInit /\ ListInit
    /\ pc = [g \in Gs |-> "run"]
    /\ program \in Programs /\ ip = [g \in Gs |-> 1] /\ flag = FALSE

Advance(g, k) == ip' = [ip EXCEPT ![g] = @ + k]
Op(g) == program[g][ip[g]]

\* The call of an operation.  The list operations are one section under st.mu.
Call(g) ==
    /\ pc[g] = "run" /\ ip[g] <= Len(program[g])
    /\ \/ /\ Op(g) \in {"lock", "try", "unlock"} /\ Goto(g, Op(g))
          /\ UNCHANGED <<semaVars, listVars, ip, flag>>
       \/ /\ Op(g) \in {"acquire", "release"}
          /\ Goto(g, IF Op(g) = "acquire" THEN "load" ELSE "add")
          /\ after' = [after EXCEPT ![g] = "finished"]
          /\ UNCHANGED <<form, count, seen, asleep, mu, waiters, listVars, ip, flag>>
       \/ Op(g) = "set" /\ flag' = TRUE /\ Advance(g, 1) /\ UNCHANGED <<semaVars, listVars, pc>>
       \/ Op(g) = "signal" /\ notifyListNotifyOne(g, "run") /\ Advance(g, 1) /\ UNCHANGED <<semaVars, flag>>
       \/ Op(g) = "broadcast" /\ notifyListNotifyAll(g, "run") /\ Advance(g, 1) /\ UNCHANGED <<semaVars, flag>>
       \/ Op(g) = "await" /\ flag /\ Advance(g, 1) /\ UNCHANGED <<semaVars, listVars, pc, flag>>
       \/ Op(g) = "await" /\ ~flag /\ notifyListAdd(g, "unlock") /\ UNCHANGED <<semaVars, ip, flag>>
    /\ UNCHANGED <<mutexVars, program>>

\* Cond.Wait between its unlock and its lock.
InWait(g) ==
    /\ pc[g] = "list" /\ notifyListWait(g, "lock")
    /\ UNCHANGED <<semaVars, mutexVars, ctlVars>>

\* A mutex operation is over.  Inside Cond.Wait the unlock leads to the list, and
\* the lock back to the loop; otherwise the next operation follows.
Done(g) ==
    /\ pc[g] \in {"done", "failed", "finished"}
    /\ IF pc[g] = "done" /\ Op(g) = "await"
       THEN Goto(g, IF g \in holds THEN "run" ELSE "list") /\ UNCHANGED ip
       ELSE Goto(g, "run") /\ Advance(g, IF pc[g] = "failed" THEN 2 ELSE 1)
    /\ after' = [after EXCEPT ![g] = "run"]
    /\ UNCHANGED <<form, count, seen, asleep, mu, waiters, mutexVars, listVars, program, flag>>

Step(g) ==
    \/ Call(g) \/ InWait(g) \/ Done(g)
    \/ SemaStep(g) /\ UNCHANGED <<mutexVars, listVars, ctlVars>>
    \/ MutexStep(g) /\ UNCHANGED <<listVars, ctlVars>>

Spurious(g) ==
    \/ SpuriousWake(g) /\ UNCHANGED <<mutexVars, listVars, ctlVars>>
    \/ Stirs(g) /\ UNCHANGED <<semaVars, mutexVars, ctlVars>>

Next == ~thrown /\ \E g \in Gs : Step(g) \/ Spurious(g)

Spec == Init /\ [][Next]_vars

\* Goroutines are threads that keep running, and st.mu is not lost for ever to a
\* waiter whose sleep ends again and again.
FairSpec == Spec /\ \A g \in Gs : SF_vars(~thrown /\ Step(g))

-----------------------------------------------------------------------------

\* For goroutines between the call of Cond.Wait and its way back to the mutex.
TurnsKept == TurnsExact({g \in Gs : pc[g] = "list" \/ g \in listening})

\* Every program ends: each lock is granted, no wake-up is lost between a check and
\* a sleep, and a condition that became true and was signalled is seen.  In particular
\* neither "inconsistent mutex state" nor "unlock of unlocked mutex" ends the program.
AllFinish == <>(\A g \in Gs : ip[g] > Len(program[g]))
=============================================================================
