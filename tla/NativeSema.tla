----------------------------- MODULE NativeSema -----------------------------
(***************************************************************************)
(* The semaphores behind package sync on hosted targets, in both forms:    *)
(* "address" sleeps on the count itself (sema_address_llgo.go, a futex),   *)
(* "cond" on a condition variable kept beside it (sema_cond_llgo.go).      *)
(*                                                                         *)
(* An acquire begins at pc "load" and a release at "add"; both end at the  *)
(* place after[g].  Each access to the count is a step; so is each section *)
(* under st.mu that accesses nothing else.                                 *)
(***************************************************************************)
EXTENDS Integers, FiniteSets

CONSTANTS Gs, None

VARIABLES
    form,     \* the form of the target the program was built for
    count,    \* *addr
    seen,     \* v: the count a goroutine loaded; 0 once it is used
    asleep,   \* goroutines in the futex wait or in cond.Wait
    mu,       \* holder of st.mu
    waiters,  \* st.waiters
    pc,       \* where each goroutine is
    after     \* where it goes on after the semaphore operation

semaVars == <<form, count, seen, asleep, mu, waiters, after>>

SemaInit ==
    /\ form \in {"address", "cond"} /\ count = 0
    /\ seen = [g \in Gs |-> 0] /\ asleep = {} /\ mu = None /\ waiters = 0
    /\ after = [g \in Gs |-> "run"]

At(g, l) == pc[g] = l /\ g \notin asleep
Goto(g, l) == pc' = [pc EXCEPT ![g] = l]

(***************************************************************************)
(* semaAcquire                                                             *)
(***************************************************************************)
Load(g) ==
    /\ At(g, "load")
    /\ seen' = [seen EXCEPT ![g] = count]
    /\ Goto(g, IF count = 0 THEN "sleep" ELSE "cas")
    /\ UNCHANGED <<form, count, asleep, mu, waiters, after>>

\* The compare-and-swap takes a token if the count is still the one loaded.
Cas(g) ==
    /\ At(g, "cas")
    /\ IF count = seen[g]
       THEN count' = count - 1 /\ Goto(g, after[g])
       ELSE Goto(g, "sleep") /\ UNCHANGED count
    /\ seen' = [seen EXCEPT ![g] = 0]
    /\ UNCHANGED <<form, asleep, mu, waiters, after>>

\* WaitUint32(addr, 0) sleeps only if the count is zero; then semaAcquire retries.
WaitUint32(g) ==
    /\ At(g, "sleep") /\ form = "address"
    /\ Goto(g, "load")
    /\ asleep' = IF count = 0 THEN asleep \union {g} ELSE asleep
    /\ UNCHANGED <<form, count, seen, mu, waiters, after>>

LockState(g) ==
    /\ At(g, "sleep") /\ form = "cond" /\ mu = None
    /\ mu' = g /\ Goto(g, "loadLocked")
    /\ UNCHANGED <<form, count, seen, asleep, waiters, after>>

LoadLocked(g) ==
    /\ At(g, "loadLocked")
    /\ seen' = [seen EXCEPT ![g] = count]
    /\ Goto(g, IF count = 0 THEN "condWait" ELSE "casLocked")
    /\ UNCHANGED <<form, count, asleep, mu, waiters, after>>

\* A failed compare-and-swap does not mean that the count is zero: it loads again.
CasLocked(g) ==
    /\ At(g, "casLocked")
    /\ IF count = seen[g]
       THEN count' = count - 1 /\ mu' = None /\ Goto(g, after[g])
       ELSE Goto(g, "loadLocked") /\ UNCHANGED <<count, mu>>
    /\ seen' = [seen EXCEPT ![g] = 0]
    /\ UNCHANGED <<form, asleep, waiters, after>>

\* waiters goes up, and cond.Wait sleeps and unlocks at once.
CondWait(g) ==
    /\ At(g, "condWait")
    /\ waiters' = waiters + 1 /\ asleep' = asleep \union {g} /\ mu' = None
    /\ Goto(g, "relock")
    /\ UNCHANGED <<form, count, seen, after>>

\* The wait is over: st.mu again, and waiters goes down.
Relock(g) ==
    /\ At(g, "relock") /\ mu = None
    /\ mu' = g /\ waiters' = waiters - 1 /\ Goto(g, "loadLocked")
    /\ UNCHANGED <<form, count, seen, asleep, after>>

(***************************************************************************)
(* semaReleaseNative                                                       *)
(***************************************************************************)
Add(g) ==
    /\ At(g, "add")
    /\ count' = count + 1
    /\ Goto(g, "wake")
    /\ UNCHANGED <<form, seen, asleep, mu, waiters, after>>

Sleepers == {h \in asleep : pc[h] \in {"load", "relock"}}
WakeOne ==
    IF Sleepers = {} THEN UNCHANGED asleep ELSE \E h \in Sleepers : asleep' = asleep \ {h}

WakeUint32(g) ==
    /\ At(g, "wake") /\ form = "address"
    /\ WakeOne /\ Goto(g, after[g])
    /\ UNCHANGED <<form, count, seen, mu, waiters, after>>

\* Mutated form: a single waiter is taken for one that is already awake.
SignalIfSeveral(g) ==
    /\ At(g, "wake") /\ form = "cond" /\ mu = None
    /\ IF waiters > 1 THEN WakeOne ELSE UNCHANGED asleep
    /\ Goto(g, after[g])
    /\ UNCHANGED <<form, count, seen, mu, waiters, after>>

\* Under st.mu: signals if somebody waits.
Signal(g) ==
    /\ At(g, "wake") /\ form = "cond" /\ mu = None
    /\ IF waiters # 0 THEN WakeOne ELSE UNCHANGED asleep
    /\ Goto(g, after[g])
    /\ UNCHANGED <<form, count, seen, mu, waiters, after>>

SemaStep(g) ==
    \/ Load(g) \/ Cas(g) \/ WaitUint32(g)
    \/ LockState(g) \/ LoadLocked(g) \/ CasLocked(g) \/ CondWait(g) \/ Relock(g)
    \/ Add(g) \/ WakeUint32(g) \/ Signal(g)

\* Futex and condition waits may end by themselves.
SpuriousWake(g) ==
    /\ g \in Sleepers /\ asleep' = asleep \ {g}
    /\ UNCHANGED <<form, count, seen, mu, waiters, after, pc>>

-----------------------------------------------------------------------------
Acquiring == {g \in Gs : pc[g] \in {"load", "cas", "sleep", "loadLocked", "casLocked", "condWait", "relock"}}

\* No token lies idle: with a token there, somebody who wants one is awake, or the
\* release that brought it has yet to wake one.
NoSleepOnToken ==
    count > 0 /\ Acquiring # {} => ~(Acquiring \subseteq asleep) \/ \E g \in Gs : pc[g] = "wake"
=============================================================================
