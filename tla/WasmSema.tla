------------------------------ MODULE WasmSema ------------------------------
(***************************************************************************)
(* Semaphores and notify lists of the multi-worker WebAssembly runtime     *)
(* (lib/runtime/sema_wasm_workers_llgo.go, sema_wasm_llgo.go), on the      *)
(* notifications of scheduler_waiter_wasm_workers.go and the run queues of *)
(* proc_wasm_workers.go.                                                   *)
(*                                                                         *)
(* Every G belongs to one worker, which runs it until it swaps out.  An    *)
(* atomic access to shared memory is a step; the parts under the           *)
(* wait-queues lock that nobody else can look into are one step.           *)
(***************************************************************************)
EXTENDS Integers, Sequences, FiniteSets, FiniteSetsExt, SequencesExt, Tickets

CONSTANTS
    Gs, Workers,
    Addrs,      \* semaphores and notify lists
    Owner,      \* the worker of each G
    Main,       \* the main G, on worker 0
    InitSema,   \* the value of each semaphore at the start
    Programs,   \* bound: what each G may be given to do
    None

\* A wait is notifyListAdd and notifyListWait; one and all notify a list.  flag is
\* lifo of an acquire, handoff of a release.
Kinds == {"acquire", "release", "wait", "one", "all"}
Ops == [kind : Kinds, addr : Addrs, flag : BOOLEAN]

ASSUME SemaAssumption ==
    /\ Owner \in [Gs -> Workers] /\ Main \in Gs
    /\ InitSema \in [Addrs -> Nat]
    /\ \A p \in Programs : p \in [Gs -> Seq(Ops)]
    /\ None \notin Gs

\* Bound: one waiter record per G is enough, since a G waits in one place.
Records == 1 .. Cardinality(Gs)

VARIABLES
    program,                \* the operations of each G
    sema,                   \* the counts
    wait, notify,           \* the words of the notify lists
    ticket, mark,           \* the ticket of a G in a wait, and that of a record
    batch,                  \* the queue that a G's NotifyAll took out of the table
    queue, free, qlock,     \* wait queues, free records, wasmWaitQueuesLock
    waiter, notified,       \* of a record: the G, the notification
    status, active,         \* atomicstatus of each G, wasmMultiSched.active
    runq, cur,              \* of a worker: its run queue, the G it runs
    idle,                   \* worker 0 found its run queue empty
    pc, pos, value, rec,    \* where a G is, its operation, its locals
    target,                 \* the G that its Ready makes runnable
    fatal,                  \* the fatal error reported
    granted, acquired, released,    \* history
    serial, added, told     \* history: ticket, wait and notify, not wrapped

listVars == <<wait, notify, ticket, serial, added, told>>
semaVars == <<sema, queue, free, qlock, waiter, mark, granted, acquired, released>>
schedVars == <<status, active, runq, cur, idle, fatal>>
locals == <<pos, value, rec, target>>
vars == <<program, sema, wait, notify, ticket, mark, batch, queue, free, qlock, waiter,
          notified, status, active, runq, cur, idle, pc, pos, value, rec, target, fatal,
          granted, acquired, released, serial, added, told>>

Worker0 == Owner[Main]
Op(g) == program[g][pos[g]]

\* g is about to call an operation of this kind.
Calls(g, kind) == pos[g] <= Len(program[g]) /\ Op(g).kind = kind
Goto(g, l) == pc' = [pc EXCEPT ![g] = l]

\* g executes: its worker runs it and no fatal error ended the program.
At(g, l) == pc[g] = l /\ cur[Owner[g]] = g /\ fatal = "none"

\* The operation returns.
Done(g) == Goto(g, "next") /\ pos' = [pos EXCEPT ![g] = @ + 1]
Acquired(g) == acquired' = [acquired EXCEPT ![Op(g).addr] = @ + 1]

(***************************************************************************)
(* semaAcquireInternal                                                     *)
(***************************************************************************)
AcquireLoad(g) ==
    /\ At(g, "next")
    /\ Calls(g, "acquire")
    /\ value' = [value EXCEPT ![g] = sema[Op(g).addr]]
    /\ Goto(g, IF sema[Op(g).addr] # 0 THEN "cas" ELSE "lock")
    /\ UNCHANGED <<semaVars, schedVars, notified, pos, rec, target>>

\* Mutated form: the count is stored without comparing it.
AcquireStore(g) ==
    /\ At(g, "cas")
    /\ sema' = [sema EXCEPT ![Op(g).addr] = value[g] - 1]
    /\ Acquired(g) /\ Done(g)
    /\ UNCHANGED <<queue, free, qlock, waiter, mark, granted, released, schedVars, notified,
                   value, rec, target>>

AcquireCas(g) ==
    LET a == Op(g).addr IN
    /\ At(g, "cas")
    /\ \/ /\ sema[a] = value[g]
          /\ sema' = [sema EXCEPT ![a] = @ - 1]
          /\ Acquired(g) /\ Done(g)
       \/ /\ sema[a] # value[g]
          /\ Goto(g, "lock")
          /\ UNCHANGED <<sema, acquired, pos>>
    /\ UNCHANGED <<queue, free, qlock, waiter, mark, granted, released, schedVars, notified,
                   value, rec, target>>

\* Mutated form: the count is not read again under the lock.
AcquireLockStale(g) ==
    /\ At(g, "lock")
    /\ qlock = None
    /\ qlock' = g
    /\ Goto(g, "locked")
    /\ UNCHANGED <<sema, queue, free, waiter, mark, granted, acquired, released, schedVars,
                   notified, locals>>

AcquireLock(g) ==
    /\ At(g, "lock")
    /\ qlock = None
    /\ qlock' = g
    /\ value' = [value EXCEPT ![g] = sema[Op(g).addr]]
    /\ Goto(g, "locked")
    /\ UNCHANGED <<sema, queue, free, waiter, mark, granted, acquired, released, schedVars,
                   notified, pos, rec, target>>

LockedCas(g) ==
    LET a == Op(g).addr IN
    /\ At(g, "locked")
    /\ value[g] # 0 /\ sema[a] = value[g]
    /\ sema' = [sema EXCEPT ![a] = @ - 1]
    /\ qlock' = None
    /\ Acquired(g) /\ Done(g)
    /\ UNCHANGED <<queue, free, waiter, mark, granted, released, schedVars, notified, value, rec,
                   target>>

\* acquireWasmWaiter takes the last freed record, or makes a new one.
acquireWasmWaiter(g, t) ==
    LET r == IF free # <<>> THEN Head(free) ELSE Min({x \in Records : waiter[x] = None}) IN
    /\ free' = IF free # <<>> THEN Tail(free) ELSE free
    /\ waiter' = [waiter EXCEPT ![r] = g]
    /\ notified' = [notified EXCEPT ![r] = 0]
    /\ mark' = [mark EXCEPT ![r] = t]
    /\ rec' = [rec EXCEPT ![g] = r]

push(q, r, lifo) == IF lifo THEN <<r>> \o q ELSE Append(q, r)

\* g queues a record with ticket t, and goes on to park on it.
Sleeps(g, t, lifo) ==
    /\ acquireWasmWaiter(g, t)
    /\ queue' = [queue EXCEPT ![Op(g).addr] = push(@, rec'[g], lifo)]
    /\ granted' = [granted EXCEPT ![g] = FALSE]
    /\ Goto(g, "park")

Enqueue(g) ==
    /\ At(g, "locked")
    /\ value[g] = 0 \/ sema[Op(g).addr] # value[g]
    /\ Sleeps(g, 0, Op(g).flag)
    /\ qlock' = None
    /\ UNCHANGED <<sema, acquired, released, schedVars, pos, value, target>>

(***************************************************************************)
(* SchedulerWaiter.Park                                                    *)
(***************************************************************************)
\* Mutated form: an early notification is consumed, and Park goes on to wait.
ParkEarlyLost(g) ==
    /\ At(g, "park")
    /\ notified' = [notified EXCEPT ![rec[g]] = 0]
    /\ Goto(g, "wait")
    /\ UNCHANGED <<semaVars, schedVars, locals>>

ParkEarly(g) ==
    /\ At(g, "park")
    /\ notified' = [notified EXCEPT ![rec[g]] = 0]
    /\ Goto(g, IF notified[rec[g]] = 1 THEN "woken" ELSE "wait")
    /\ UNCHANGED <<semaVars, schedVars, locals>>

ParkWaiting(g) ==
    /\ At(g, "wait")
    /\ status' = [status EXCEPT ![g] = "waiting"]
    /\ Goto(g, "recheck")
    /\ UNCHANGED <<semaVars, notified, active, runq, cur, idle, fatal, locals>>

ParkRecheck(g) ==
    /\ At(g, "recheck")
    /\ notified' = [notified EXCEPT ![rec[g]] = 0]
    /\ Goto(g, IF notified[rec[g]] = 1 THEN "undo" ELSE "swap")
    /\ UNCHANGED <<semaVars, schedVars, locals>>

ParkUndo(g) ==
    /\ At(g, "undo")
    /\ status' = [status EXCEPT ![g] = IF @ = "waiting" THEN "running" ELSE @]
    /\ Goto(g, IF status[g] = "waiting" THEN "woken" ELSE "swap")
    /\ UNCHANGED <<semaVars, notified, active, runq, cur, idle, fatal, locals>>

ParkSwap(g) ==
    /\ At(g, "swap")
    /\ active' = active - 1
    /\ cur' = [cur EXCEPT ![Owner[g]] = None]
    /\ Goto(g, "parked")
    /\ UNCHANGED <<semaVars, notified, status, runq, idle, fatal, locals>>

ParkResumed(g) ==
    /\ At(g, "parked")
    /\ notified' = [notified EXCEPT ![rec[g]] = 0]
    /\ Goto(g, "woken")
    /\ UNCHANGED <<semaVars, schedVars, locals>>

\* releaseWasmWaiter, and the acquire or the wait returns.
ReleaseWaiter(g) ==
    /\ At(g, "woken")
    /\ qlock = None
    /\ waiter' = [waiter EXCEPT ![rec[g]] = None]
    /\ notified' = [notified EXCEPT ![rec[g]] = 0]
    /\ free' = <<rec[g]>> \o free
    /\ mark' = [mark EXCEPT ![rec[g]] = 0]
    /\ rec' = [rec EXCEPT ![g] = 0]
    /\ IF Op(g).kind = "acquire" THEN Acquired(g) ELSE UNCHANGED acquired
    /\ Done(g)
    /\ UNCHANGED <<sema, queue, qlock, granted, released, schedVars, value, target>>

(***************************************************************************)
(* semaRelease and SchedulerWaiter.Ready                                   *)
(***************************************************************************)
\* Mutated form: the last waiter is notified, the first one leaves the queue.
ReleaseLast(g) ==
    LET a == Op(g).addr IN
    /\ At(g, "next")
    /\ Calls(g, "release")
    /\ qlock = None
    /\ released' = [released EXCEPT ![a] = @ + 1]
    /\ \/ /\ queue[a] # <<>>
          /\ queue' = [queue EXCEPT ![a] = Tail(@)]
          /\ granted' = [granted EXCEPT ![waiter[Head(queue[a])]] = TRUE]
          /\ rec' = [rec EXCEPT ![g] = Last(queue[a])]
          /\ Goto(g, "ready")
          /\ UNCHANGED <<sema, pos>>
       \/ /\ queue[a] = <<>>
          /\ sema' = [sema EXCEPT ![a] = @ + 1]
          /\ Done(g)
          /\ UNCHANGED <<queue, granted, rec>>
    /\ UNCHANGED <<free, qlock, waiter, mark, acquired, schedVars, notified, value, target>>

semaRelease(g) ==
    LET a == Op(g).addr IN
    /\ At(g, "next")
    /\ Calls(g, "release")
    /\ qlock = None
    /\ released' = [released EXCEPT ![a] = @ + 1]
    /\ \/ /\ queue[a] # <<>>
          /\ queue' = [queue EXCEPT ![a] = Tail(@)]
          /\ granted' = [granted EXCEPT ![waiter[Head(queue[a])]] = TRUE]
          /\ rec' = [rec EXCEPT ![g] = Head(queue[a])]
          /\ Goto(g, "ready")
          /\ UNCHANGED <<sema, pos>>
       \/ /\ queue[a] = <<>>
          /\ sema' = [sema EXCEPT ![a] = @ + 1]
          /\ Done(g)
          /\ UNCHANGED <<queue, granted, rec>>
    /\ UNCHANGED <<free, qlock, waiter, mark, acquired, schedVars, notified, value, target>>

\* After Ready: NotifyAll goes on with the rest of its queue, semaRelease with
\* handoff yields, otherwise the operation returns.
AfterReady(g) ==
    /\ target' = [target EXCEPT ![g] = None]
    /\ IF batch[g] # <<>>
       THEN /\ rec' = [rec EXCEPT ![g] = Head(batch[g])]
            /\ batch' = [batch EXCEPT ![g] = Tail(@)]
            /\ Goto(g, "ready")
            /\ UNCHANGED pos
       ELSE /\ rec' = [rec EXCEPT ![g] = 0]
            /\ IF Op(g).flag THEN Goto(g, "yield") /\ UNCHANGED pos ELSE Done(g)
            /\ UNCHANGED batch

\* A notification that is already there is left alone.
ReadyNotify(g) ==
    LET r == rec[g] IN
    /\ At(g, "ready")
    /\ fatal' = IF waiter[r] = None THEN "ready of invalid waiter" ELSE fatal
    /\ notified' = [notified EXCEPT ![r] = 1]
    /\ IF notified[r] = 0
       THEN /\ target' = [target EXCEPT ![g] = waiter[r]]
            /\ Goto(g, "runnable")
            /\ UNCHANGED <<pos, rec, batch>>
       ELSE AfterReady(g)
    /\ UNCHANGED <<semaVars, status, active, runq, cur, idle, value>>

ReadyRunnable(g) ==
    /\ At(g, "runnable")
    /\ \/ /\ status[target[g]] = "waiting"
          /\ status' = [status EXCEPT ![target[g]] = "runnable"]
          /\ Goto(g, "activate")
          /\ UNCHANGED <<pos, rec, target, batch>>
       \/ /\ status[target[g]] # "waiting"
          /\ AfterReady(g)
          /\ UNCHANGED status
    /\ UNCHANGED <<semaVars, notified, active, runq, cur, idle, fatal, value>>

\* Mutated form: the G that Ready makes runnable is not counted as active.
ReadyUncounted(g) ==
    /\ At(g, "activate")
    /\ Goto(g, "enqueue")
    /\ UNCHANGED <<semaVars, notified, status, active, runq, cur, idle, fatal, locals, batch>>

ReadyActivate(g) ==
    /\ At(g, "activate")
    /\ active' = active + 1
    /\ Goto(g, "enqueue")
    /\ UNCHANGED <<semaVars, notified, status, runq, cur, idle, fatal, locals, batch>>

\* enqueueWasmG: a G that is queued already is refused.
Queued(g) == \E w \in Workers : Contains(runq[w], g)

ReadyEnqueue(g) ==
    LET gp == target[g] IN
    /\ At(g, "enqueue")
    /\ fatal' = IF Queued(gp) THEN "invalid run queue insertion" ELSE fatal
    /\ runq' = IF Queued(gp) THEN runq ELSE [runq EXCEPT ![Owner[gp]] = Append(@, gp)]
    /\ AfterReady(g)
    /\ UNCHANGED <<semaVars, notified, status, active, cur, idle, value>>

(***************************************************************************)
(* notifyListAdd, notifyListWait, NotifyAll and NotifyOne                  *)
(***************************************************************************)
notifyListAdd(g) ==
    LET a == Op(g).addr IN
    /\ At(g, "next") /\ Calls(g, "wait")
    /\ wait' = [wait EXCEPT ![a] = Wrap(@ + 1)] /\ added' = [added EXCEPT ![a] = @ + 1]
    /\ ticket' = [ticket EXCEPT ![g] = wait[a]] /\ serial' = [serial EXCEPT ![g] = added[a]]
    /\ Goto(g, "listLoad")
    /\ UNCHANGED <<semaVars, schedVars, notified, locals, batch, notify, told>>

\* ticketLess(ticket, l.notify)
Served(g) == Before(ticket[g], notify[Op(g).addr])

ListLoad(g) ==
    /\ At(g, "listLoad")
    /\ IF Served(g) THEN Done(g) ELSE Goto(g, "listLock") /\ UNCHANGED pos
    /\ UNCHANGED <<semaVars, schedVars, listVars, notified, value, rec, target, batch>>

ListWait(g) ==
    /\ At(g, "listLock")
    /\ qlock = None
    /\ IF Served(g)
       THEN Done(g) /\ UNCHANGED <<queue, free, waiter, mark, notified, granted, rec>>
       ELSE Sleeps(g, ticket[g], FALSE) /\ UNCHANGED pos
    /\ UNCHANGED <<sema, qlock, acquired, released, schedVars, listVars, value, target, batch>>

\* g has taken the records rs out of the table, and makes their Gs ready in turn.
Wakes(g, rs) ==
    /\ granted' = [x \in Gs |-> granted[x] \/ \E i \in DOMAIN rs : waiter[rs[i]] = x]
    /\ IF rs = <<>>
       THEN Done(g) /\ UNCHANGED <<rec, batch>>
       ELSE /\ rec' = [rec EXCEPT ![g] = Head(rs)]
            /\ batch' = [batch EXCEPT ![g] = Tail(rs)]
            /\ Goto(g, "ready")
            /\ UNCHANGED pos

notifyListNotifyAll(g) ==
    LET a == Op(g).addr IN
    /\ At(g, "next") /\ Calls(g, "all")
    /\ qlock = None
    /\ IF notify[a] = wait[a]
       THEN Wakes(g, <<>>) /\ UNCHANGED <<notify, told, queue>>
       ELSE /\ notify' = [notify EXCEPT ![a] = wait[a]] /\ told' = [told EXCEPT ![a] = added[a]]
            /\ queue' = [queue EXCEPT ![a] = <<>>]
            /\ Wakes(g, queue[a])
    /\ UNCHANGED <<sema, free, qlock, waiter, mark, acquired, released, schedVars, notified,
                   value, target, wait, ticket, serial, added>>

\* Mutated form: the waiter at the head of the queue is taken, whatever its ticket.
popAny(q, t) == IF q = <<>> THEN <<>> ELSE <<Head(q)>>

\* The record with this ticket, if it is queued.
removeTicket(q, t) == LET found == SelectSeq(q, LAMBDA r : mark[r] = t) IN
    IF found = <<>> THEN <<>> ELSE <<Head(found)>>

\* The ticket is served even if its G has not queued itself yet.
notifyListNotifyOne(g) ==
    LET a == Op(g).addr
        w == removeTicket(queue[a], notify[a])
    IN
    /\ At(g, "next") /\ Calls(g, "one")
    /\ qlock = None
    /\ IF notify[a] = wait[a]
       THEN Wakes(g, <<>>) /\ UNCHANGED <<notify, told, queue>>
       ELSE /\ notify' = [notify EXCEPT ![a] = Wrap(@ + 1)] /\ told' = [told EXCEPT ![a] = @ + 1]
            /\ queue' = [queue EXCEPT ![a] = SelectSeq(@, LAMBDA r : w = <<>> \/ r # w[1])]
            /\ Wakes(g, w)
    /\ UNCHANGED <<sema, free, qlock, waiter, mark, acquired, released, schedVars, notified,
                   value, target, wait, ticket, serial, added>>

(***************************************************************************)
(* goschedBackend, finishWasmG, and the worker loop                        *)
(***************************************************************************)
Gosched(g) ==
    /\ At(g, "yield")
    /\ status' = [status EXCEPT ![g] = "runnable"]
    /\ runq' = [runq EXCEPT ![Owner[g]] = Append(@, g)]
    /\ cur' = [cur EXCEPT ![Owner[g]] = None]
    /\ Done(g)
    /\ UNCHANGED <<semaVars, notified, active, idle, fatal, value, rec, target>>

finishWasmG(g) ==
    /\ At(g, "next")
    /\ pos[g] > Len(program[g])
    /\ status' = [status EXCEPT ![g] = "dead"]
    /\ active' = active - 1
    /\ cur' = [cur EXCEPT ![Owner[g]] = None]
    /\ Goto(g, "dead")
    /\ UNCHANGED <<semaVars, notified, runq, idle, fatal, locals>>

\* Worker 0 leaves its loop when the main G has returned.
Looping(w) == cur[w] = None /\ fatal = "none" /\ (w = Worker0 => status[Main] # "dead")

runWasmG(w) ==
    LET g == Head(runq[w]) IN
    /\ Looping(w) /\ (w = Worker0 => ~idle)
    /\ runq[w] # <<>>
    /\ runq' = [runq EXCEPT ![w] = Tail(@)]
    /\ status' = [status EXCEPT ![g] = "running"]
    /\ cur' = [cur EXCEPT ![w] = g]
    /\ UNCHANGED <<semaVars, notified, active, idle, pc, fatal, locals>>

\* waitWasmWorkerRunq on worker 0, without timers or callbacks: the run queue is
\* empty, and then the active count decides between waiting and a deadlock.
PollRunq ==
    /\ Looping(Worker0)
    /\ runq[Worker0] = <<>> /\ ~idle
    /\ idle' = TRUE
    /\ UNCHANGED <<semaVars, notified, status, active, runq, cur, pc, fatal, locals>>

CheckActive ==
    /\ Looping(Worker0)
    /\ idle
    /\ idle' = FALSE
    /\ fatal' = IF active = 0 THEN "all goroutines are asleep" ELSE fatal
    /\ UNCHANGED <<semaVars, notified, status, active, runq, cur, pc, locals>>

-----------------------------------------------------------------------------
Init ==
    /\ program \in Programs
    /\ sema = InitSema
    /\ wait = [a \in Addrs |-> Wrap(Start)] /\ notify = wait
    /\ added = [a \in Addrs |-> Start] /\ told = added
    /\ ticket = [g \in Gs |-> 0] /\ serial = [g \in Gs |-> 0]
    /\ mark = [r \in Records |-> 0]
    /\ batch = [g \in Gs |-> <<>>]
    /\ queue = [a \in Addrs |-> <<>>] /\ free = <<>> /\ qlock = None
    /\ waiter = [r \in Records |-> None]
    /\ notified = [r \in Records |-> 0]
    /\ status = [g \in Gs |-> "runnable"]
    /\ active = Cardinality(Gs)
    /\ runq = [w \in Workers |-> SetToSeq({g \in Gs : Owner[g] = w})]
    /\ cur = [w \in Workers |-> None]
    /\ idle = FALSE
    /\ pc = [g \in Gs |-> "next"]
    /\ pos = [g \in Gs |-> 1]
    /\ value = [g \in Gs |-> 0]
    /\ rec = [g \in Gs |-> 0]
    /\ target = [g \in Gs |-> None]
    /\ fatal = "none"
    /\ granted = [g \in Gs |-> FALSE]
    /\ acquired = [a \in Addrs |-> 0]
    /\ released = [a \in Addrs |-> 0]

AcquireStep(g) ==
    \/ AcquireLoad(g) \/ AcquireCas(g) \/ AcquireLock(g) \/ LockedCas(g) \/ Enqueue(g)
    \/ ReleaseWaiter(g)

ParkStep(g) ==
    \/ ParkEarly(g) \/ ParkWaiting(g) \/ ParkRecheck(g) \/ ParkUndo(g) \/ ParkSwap(g)
    \/ ParkResumed(g)

ReadyStep(g) ==
    \/ ReadyNotify(g) \/ ReadyRunnable(g) \/ ReadyActivate(g) \/ ReadyEnqueue(g)

ListStep(g) ==
    \/ notifyListAdd(g) \/ ListLoad(g) \/ ListWait(g)
    \/ notifyListNotifyAll(g) \/ notifyListNotifyOne(g)

SemaStep(g) == AcquireStep(g) \/ semaRelease(g) \/ Gosched(g)

Step(g) ==
    /\ \/ (SemaStep(g) \/ ParkStep(g) \/ finishWasmG(g)) /\ UNCHANGED <<listVars, batch>>
       \/ ReadyStep(g) /\ UNCHANGED listVars
       \/ ListStep(g)
    /\ UNCHANGED program

LoopStep(w) ==
    /\ runWasmG(w) \/ (w = Worker0 /\ (PollRunq \/ CheckActive))
    /\ UNCHANGED <<listVars, batch, program>>

Next == (\E g \in Gs : Step(g)) \/ (\E w \in Workers : LoopStep(w))

Spec == Init /\ [][Next]_vars

\* A worker is a thread: it goes on running its current G, and a free worker takes
\* the next G of its queue.  Worker 0 alternates between polling and looking at
\* the active count, so that its turn to run a G comes again and again.
FairSpec ==
    /\ Spec
    /\ \A g \in Gs : SF_vars(Step(g))
    /\ \A w \in Workers : SF_vars(runWasmG(w) /\ LoopStep(w))
    /\ WF_vars(CheckActive /\ LoopStep(Worker0))

-----------------------------------------------------------------------------
Statuses == {"running", "runnable", "waiting", "dead"}

\* Types of the semaphores, the records and the scheduler state.
TypeOK ==
    /\ sema \in [Addrs -> Nat]
    /\ \A a \in Addrs : queue[a] \in Seq(Records)
    /\ free \in Seq(Records)
    /\ qlock \in Gs \cup {None}
    /\ waiter \in [Records -> Gs \cup {None}]
    /\ notified \in [Records -> {0, 1}]
    /\ {wait, notify} \subseteq [Addrs -> 0 .. Modulus - 1]
    /\ status \in [Gs -> Statuses]
    /\ active \in 0 .. 2 * Cardinality(Gs)
    /\ cur \in [Workers -> Gs \cup {None}]

\* No acquire returns without a token: those that returned are covered by the
\* initial count and the releases, and no count is taken below zero.
TokensCovered == TypeOK /\ \A a \in Addrs : acquired[a] <= InitSema[a] + released[a]

\* Park returns only when a release has chosen the record it parks on: the
\* notification belongs to one waiter, and no other Ready ends the wait.
ParkUntilReady == \A g \in Gs : pc[g] = "woken" => granted[g]

\* While nobody holds the queues, an acquirer sleeps only if the count is zero.
NoSleepOnToken == qlock = None => \A a \in Addrs : sema[a] > 0 => queue[a] = <<>>

\* The only fatal error is a deadlock, and it is reported only when every G is asleep
\* or gone and none of them is about to be made runnable: however Ready and Park
\* meet, enqueueWasmG never finds a G that is queued already.
NoFalseDeadlock ==
    fatal # "none" =>
        /\ fatal = "all goroutines are asleep"
        /\ \A g \in Gs : status[g] \in {"waiting", "dead"} /\ cur[Owner[g]] # g

InPark(g) == pc[g] \in {"park", "wait", "recheck", "undo", "swap", "parked", "woken"}
InWait(g) == pc[g] # "dead" /\ pos[g] <= Len(program[g]) /\ Op(g).kind = "wait"

\* Notify lists serve tickets in turn, and the wrapped words do as the counts would.
\* No notified ticket is left in a queue; who is taken out has been notified; and
\* before its G is queued, a ticket passes the test of notifyListWait exactly if it
\* was notified, also when the notification came first.
TicketsServed ==
    \A g \in Gs : InWait(g) =>
        LET a == Op(g).addr IN
        /\ InPark(g) => (granted[g] <=> serial[g] < told[a])
        /\ Contains(queue[a], rec[g]) => serial[g] >= told[a]
        /\ pc[g] \in {"listLoad", "listLock"} => (Served(g) <=> serial[g] < told[a])

\* No lost wake-up: a G that a release or a notification has chosen returns, unless
\* main returns first and ends the program.
GrantedReturns ==
    \A g \in Gs : granted[g] /\ InPark(g) ~> ~InPark(g) \/ status[Main] = "dead"
=============================================================================
