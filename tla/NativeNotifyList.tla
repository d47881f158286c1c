-------------------------- MODULE NativeNotifyList --------------------------
(***************************************************************************)
(* notifyList of hosted targets (sema_llgo.go), the queue of sync.Cond:    *)
(* 32-bit tickets that wrap, one mutex and one condition variable for all  *)
(* waiters.  A section under st.mu is one step; the condition variable is  *)
(* the same kind of wait as in NativeSema.                                 *)
(***************************************************************************)
EXTENDS NativeSema, Tickets

VARIABLES
    wait, notify,   \* the words of the list
    ticket,         \* t of each goroutine in Wait; of the others, the first one
    listening,      \* goroutines in st.cond.Wait
    serial,         \* history: the ticket of each goroutine, not wrapped
    added, notified \* history: wait and notify, not wrapped

listVars == <<wait, notify, ticket, listening, serial, added, notified>>

ListInit ==
    /\ added = Start /\ notified = Start
    /\ wait = Wrap(Start) /\ notify = Wrap(Start)
    /\ ticket = [g \in Gs |-> Wrap(Start)] /\ serial = [g \in Gs |-> Start] /\ listening = {}

notifyListAdd(g, l) ==
    /\ wait' = Wrap(wait + 1) /\ ticket' = [ticket EXCEPT ![g] = wait]
    /\ added' = added + 1 /\ serial' = [serial EXCEPT ![g] = added]
    /\ Goto(g, l)
    /\ UNCHANGED <<notify, listening, notified>>

\* Mutated form: the tickets are compared as unsigned numbers.
MustWaitUnsigned(t, n) == t >= n

\* int32(t - notify) >= 0
MustWait(t, n) == ~Before(t, n)

\* One turn of the loop of notifyListWait: it sleeps, or returns to l.
notifyListWait(g, l) ==
    /\ g \notin listening
    /\ IF MustWait(ticket[g], notify)
       THEN listening' = listening \union {g} /\ UNCHANGED <<pc, ticket, serial>>
       ELSE Goto(g, l) /\ ticket' = [ticket EXCEPT ![g] = Wrap(Start)]
            /\ serial' = [serial EXCEPT ![g] = Start] /\ UNCHANGED listening
    /\ UNCHANGED <<wait, notify, added, notified>>

notifyListNotifyAll(g, l) ==
    /\ notify' = wait /\ notified' = added
    /\ listening' = {} /\ Goto(g, l)
    /\ UNCHANGED <<wait, ticket, serial, added>>

\* A broadcast, because a signal could wake a waiter with another ticket.
notifyListNotifyOne(g, l) ==
    /\ IF notify # wait
       THEN notify' = Wrap(notify + 1) /\ notified' = notified + 1 /\ listening' = {}
       ELSE UNCHANGED <<notify, notified, listening>>
    /\ Goto(g, l)
    /\ UNCHANGED <<wait, ticket, serial, added>>

\* The condition wait may end by itself.
Stirs(g) ==
    /\ g \in listening /\ listening' = listening \ {g}
    /\ UNCHANGED <<wait, notify, ticket, serial, added, notified, pc>>

-----------------------------------------------------------------------------

\* The wrapped words stand for the counts, and the test of the loop decides for
\* each ticket in use as if tickets did not wrap: nobody returns that was not
\* notified, and nobody sleeps that was.
TurnsExact(inList) ==
    /\ wait = Wrap(added) /\ notify = Wrap(notified) /\ notified <= added
    /\ \A g \in inList : MustWait(ticket[g], notify) <=> serial[g] >= notified
    /\ \A g \in listening : serial[g] >= notified
=============================================================================
