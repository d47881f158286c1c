------------------------------ MODULE IterPull ------------------------------
(***************************************************************************)
(* iter.Pull (runtime/_patch/iter/iter.go) on the channels of Chan.  The   *)
(* producer goroutine runs seq; next and stop are called by the consumer,  *)
(* one at a time.  Every channel operation runs in all its steps; the code *)
(* between two of them is one step.  Programs that do not use Pull are the *)
(* other menus of Chan.                                                    *)
(***************************************************************************)
EXTENDS Chan, SequencesExt

CONSTANTS
    Consumer, Producer,
    resume, values, stopCh, doneCh,     \* the four channels; values is out of the code
    PullMenu,       \* the menu under which the operations below are allowed
    MaxCalls, MaxYields     \* bounds: calls of next and stop, yields of seq

ASSUME PullAssumption ==
    /\ {Consumer, Producer} \subseteq Goroutines /\ Consumer # Producer
    /\ {resume, values, stopCh, doneCh} \subseteq Chans
    /\ \A c \in {resume, values, stopCh, doneCh} : Cap[c] = 0
    /\ MaxCalls \in Nat /\ MaxYields \in Nat

VARIABLES
    caller,         \* where the consumer is: "out" is outside next and stop
    coro,           \* where the producer is: "seq" is the code of seq
    yieldNext, finished, panicValue,    \* the variables the two share
    calls, yields,  \* counted against the bounds
    sent, got       \* history: values yielded and not refused, values next returned

pullVars == <<caller, coro, yieldNext, finished, panicValue, calls, yields, sent, got>>

Pulling == menu = PullMenu

Receive(c) == [kind |-> "plain", cases |-> <<[ch |-> c, send |-> FALSE]>>]
Send(c) == [kind |-> "plain", cases |-> <<[ch |-> c, send |-> TRUE]>>]
Poll(c) == [kind |-> "try", cases |-> <<[ch |-> c, send |-> FALSE]>>]
CloseOf(c) == [kind |-> "close", cases |-> <<[ch |-> c, send |-> FALSE]>>]

\* The operation o begins.
Do(g, o) == Begin(g) /\ op'[g] = o

\* The result of the last operation.
Got(g) == Last(log[g])

(***************************************************************************)
(* The producer goroutine                                                  *)
(***************************************************************************)
At(l) == Pulling /\ coro = l /\ pc[Producer] = "idle"
Becomes(l) == coro' = l

Idles == UNCHANGED <<chans, waiters, pc, control, finishing, history>>
SameCaller == UNCHANGED <<caller, finished, calls, got>>

\* Mutated form: seq starts at once.
AwaitFirstEager ==
    /\ At("new") /\ Idles /\ Becomes("seq")
    /\ SameCaller /\ UNCHANGED <<yieldNext, panicValue, yields, sent>>

\* The first next or stop.
AwaitFirst ==
    /\ At("new") /\ Do(Producer, Receive(resume)) /\ Becomes("resumed")
    /\ SameCaller /\ UNCHANGED <<yieldNext, panicValue, yields, sent>>

PollFirst ==
    /\ At("resumed") /\ Do(Producer, Poll(stopCh)) /\ Becomes("polled")
    /\ SameCaller /\ UNCHANGED <<yieldNext, panicValue, yields, sent>>

PolledFirst ==
    /\ At("polled") /\ Idles
    /\ Becomes(IF Got(Producer).res = "default" THEN "seq" ELSE "closeOut")
    /\ SameCaller /\ UNCHANGED <<yieldNext, panicValue, yields, sent>>

\* seq yields, returns or panics, also after yield has returned false.
Yield ==
    /\ At("seq") /\ yields < MaxYields
    /\ yields' = yields + 1
    /\ Do(Producer, Poll(stopCh)) /\ Becomes("yield")
    /\ SameCaller /\ UNCHANGED <<yieldNext, panicValue, sent>>

SeqEnds ==
    /\ At("seq") /\ Idles /\ Becomes("closeOut")
    /\ panicValue' \in BOOLEAN
    /\ SameCaller /\ UNCHANGED <<yieldNext, yields, sent>>

YieldRefused ==
    /\ At("yield") /\ Idles
    /\ Got(Producer).res = "closed"
    /\ Becomes("seq")
    /\ SameCaller /\ UNCHANGED <<yieldNext, panicValue, yields, sent>>

\* Out of turn, yield panics, and seq with it.
YieldSends ==
    /\ At("yield")
    /\ Got(Producer).res = "default"
    /\ IF yieldNext
       THEN /\ yieldNext' = FALSE
            /\ sent' = Append(sent, Value(<<Producer, 1>>))
            /\ Do(Producer, Send(values)) /\ Becomes("yielded")
            /\ UNCHANGED panicValue
       ELSE /\ panicValue' = TRUE /\ Becomes("closeOut")
            /\ Idles /\ UNCHANGED <<yieldNext, sent>>
    /\ SameCaller /\ UNCHANGED yields

YieldWaits ==
    /\ At("yielded") /\ Do(Producer, Receive(resume)) /\ Becomes("continue")
    /\ SameCaller /\ UNCHANGED <<yieldNext, panicValue, yields, sent>>

YieldPolls ==
    /\ At("continue") /\ Do(Producer, Poll(stopCh)) /\ Becomes("yields")
    /\ SameCaller /\ UNCHANGED <<yieldNext, panicValue, yields, sent>>

\* yield returns what the poll says, and seq does as it likes with it.
YieldReturns ==
    /\ At("yields") /\ Idles /\ Becomes("seq")
    /\ SameCaller /\ UNCHANGED <<yieldNext, panicValue, yields, sent>>

\* Mutated form: out is closed only if seq did not panic.
CloseOutQuiet ==
    /\ At("closeOut") /\ Becomes("closeDone")
    /\ IF panicValue THEN Idles ELSE Do(Producer, CloseOf(values))
    /\ SameCaller /\ UNCHANGED <<yieldNext, panicValue, yields, sent>>

CloseOut ==
    /\ At("closeOut") /\ Do(Producer, CloseOf(values)) /\ Becomes("closeDone")
    /\ SameCaller /\ UNCHANGED <<yieldNext, panicValue, yields, sent>>

CloseDone ==
    /\ At("closeDone") /\ Do(Producer, CloseOf(doneCh)) /\ Becomes("gone")
    /\ SameCaller /\ UNCHANGED <<yieldNext, panicValue, yields, sent>>

(***************************************************************************)
(* next and stop                                                           *)
(***************************************************************************)
Calls(l) == Pulling /\ caller = l /\ pc[Consumer] = "idle"
Continues(l) == caller' = l
SameCoro == UNCHANGED <<coro, yields, sent>>

\* The call returns; a panic of seq is raised again, once.
Returns == panicValue' = FALSE /\ Continues("out")

next ==
    /\ Calls("out") /\ calls < MaxCalls
    /\ calls' = calls + 1
    /\ IF finished THEN Idles /\ UNCHANGED <<caller, yieldNext>>
       ELSE IF yieldNext THEN Idles /\ Continues("misused") /\ UNCHANGED yieldNext
       ELSE yieldNext' = TRUE /\ Do(Consumer, Send(resume)) /\ Continues("nextSent")
    /\ SameCoro /\ UNCHANGED <<finished, panicValue, got>>

NextReceives ==
    /\ Calls("nextSent") /\ Do(Consumer, Receive(values)) /\ Continues("nextReceived")
    /\ SameCoro /\ UNCHANGED <<yieldNext, finished, panicValue, calls, got>>

NextReturns ==
    /\ Calls("nextReceived") /\ Idles
    /\ IF Got(Consumer).res = "closed"
       THEN finished' = TRUE /\ Returns /\ UNCHANGED got
       ELSE got' = Append(got, Got(Consumer).val) /\ Continues("out")
            /\ UNCHANGED <<finished, panicValue>>
    /\ SameCoro /\ UNCHANGED <<yieldNext, calls>>

stop ==
    /\ Calls("out") /\ calls < MaxCalls
    /\ calls' = calls + 1
    /\ IF finished THEN Idles /\ UNCHANGED caller
       ELSE Do(Consumer, Poll(stopCh)) /\ Continues("stopPolled")
    /\ SameCoro /\ UNCHANGED <<yieldNext, finished, panicValue, got>>

StopCloses ==
    /\ Calls("stopPolled") /\ Continues("stopClosed")
    /\ IF Got(Consumer).res = "default" THEN Do(Consumer, CloseOf(stopCh)) ELSE Idles
    /\ SameCoro /\ UNCHANGED <<yieldNext, finished, panicValue, calls, got>>

StopResumes ==
    /\ Calls("stopClosed") /\ Do(Consumer, Send(resume)) /\ Continues("stopSent")
    /\ SameCoro /\ UNCHANGED <<yieldNext, finished, panicValue, calls, got>>

\* Mutated form: stop does not wait for the producer.
StopHurries ==
    /\ Calls("stopSent") /\ Idles /\ Continues("stopWaited")
    /\ SameCoro /\ UNCHANGED <<yieldNext, finished, panicValue, calls, got>>

StopWaits ==
    /\ Calls("stopSent") /\ Do(Consumer, Receive(doneCh)) /\ Continues("stopWaited")
    /\ SameCoro /\ UNCHANGED <<yieldNext, finished, panicValue, calls, got>>

StopReturns ==
    /\ Calls("stopWaited") /\ Idles
    /\ finished' = TRUE /\ Returns
    /\ SameCoro /\ UNCHANGED <<yieldNext, calls, got>>

-----------------------------------------------------------------------------
PullInit ==
    /\ Init
    /\ caller = "out" /\ coro = "new"
    /\ yieldNext = FALSE /\ finished = FALSE /\ panicValue = FALSE
    /\ calls = 0 /\ yields = 0 /\ sent = <<>> /\ got = <<>>

ProducerStep ==
    \/ AwaitFirst \/ PollFirst \/ PolledFirst \/ Yield \/ SeqEnds \/ YieldRefused
    \/ YieldSends \/ YieldWaits \/ YieldPolls \/ YieldReturns \/ CloseOut \/ CloseDone

ConsumerStep ==
    \/ NextReceives \/ NextReturns \/ StopCloses \/ StopResumes \/ StopWaits \/ StopReturns

InOperation(g) == Step(g) /\ UNCHANGED <<menu, pullVars>>

PullNext ==
    \/ \E g \in Goroutines :
        \/ InOperation(g)
        \/ (SpuriousWakeup(g) \/ (~Pulling /\ Begin(g))) /\ UNCHANGED <<menu, pullVars>>
    \/ (ProducerStep \/ ConsumerStep \/ next \/ stop) /\ UNCHANGED menu

PullSpec == PullInit /\ [][PullNext]_<<vars, pullVars>>

\* As in Chan, and the code between the operations keeps running.  seq does not
\* run for ever between two yields; the consumer need not call again.
FairPullSpec ==
    /\ PullSpec
    /\ \A g \in Goroutines : SF_<<vars, pullVars>>(InOperation(g))
    /\ WF_<<vars, pullVars>>((ProducerStep \/ ConsumerStep) /\ UNCHANGED menu)

-----------------------------------------------------------------------------
\* next, stop and seq take turns as coroutines do, although they run on two
\* threads: the code of seq runs only during a call, so that yieldNext and
\* panicValue are never accessed by both; neither "called again" panic is raised;
\* and outside the calls the values returned are the values yielded.
CoroutineTurns ==
    Pulling =>
        /\ coro \in {"seq", "yield", "closeOut"} => caller # "out"
        /\ caller # "misused"
        /\ coro = "yield" /\ pc[Producer] = "idle" /\ Got(Producer).res = "default" => yieldNext
        /\ caller = "out" => got = sent

\* After the call that ended it, seq does not run any more and its panic has been
\* raised; after stop, the producer goroutine itself has ended.
EndIsFinal ==
    Pulling /\ finished /\ caller = "out" =>
        /\ coro \in {"closeDone", "gone"} /\ ~panicValue
        /\ closed[stopCh] => closed[doneCh]

\* Every call of next and of stop returns.
PullReturns == Pulling /\ caller # "out" ~> caller = "out"
=============================================================================
