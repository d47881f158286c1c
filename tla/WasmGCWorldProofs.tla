------------------------- MODULE WasmGCWorldProofs -------------------------
(***************************************************************************)
(* Proofs about WasmGCWorld for every number of workers and of collections *)
(* once no worker is starting: the acknowledgement counter is exact, so a  *)
(* collector that leaves wasmGCStopTheWorld has stopped every worker.      *)
(***************************************************************************)
EXTENDS WasmGCWorld, FiniteSetTheorems, TLAPS

Requested == {"wakeAll", "target", "poll", "futex", "sleepStopped", "mark", "resume"}
Unrequested == {"setOwner", "zero", "request", "disown", "wakeEpoch"}
Counted == {"wakeStopped", "wait", "sleep"}

\* Every worker takes part in every stop.
AllReady ==
    /\ ready = Cardinality(Workers)
    /\ \A w \in Workers : gcReady[w] /\ pc[w] \notin InitPc

\* The allocator lock is held by the worker inside it, which alone may collect.
Excluded ==
    \A w \in Workers : pc[w] \in CollectPc \cup {"crit"} <=> gcMutex = w

\* Where wasmWorkerStopForGC and a collection return to.
Returns ==
    \A w \in Workers :
        /\ pc[w] \in StopPc => ret[w] \in {"run", "lock", "swapped", "idleFutex"}
        /\ pc[w] \in CollectPc => ret[w] = "crit"

\* The owner is set before the stop is requested.
Owned == \A w \in Workers : pc[w] \in {"zero", "request"} => owner = w

\* The epoch is odd exactly while the holder of the lock is between the request
\* and the resume.
Parity ==
    /\ \A w \in Workers : pc[w] \in Requested => Odd(epoch) /\ owner = w
    /\ Odd(epoch) => \E w \in Workers : pc[w] \in Requested

\* A worker on its way to an acknowledgement has seen the current epoch; one
\* that has acknowledged recorded it and published its roots.
Seen ==
    \A w \in Workers :
        /\ gcEpoch[w] <= epoch
        /\ seenEpoch[w] <= epoch
        /\ pc[w] \in {"owner", "ack", "count"} => Odd(epoch) /\ seenEpoch[w] = epoch
        /\ pc[w] \in Counted \cup {"count"} =>
              gcEpoch[w] = seenEpoch[w] /\ published[w] /\ Odd(seenEpoch[w])
        /\ pc[w] = "spOwner" /\ Odd(seenEpoch[w]) => seenEpoch[w] = epoch
        /\ Odd(epoch) /\ gcEpoch[w] = epoch => pc[w] \in Counted \cup {"count"}

\* A G that swapped out for a request reaches runWasmG only after a stop.
Swapped ==
    \A w \in Workers :
        /\ pc[w] = "swapped" => didStop[w]
        /\ pc[w] \in StopPc /\ ret[w] = "swapped" /\ ~didStop[w] =>
              Odd(epoch) \/ pc[w] \in Counted
        /\ pc[w] = "load" /\ ret[w] = "swapped" /\ ~didStop[w] => gcEpoch[w] # epoch

\* What the collector knows while it waits and once it is done waiting.
Counting ==
    /\ \A c \in Workers :
        /\ pc[c] = "request" => stopped = 0
        /\ pc[c] \in {"poll", "futex", "sleepStopped"} =>
              target[c] = Cardinality(Workers) - 1
        /\ pc[c] \in {"mark", "resume"} => Acked = Workers \ {c}
    /\ AckCount

Inv ==
    /\ TypeOK /\ AllReady /\ Excluded /\ Returns /\ Owned /\ Parity /\ Seen /\ Swapped
    /\ Counting /\ NoFatal

-----------------------------------------------------------------------------
USE DEF Requested, Unrequested, Counted, StopPc, CollectPc, GoPc, InitPc, PcSet, Goto,
        world, perWorker, locals, Odd

LEMMA StopForGCInv ==
    ASSUME Inv, NEW w \in Workers, StopForGC(w)
    PROVE  Inv'
<1> USE WorldAssumption
<1>1. CASE StopLoad(w)
  <2>1. TypeOK'
    <3>1. didStop' \in [Workers -> BOOLEAN]
      BY <1>1 DEF Inv, TypeOK, StopLoad, ReturnFromStop
    <3>2. pc' \in [Workers -> PcSet] /\ ret' \in [Workers -> PcSet]
      BY <1>1 DEF Inv, TypeOK, StopLoad, ReturnFromStop
    <3>3. QED  BY <1>1, <3>1, <3>2 DEF Inv, TypeOK, StopLoad, ReturnFromStop
  <2>2. Acked' = Acked
    BY <1>1 DEF Inv, TypeOK, Returns, Acked, StopLoad, ReturnFromStop
  <2>3. AllReady' /\ Excluded' /\ Returns'
    BY <1>1 DEF Inv, TypeOK, AllReady, Excluded, Returns, StopLoad, ReturnFromStop
  <2>4. Owned' /\ Parity' /\ NoFatal'
    BY <1>1 DEF Inv, TypeOK, AllReady, Excluded, Returns, Owned, Parity, Swapped, NoFatal, StopLoad, ReturnFromStop
  <2>5. Seen' /\ Swapped'
    BY <1>1 DEF Inv, TypeOK, AllReady, Excluded, Returns, Parity, Seen, Swapped, StopLoad, ReturnFromStop
  <2>6. Counting'
    BY <1>1, <2>2 DEF Inv, TypeOK, Returns, Counting, AckCount, StopLoad, ReturnFromStop
  <2>7. QED  BY <2>1, <2>3, <2>4, <2>5, <2>6 DEF Inv
<1>2. CASE StopOwner(w)
  <2>1. TypeOK'
    <3>1. didStop' \in [Workers -> BOOLEAN]
      BY <1>2 DEF Inv, TypeOK, StopOwner, ReturnFromStop
    <3>2. pc' \in [Workers -> PcSet] /\ ret' \in [Workers -> PcSet]
      BY <1>2 DEF Inv, TypeOK, StopOwner, ReturnFromStop
    <3>3. QED  BY <1>2, <3>1, <3>2 DEF Inv, TypeOK, StopOwner, ReturnFromStop
  <2>2. Acked' = Acked
    BY <1>2 DEF Inv, TypeOK, Seen, Acked, StopOwner, ReturnFromStop
  <2>3. AllReady' /\ Excluded' /\ Returns'
    BY <1>2 DEF Inv, TypeOK, AllReady, Excluded, Returns, StopOwner, ReturnFromStop
  <2>4. Owned' /\ Parity' /\ NoFatal'
    BY <1>2 DEF Inv, TypeOK, AllReady, Excluded, Returns, Owned, Parity, Swapped, NoFatal, StopOwner, ReturnFromStop
  <2>5. Seen' /\ Swapped'
    BY <1>2 DEF Inv, TypeOK, AllReady, Excluded, Returns, Parity, Seen, Swapped, StopOwner, ReturnFromStop
  <2>6. Counting'
    BY <1>2, <2>2 DEF Inv, TypeOK, Returns, Counting, AckCount, StopOwner, ReturnFromStop
  <2>7. QED  BY <2>1, <2>3, <2>4, <2>5, <2>6 DEF Inv
<1>3. CASE StopAck(w)
  <2>1. TypeOK'
    BY <1>3 DEF Inv, TypeOK, StopAck
  <2>2. Acked' = Acked
    BY <1>3 DEF Inv, TypeOK, Seen, Acked, StopAck
  <2>3. AllReady' /\ Excluded' /\ Returns'
    BY <1>3 DEF Inv, TypeOK, AllReady, Excluded, Returns, StopAck
  <2>4. Owned' /\ Parity' /\ NoFatal'
    BY <1>3 DEF Inv, TypeOK, AllReady, Excluded, Returns, Owned, Parity, Swapped, NoFatal, StopAck
  <2>5. Seen' /\ Swapped'
    BY <1>3 DEF Inv, TypeOK, AllReady, Excluded, Returns, Parity, Seen, Swapped, StopAck
  <2>6. Counting'
    BY <1>3, <2>2 DEF Inv, TypeOK, AllReady, Excluded, Parity, Counting, AckCount, StopAck
  <2>7. QED  BY <2>1, <2>3, <2>4, <2>5, <2>6 DEF Inv
<1>4. CASE StopCount(w)
  <2>1. TypeOK'
    BY <1>4 DEF Inv, TypeOK, StopCount
  <2>2. Acked' = Acked \cup {w} /\ w \notin Acked
    BY <1>4 DEF Inv, TypeOK, Seen, Acked, StopCount
  <2>3. AllReady' /\ Excluded' /\ Returns'
    BY <1>4 DEF Inv, TypeOK, AllReady, Excluded, Returns, StopCount
  <2>4. Owned' /\ Parity' /\ NoFatal'
    BY <1>4 DEF Inv, TypeOK, AllReady, Excluded, Returns, Owned, Parity, Swapped, NoFatal, StopCount
  <2>5. Seen' /\ Swapped'
    BY <1>4 DEF Inv, TypeOK, AllReady, Excluded, Returns, Parity, Seen, Swapped, StopCount
  <2>6. Counting'
    <3>1. Cardinality(Acked') = Cardinality(Acked) + 1
      <4>1. IsFiniteSet(Acked)
        BY FS_Subset DEF Acked
      <4>2. QED  BY <2>2, <4>1, FS_AddElement
    <3>2. AckCount'
      BY <1>4, <3>1 DEF Inv, TypeOK, Seen, Counting, AckCount, StopCount
    <3>3. \A c \in Workers : pc[c] \notin {"request", "mark", "resume"}
      BY <1>4, <2>2 DEF Inv, TypeOK, Excluded, Parity, Seen, Counting, StopCount
    <3>4. QED  BY <1>4, <3>2, <3>3 DEF Inv, TypeOK, Counting, StopCount
  <2>7. QED  BY <2>1, <2>3, <2>4, <2>5, <2>6 DEF Inv
<1>5. CASE StopWake(w)
  <2>1. TypeOK'
    BY <1>5 DEF Inv, TypeOK, StopWake
  <2>2. Acked' = Acked
    BY <1>5 DEF Inv, TypeOK, Seen, Acked, StopWake
  <2>3. AllReady' /\ Excluded' /\ Returns'
    BY <1>5 DEF Inv, TypeOK, AllReady, Excluded, Returns, StopWake
  <2>4. Owned' /\ Parity' /\ NoFatal'
    BY <1>5 DEF Inv, TypeOK, AllReady, Excluded, Returns, Owned, Parity, Swapped, NoFatal, StopWake
  <2>5. Seen' /\ Swapped'
    BY <1>5 DEF Inv, TypeOK, AllReady, Excluded, Returns, Parity, Seen, Swapped, StopWake
  <2>6. Counting'
    BY <1>5, <2>2 DEF Inv, TypeOK, AllReady, Excluded, Parity, Counting, AckCount, StopWake
  <2>7. QED  BY <2>1, <2>3, <2>4, <2>5, <2>6 DEF Inv
<1>6. CASE StopWait(w)
  <2>1. TypeOK'
    <3>1. published' \in [Workers -> BOOLEAN] /\ didStop' \in [Workers -> BOOLEAN]
      BY <1>6 DEF Inv, TypeOK, StopWait
    <3>2. QED  BY <1>6, <3>1 DEF Inv, TypeOK, StopWait
  <2>2. Acked' = Acked
    BY <1>6 DEF Inv, TypeOK, Seen, Acked, StopWait
  <2>3. AllReady' /\ Excluded' /\ Returns'
    BY <1>6 DEF Inv, TypeOK, AllReady, Excluded, Returns, StopWait
  <2>4. Owned' /\ Parity' /\ NoFatal'
    BY <1>6 DEF Inv, TypeOK, AllReady, Excluded, Returns, Owned, Parity, Swapped, NoFatal, StopWait
  <2>5. Seen' /\ Swapped'
    BY <1>6 DEF Inv, TypeOK, AllReady, Excluded, Returns, Parity, Seen, Swapped, StopWait
  <2>6. Counting'
    BY <1>6, <2>2 DEF Inv, TypeOK, AllReady, Excluded, Parity, Counting, AckCount, StopWait
  <2>7. QED  BY <2>1, <2>3, <2>4, <2>5, <2>6 DEF Inv
<1>7. QED  BY <1>1, <1>2, <1>3, <1>4, <1>5, <1>6 DEF StopForGC

LEMMA CollectInv ==
    ASSUME Inv, NEW w \in Workers, Collect(w)
    PROVE  Inv'
<1> USE WorldAssumption
<1>1. CASE StopSetOwner(w)
  <2>1. TypeOK'
    BY <1>1 DEF Inv, TypeOK, StopSetOwner
  <2>2. Acked' = Acked
    BY <1>1 DEF Inv, TypeOK, Seen, Acked, StopSetOwner
  <2>3. AllReady' /\ Excluded' /\ Returns'
    BY <1>1 DEF Inv, TypeOK, AllReady, Excluded, Returns, StopSetOwner
  <2>4. Owned' /\ Parity' /\ NoFatal'
    BY <1>1 DEF Inv, TypeOK, AllReady, Excluded, Returns, Owned, Parity, Swapped, NoFatal, StopSetOwner
  <2>5. Seen' /\ Swapped'
    BY <1>1 DEF Inv, TypeOK, AllReady, Excluded, Returns, Parity, Seen, Swapped, StopSetOwner
  <2>6. Counting'
    BY <1>1, <2>2 DEF Inv, TypeOK, AllReady, Excluded, Parity, Counting, AckCount, StopSetOwner
  <2>7. QED  BY <2>1, <2>3, <2>4, <2>5, <2>6 DEF Inv
<1>2. CASE StopZero(w)
  <2>1. TypeOK'
    BY <1>2 DEF Inv, TypeOK, StopZero
  <2>2. Acked' = Acked
    BY <1>2 DEF Inv, TypeOK, Seen, Acked, StopZero
  <2>3. AllReady' /\ Excluded' /\ Returns'
    BY <1>2 DEF Inv, TypeOK, AllReady, Excluded, Returns, StopZero
  <2>4. Owned' /\ Parity' /\ NoFatal'
    BY <1>2 DEF Inv, TypeOK, AllReady, Excluded, Returns, Owned, Parity, Swapped, NoFatal, StopZero
  <2>5. Seen' /\ Swapped'
    BY <1>2 DEF Inv, TypeOK, AllReady, Excluded, Returns, Parity, Seen, Swapped, StopZero
  <2>6. Counting'
    BY <1>2, <2>2 DEF Inv, TypeOK, AllReady, Excluded, Parity, Counting, AckCount, StopZero
  <2>7. QED  BY <2>1, <2>3, <2>4, <2>5, <2>6 DEF Inv
<1>3. CASE StopRequest(w)
  <2>1. TypeOK'
    BY <1>3 DEF Inv, TypeOK, StopRequest
  <2>2. Odd(epoch') /\ Acked' = {}
    <3>1. ~Odd(epoch)
      BY <1>3 DEF Inv, Excluded, Parity, StopRequest
    <3>2. QED  BY <1>3, <3>1 DEF Inv, TypeOK, Seen, Acked, StopRequest
  <2>3. AllReady' /\ Excluded' /\ Returns'
    BY <1>3, <2>2 DEF Inv, TypeOK, AllReady, Excluded, Returns, StopRequest
  <2>4. Owned' /\ Parity' /\ NoFatal'
    BY <1>3, <2>2 DEF Inv, TypeOK, Excluded, Owned, Parity, NoFatal, StopRequest
  <2>5. Seen' /\ Swapped'
    BY <1>3 DEF Inv, TypeOK, AllReady, Excluded, Returns, Parity, Seen, Swapped, StopRequest
  <2>6. Counting'
    BY <1>3, <2>2, FS_EmptySet DEF Inv, TypeOK, Excluded, Counting, AckCount, StopRequest
  <2>7. QED  BY <2>1, <2>3, <2>4, <2>5, <2>6 DEF Inv
<1>4. CASE StopWakeAll(w)
  <2>1. TypeOK'
    BY <1>4 DEF Inv, TypeOK, StopWakeAll, WokenPc
  <2>2. Acked' = Acked
    BY <1>4 DEF Inv, TypeOK, Seen, Acked, StopWakeAll, WokenPc
  <2>3. AllReady' /\ Excluded' /\ Returns'
    BY <1>4 DEF Inv, TypeOK, AllReady, Excluded, Returns, StopWakeAll, WokenPc
  <2>4. Owned' /\ Parity' /\ NoFatal'
    BY <1>4 DEF Inv, TypeOK, AllReady, Excluded, Returns, Owned, Parity, Swapped, NoFatal, StopWakeAll, WokenPc
  <2>5. Seen' /\ Swapped'
    BY <1>4 DEF Inv, TypeOK, AllReady, Excluded, Returns, Parity, Seen, Swapped, StopWakeAll, WokenPc
  <2>6. Counting'
    BY <1>4, <2>2 DEF Inv, TypeOK, AllReady, Excluded, Parity, Counting, AckCount, StopWakeAll, WokenPc
  <2>7. QED  BY <2>1, <2>3, <2>4, <2>5, <2>6 DEF Inv
<1>5. CASE StopTarget(w)
  <2>1. TypeOK'
    BY <1>5 DEF Inv, TypeOK, StopTarget
  <2>2. Acked' = Acked
    BY <1>5 DEF Inv, TypeOK, Seen, Acked, StopTarget
  <2>3. AllReady' /\ Excluded' /\ Returns'
    BY <1>5 DEF Inv, TypeOK, AllReady, Excluded, Returns, StopTarget
  <2>4. Owned' /\ Parity' /\ NoFatal'
    BY <1>5 DEF Inv, TypeOK, AllReady, Excluded, Returns, Owned, Parity, Swapped, NoFatal, StopTarget
  <2>5. Seen' /\ Swapped'
    BY <1>5 DEF Inv, TypeOK, AllReady, Excluded, Returns, Parity, Seen, Swapped, StopTarget
  <2>6. Counting'
    BY <1>5, <2>2 DEF Inv, TypeOK, AllReady, Excluded, Parity, Counting, AckCount, StopTarget
  <2>7. QED  BY <2>1, <2>3, <2>4, <2>5, <2>6 DEF Inv
<1>6. CASE StopPoll(w)
  <2>1. TypeOK'
    BY <1>6 DEF Inv, TypeOK, StopPoll
  <2>2. Acked' = Acked
    BY <1>6 DEF Inv, TypeOK, Seen, Acked, StopPoll
  <2>3. AllReady' /\ Excluded' /\ Returns'
    BY <1>6 DEF Inv, TypeOK, AllReady, Excluded, Returns, StopPoll
  <2>4. Owned' /\ Parity' /\ NoFatal'
    BY <1>6 DEF Inv, TypeOK, AllReady, Excluded, Returns, Owned, Parity, Swapped, NoFatal, StopPoll
  <2>5. Seen' /\ Swapped'
    BY <1>6 DEF Inv, TypeOK, AllReady, Excluded, Returns, Parity, Seen, Swapped, StopPoll
  <2>6. Counting'
    <3>1. stopped >= target[w] => Acked = Workers \ {w}
      <4>1. Acked \subseteq Workers \ {w} /\ IsFiniteSet(Workers \ {w})
        BY <1>6, FS_RemoveElement DEF Acked, StopPoll
      <4>2. stopped = Cardinality(Acked) /\ target[w] = Cardinality(Workers \ {w})
        BY <1>6, FS_RemoveElement DEF Inv, Parity, Counting, AckCount, StopPoll
      <4>3. Cardinality(Acked) <= Cardinality(Workers \ {w})
        BY <4>1, FS_Subset
      <4>4. Cardinality(Acked) \in Nat /\ Cardinality(Workers \ {w}) \in Nat
        BY <4>1, FS_Subset, FS_CardinalityType
      <4>5. stopped >= target[w] => Cardinality(Acked) = Cardinality(Workers \ {w})
        BY <4>2, <4>3, <4>4
      <4>6. QED  BY <4>1, <4>5, FS_Subset
    <3>2. QED  BY <1>6, <2>2, <3>1
                  DEF Inv, TypeOK, Excluded, Counting, AckCount, StopPoll
  <2>7. QED  BY <2>1, <2>3, <2>4, <2>5, <2>6 DEF Inv
<1>7. CASE StopFutex(w)
  <2>1. TypeOK'
    BY <1>7 DEF Inv, TypeOK, StopFutex
  <2>2. Acked' = Acked
    BY <1>7 DEF Inv, TypeOK, Seen, Acked, StopFutex
  <2>3. AllReady' /\ Excluded' /\ Returns'
    BY <1>7 DEF Inv, TypeOK, AllReady, Excluded, Returns, StopFutex
  <2>4. Owned' /\ Parity' /\ NoFatal'
    BY <1>7 DEF Inv, TypeOK, AllReady, Excluded, Returns, Owned, Parity, Swapped, NoFatal, StopFutex
  <2>5. Seen' /\ Swapped'
    BY <1>7 DEF Inv, TypeOK, AllReady, Excluded, Returns, Parity, Seen, Swapped, StopFutex
  <2>6. Counting'
    BY <1>7, <2>2 DEF Inv, TypeOK, AllReady, Excluded, Parity, Counting, AckCount, StopFutex
  <2>7. QED  BY <2>1, <2>3, <2>4, <2>5, <2>6 DEF Inv
<1>8. CASE Mark(w)
  <2>1. TypeOK'
    BY <1>8 DEF Inv, TypeOK, Mark
  <2>2. Acked' = Acked
    BY <1>8 DEF Inv, TypeOK, Seen, Acked, Mark
  <2>3. AllReady' /\ Excluded' /\ Returns'
    BY <1>8 DEF Inv, TypeOK, AllReady, Excluded, Returns, Parity, Mark
  <2>4. Owned' /\ Parity' /\ NoFatal'
    BY <1>8 DEF Inv, TypeOK, AllReady, Excluded, Returns, Owned, Parity, Swapped, NoFatal, Mark
  <2>5. Seen' /\ Swapped'
    BY <1>8 DEF Inv, TypeOK, AllReady, Excluded, Returns, Parity, Seen, Swapped, Mark
  <2>6. Counting'
    BY <1>8, <2>2 DEF Inv, TypeOK, AllReady, Excluded, Parity, Counting, AckCount, Mark
  <2>7. QED  BY <2>1, <2>3, <2>4, <2>5, <2>6 DEF Inv
<1>9. CASE ResumeEpoch(w)
  <2>1. TypeOK'
    BY <1>9 DEF Inv, TypeOK, ResumeEpoch
  <2>2. /\ Odd(epoch) /\ ~Odd(epoch')
        /\ \A v \in Workers \ {w} : pc[v] \in Counted
    BY <1>9 DEF Inv, TypeOK, Parity, Counting, Acked, ResumeEpoch
  <2>3. AllReady' /\ Excluded' /\ Returns'
    BY <1>9 DEF Inv, TypeOK, AllReady, Excluded, Returns, ResumeEpoch
  <2>4. Owned' /\ Parity' /\ NoFatal'
    BY <1>9 DEF Inv, TypeOK, AllReady, Excluded, Returns, Owned, Parity, Swapped, NoFatal, ResumeEpoch
  <2>5. Seen' /\ Swapped'
    BY <1>9, <2>2 DEF Inv, TypeOK, Seen, Swapped, ResumeEpoch
  <2>6. Counting'
    BY <1>9, <2>2 DEF Inv, TypeOK, Counting, AckCount, ResumeEpoch
  <2>7. QED  BY <2>1, <2>3, <2>4, <2>5, <2>6 DEF Inv
<1>10. CASE ResumeDisown(w)
  <2>1. TypeOK'
    BY <1>10 DEF Inv, TypeOK, ResumeDisown
  <2>2. Acked' = Acked
    BY <1>10 DEF Inv, TypeOK, Seen, Acked, ResumeDisown
  <2>3. AllReady' /\ Excluded' /\ Returns'
    BY <1>10 DEF Inv, TypeOK, AllReady, Excluded, Returns, ResumeDisown
  <2>4. Owned' /\ Parity' /\ NoFatal'
    BY <1>10 DEF Inv, TypeOK, AllReady, Excluded, Returns, Owned, Parity, Swapped, NoFatal, ResumeDisown
  <2>5. Seen' /\ Swapped'
    BY <1>10 DEF Inv, TypeOK, AllReady, Excluded, Returns, Parity, Seen, Swapped, ResumeDisown
  <2>6. Counting'
    BY <1>10, <2>2 DEF Inv, TypeOK, AllReady, Excluded, Parity, Counting, AckCount, ResumeDisown
  <2>7. QED  BY <2>1, <2>3, <2>4, <2>5, <2>6 DEF Inv
<1>11. CASE ResumeWake(w)
  <2>1. TypeOK'
    BY <1>11 DEF Inv, TypeOK, ResumeWake, WokenPc
  <2>2. ~Odd(epoch) /\ epoch' = epoch
    BY <1>11 DEF Inv, Excluded, Parity, ResumeWake
  <2>3. AllReady' /\ Excluded' /\ Returns'
    BY <1>11 DEF Inv, TypeOK, AllReady, Excluded, Returns, ResumeWake, WokenPc
  <2>4. Owned' /\ Parity' /\ NoFatal'
    BY <1>11 DEF Inv, TypeOK, AllReady, Excluded, Returns, Owned, Parity, Swapped, NoFatal, ResumeWake, WokenPc
  <2>5. Seen' /\ Swapped'
    BY <1>11 DEF Inv, TypeOK, AllReady, Excluded, Returns, Parity, Seen, Swapped, ResumeWake, WokenPc
  <2>6. Counting'
    BY <1>11, <2>2 DEF Inv, TypeOK, Returns, Excluded, Counting, AckCount, ResumeWake, WokenPc
  <2>7. QED  BY <2>1, <2>3, <2>4, <2>5, <2>6 DEF Inv
<1>12. QED  BY <1>1, <1>2, <1>3, <1>4, <1>5, <1>6, <1>7, <1>8, <1>9, <1>10, <1>11 DEF Collect

LEMMA AllocatorInv ==
    ASSUME Inv, NEW w \in Workers, Allocator(w)
    PROVE  Inv'
<1> USE WorldAssumption
<1>1. CASE Allocate(w)
  <2>1. TypeOK'
    BY <1>1 DEF Inv, TypeOK, Allocate
  <2>2. Acked' = Acked
    BY <1>1 DEF Inv, TypeOK, Seen, Acked, Allocate
  <2>3. AllReady' /\ Excluded' /\ Returns'
    BY <1>1 DEF Inv, TypeOK, AllReady, Excluded, Returns, Allocate
  <2>4. Owned' /\ Parity' /\ NoFatal'
    BY <1>1 DEF Inv, TypeOK, AllReady, Excluded, Returns, Owned, Parity, Swapped, NoFatal, Allocate
  <2>5. Seen' /\ Swapped'
    BY <1>1 DEF Inv, TypeOK, AllReady, Excluded, Returns, Parity, Seen, Swapped, Allocate
  <2>6. Counting'
    BY <1>1, <2>2 DEF Inv, TypeOK, AllReady, Excluded, Parity, Counting, AckCount, Allocate
  <2>7. QED  BY <2>1, <2>3, <2>4, <2>5, <2>6 DEF Inv
<1>2. CASE LockGCMutex(w)
  <2>1. TypeOK'
    BY <1>2 DEF Inv, TypeOK, LockGCMutex
  <2>2. Acked' = Acked
    BY <1>2 DEF Inv, TypeOK, Seen, Acked, LockGCMutex
  <2>3. AllReady' /\ Excluded' /\ Returns'
    BY <1>2 DEF Inv, TypeOK, AllReady, Excluded, Returns, LockGCMutex
  <2>4. Owned' /\ Parity' /\ NoFatal'
    BY <1>2 DEF Inv, TypeOK, AllReady, Excluded, Returns, Owned, Parity, Swapped, NoFatal, LockGCMutex
  <2>5. Seen' /\ Swapped'
    BY <1>2 DEF Inv, TypeOK, AllReady, Excluded, Returns, Parity, Seen, Swapped, LockGCMutex
  <2>6. Counting'
    BY <1>2, <2>2 DEF Inv, TypeOK, AllReady, Excluded, Parity, Counting, AckCount, LockGCMutex
  <2>7. QED  BY <2>1, <2>3, <2>4, <2>5, <2>6 DEF Inv
<1>3. CASE AllocatorYield(w)
  <2>1. TypeOK'
    BY <1>3 DEF Inv, TypeOK, AllocatorYield, CallStopForGC
  <2>2. Acked' = Acked
    BY <1>3 DEF Inv, TypeOK, Seen, Acked, AllocatorYield, CallStopForGC
  <2>3. AllReady' /\ Excluded' /\ Returns'
    BY <1>3 DEF Inv, TypeOK, AllReady, Excluded, Returns, AllocatorYield, CallStopForGC
  <2>4. Owned' /\ Parity' /\ NoFatal'
    BY <1>3 DEF Inv, TypeOK, AllReady, Excluded, Returns, Owned, Parity, Swapped, NoFatal, AllocatorYield, CallStopForGC
  <2>5. Seen' /\ Swapped'
    BY <1>3 DEF Inv, TypeOK, AllReady, Excluded, Returns, Parity, Seen, Swapped, AllocatorYield, CallStopForGC
  <2>6. Counting'
    BY <1>3, <2>2 DEF Inv, TypeOK, AllReady, Excluded, Parity, Counting, AckCount, AllocatorYield, CallStopForGC
  <2>7. QED  BY <2>1, <2>3, <2>4, <2>5, <2>6 DEF Inv
<1>4. CASE UnlockGCMutex(w)
  <2>1. TypeOK'
    BY <1>4 DEF Inv, TypeOK, UnlockGCMutex
  <2>2. Acked' = Acked
    BY <1>4 DEF Inv, TypeOK, Seen, Acked, UnlockGCMutex
  <2>3. AllReady' /\ Excluded' /\ Returns'
    BY <1>4 DEF Inv, TypeOK, AllReady, Excluded, Returns, UnlockGCMutex
  <2>4. Owned' /\ Parity' /\ NoFatal'
    BY <1>4 DEF Inv, TypeOK, AllReady, Excluded, Returns, Owned, Parity, Swapped, NoFatal, UnlockGCMutex
  <2>5. Seen' /\ Swapped'
    BY <1>4 DEF Inv, TypeOK, AllReady, Excluded, Returns, Parity, Seen, Swapped, UnlockGCMutex
  <2>6. Counting'
    BY <1>4, <2>2 DEF Inv, TypeOK, AllReady, Excluded, Parity, Counting, AckCount, UnlockGCMutex
  <2>7. QED  BY <2>1, <2>3, <2>4, <2>5, <2>6 DEF Inv
<1>5. CASE StopWorld(w)
  <2>1. TypeOK'
    BY <1>5 DEF Inv, TypeOK, StopWorld
  <2>2. Acked' = Acked
    BY <1>5 DEF Inv, TypeOK, Seen, Acked, StopWorld
  <2>3. AllReady' /\ Excluded' /\ Returns'
    BY <1>5 DEF Inv, TypeOK, AllReady, Excluded, Returns, StopWorld
  <2>4. Owned' /\ Parity' /\ NoFatal'
    BY <1>5 DEF Inv, TypeOK, AllReady, Excluded, Returns, Owned, Parity, Swapped, NoFatal, StopWorld
  <2>5. Seen' /\ Swapped'
    BY <1>5 DEF Inv, TypeOK, AllReady, Excluded, Returns, Parity, Seen, Swapped, StopWorld
  <2>6. Counting'
    BY <1>5, <2>2 DEF Inv, TypeOK, AllReady, Excluded, Parity, Counting, AckCount, StopWorld
  <2>7. QED  BY <2>1, <2>3, <2>4, <2>5, <2>6 DEF Inv
<1>6. QED  BY <1>1, <1>2, <1>3, <1>4, <1>5 DEF Allocator

LEMMA RunningInv ==
    ASSUME Inv, NEW w \in Workers, Running(w)
    PROVE  Inv'
<1> USE WorldAssumption
<1>1. CASE SafepointEpoch(w)
  <2>1. TypeOK'
    BY <1>1 DEF Inv, TypeOK, SafepointEpoch
  <2>2. Acked' = Acked
    BY <1>1 DEF Inv, TypeOK, Seen, Acked, SafepointEpoch
  <2>3. AllReady' /\ Excluded' /\ Returns'
    BY <1>1 DEF Inv, TypeOK, AllReady, Excluded, Returns, SafepointEpoch
  <2>4. Owned' /\ Parity' /\ NoFatal'
    BY <1>1 DEF Inv, TypeOK, AllReady, Excluded, Returns, Owned, Parity, Swapped, NoFatal, SafepointEpoch
  <2>5. Seen' /\ Swapped'
    BY <1>1 DEF Inv, TypeOK, AllReady, Excluded, Returns, Parity, Seen, Swapped, SafepointEpoch
  <2>6. Counting'
    BY <1>1, <2>2 DEF Inv, TypeOK, AllReady, Excluded, Parity, Counting, AckCount, SafepointEpoch
  <2>7. QED  BY <2>1, <2>3, <2>4, <2>5, <2>6 DEF Inv
<1>2. CASE SafepointOwner(w)
  <2>1. TypeOK'
    BY <1>2 DEF Inv, TypeOK, SafepointOwner, CallStopForGC
  <2>2. Acked' = Acked
    BY <1>2 DEF Inv, TypeOK, Seen, Acked, SafepointOwner, CallStopForGC
  <2>3. AllReady' /\ Excluded' /\ Returns'
    BY <1>2 DEF Inv, TypeOK, AllReady, Excluded, Returns, SafepointOwner, CallStopForGC
  <2>4. Owned' /\ Parity' /\ NoFatal'
    BY <1>2 DEF Inv, TypeOK, AllReady, Excluded, Returns, Owned, Parity, Swapped, NoFatal, SafepointOwner, CallStopForGC
  <2>5. Seen' /\ Swapped'
    BY <1>2 DEF Inv, TypeOK, AllReady, Excluded, Returns, Parity, Seen, Swapped, SafepointOwner, CallStopForGC
  <2>6. Counting'
    BY <1>2, <2>2 DEF Inv, TypeOK, AllReady, Excluded, Parity, Counting, AckCount, SafepointOwner, CallStopForGC
  <2>7. QED  BY <2>1, <2>3, <2>4, <2>5, <2>6 DEF Inv
<1>3. CASE RunWasmG(w)
  <2>1. TypeOK'
    BY <1>3 DEF Inv, TypeOK, RunWasmG
  <2>2. Acked' = Acked
    BY <1>3 DEF Inv, TypeOK, Seen, Acked, RunWasmG
  <2>3. AllReady' /\ Excluded' /\ Returns'
    BY <1>3 DEF Inv, TypeOK, AllReady, Excluded, Returns, RunWasmG
  <2>4. Owned' /\ Parity' /\ NoFatal'
    BY <1>3 DEF Inv, TypeOK, AllReady, Excluded, Returns, Owned, Parity, Swapped, NoFatal, RunWasmG
  <2>5. Seen' /\ Swapped'
    BY <1>3 DEF Inv, TypeOK, AllReady, Excluded, Returns, Parity, Seen, Swapped, RunWasmG
  <2>6. Counting'
    BY <1>3, <2>2 DEF Inv, TypeOK, AllReady, Excluded, Parity, Counting, AckCount, RunWasmG
  <2>7. QED  BY <2>1, <2>3, <2>4, <2>5, <2>6 DEF Inv
<1>4. CASE PollSystem(w)
  <2>1. TypeOK'
    BY <1>4 DEF Inv, TypeOK, PollSystem, CallStopForGC
  <2>2. Acked' = Acked
    BY <1>4 DEF Inv, TypeOK, Seen, Acked, PollSystem, CallStopForGC
  <2>3. AllReady' /\ Excluded' /\ Returns'
    BY <1>4 DEF Inv, TypeOK, AllReady, Excluded, Returns, PollSystem, CallStopForGC
  <2>4. Owned' /\ Parity' /\ NoFatal'
    BY <1>4 DEF Inv, TypeOK, AllReady, Excluded, Returns, Owned, Parity, Swapped, NoFatal, PollSystem, CallStopForGC
  <2>5. Seen' /\ Swapped'
    BY <1>4 DEF Inv, TypeOK, AllReady, Excluded, Returns, Parity, Seen, Swapped, PollSystem, CallStopForGC
  <2>6. Counting'
    BY <1>4, <2>2 DEF Inv, TypeOK, AllReady, Excluded, Parity, Counting, AckCount, PollSystem, CallStopForGC
  <2>7. QED  BY <2>1, <2>3, <2>4, <2>5, <2>6 DEF Inv
<1>5. CASE IdleSample(w)
  <2>1. TypeOK'
    BY <1>5 DEF Inv, TypeOK, IdleSample, CallStopForGC
  <2>2. Acked' = Acked
    BY <1>5 DEF Inv, TypeOK, Seen, Acked, IdleSample, CallStopForGC
  <2>3. AllReady' /\ Excluded' /\ Returns'
    BY <1>5 DEF Inv, TypeOK, AllReady, Excluded, Returns, IdleSample, CallStopForGC
  <2>4. Owned' /\ Parity' /\ NoFatal'
    BY <1>5 DEF Inv, TypeOK, AllReady, Excluded, Returns, Owned, Parity, Swapped, NoFatal, IdleSample, CallStopForGC
  <2>5. Seen' /\ Swapped'
    BY <1>5 DEF Inv, TypeOK, AllReady, Excluded, Returns, Parity, Seen, Swapped, IdleSample, CallStopForGC
  <2>6. Counting'
    BY <1>5, <2>2 DEF Inv, TypeOK, AllReady, Excluded, Parity, Counting, AckCount, IdleSample, CallStopForGC
  <2>7. QED  BY <2>1, <2>3, <2>4, <2>5, <2>6 DEF Inv
<1>6. CASE IdleFutex(w)
  <2>1. TypeOK'
    BY <1>6 DEF Inv, TypeOK, IdleFutex
  <2>2. Acked' = Acked
    BY <1>6 DEF Inv, TypeOK, Seen, Acked, IdleFutex
  <2>3. AllReady' /\ Excluded' /\ Returns'
    BY <1>6 DEF Inv, TypeOK, AllReady, Excluded, Returns, IdleFutex
  <2>4. Owned' /\ Parity' /\ NoFatal'
    BY <1>6 DEF Inv, TypeOK, AllReady, Excluded, Returns, Owned, Parity, Swapped, NoFatal, IdleFutex
  <2>5. Seen' /\ Swapped'
    BY <1>6 DEF Inv, TypeOK, AllReady, Excluded, Returns, Parity, Seen, Swapped, IdleFutex
  <2>6. Counting'
    BY <1>6, <2>2 DEF Inv, TypeOK, AllReady, Excluded, Parity, Counting, AckCount, IdleFutex
  <2>7. QED  BY <2>1, <2>3, <2>4, <2>5, <2>6 DEF Inv
<1>7. QED  BY <1>1, <1>2, <1>3, <1>4, <1>5, <1>6 DEF Running

LEMMA StartInv ==
    ASSUME Inv, NEW w \in Workers, Start(w)
    PROVE  Inv'
  BY DEF Inv, AllReady, Start, InitReady, InitAdd

LEMMA HostWakeInv ==
    ASSUME Inv, NEW w \in Workers, HostWake(w)
    PROVE  Inv'
<1> USE WorldAssumption
<1>1. TypeOK'
  BY DEF Inv, TypeOK, HostWake
<1>2. Acked' = Acked
  BY DEF Inv, TypeOK, Acked, HostWake
<1>3. AllReady' /\ Excluded' /\ Returns' /\ Owned' /\ Parity' /\ NoFatal'
  BY DEF Inv, TypeOK, AllReady, Excluded, Returns, Owned, Parity, NoFatal, HostWake
<1>4. Seen' /\ Swapped' /\ Counting'
  BY <1>2 DEF Inv, TypeOK, Seen, Swapped, Counting, AckCount, HostWake
<1>5. QED  BY <1>1, <1>3, <1>4 DEF Inv

LEMMA InitInv == Starting = {} /\ Init => Inv
<1> SUFFICES ASSUME Starting = {}, Init PROVE Inv
    OBVIOUS
<1> USE WorldAssumption DEF Init
<1>1. TypeOK /\ AllReady
  <2>1. Workers \ Starting = Workers /\ Cardinality(Workers) \in Nat
    BY FS_CardinalityType
  <2>2. gcReady \in [Workers -> BOOLEAN] /\ \A w \in Workers : gcReady[w]
    OBVIOUS
  <2>3. pc \in [Workers -> PcSet] /\ \A w \in Workers : pc[w] = "run"
    OBVIOUS
  <2>4. QED  BY <2>1, <2>2, <2>3 DEF TypeOK, AllReady
<1>2. Excluded /\ Returns /\ Owned /\ Parity /\ Seen /\ Swapped /\ NoFatal
  BY DEF Excluded, Returns, Owned, Parity, Seen, Swapped, NoFatal
<1>3. Counting
  BY DEF Counting, AckCount
<1>4. QED  BY <1>1, <1>2, <1>3 DEF Inv

\* The inductive step: every action of every worker preserves Inv.
LEMMA NextInv == Inv /\ [Next]_vars => Inv'
<1> SUFFICES ASSUME Inv, [Next]_vars PROVE Inv'
    OBVIOUS
<1>1. ASSUME NEW w \in Workers, Step(w) PROVE Inv'
  BY <1>1, StopForGCInv, CollectInv, AllocatorInv, RunningInv, StartInv DEF Step
<1>2. ASSUME NEW w \in Workers, HostWake(w) PROVE Inv'
  BY <1>2, HostWakeInv
<1>3. CASE UNCHANGED vars
  <2>1. TypeOK' /\ AllReady' /\ NoFatal'
    BY <1>3 DEF vars, Inv, TypeOK, AllReady, NoFatal
  <2>2. Excluded' /\ Returns' /\ Owned'
    BY <1>3 DEF vars, Inv, Excluded, Returns, Owned
  <2>3. Parity'
    BY <1>3 DEF vars, Inv, Parity
  <2>4. Seen'
    BY <1>3 DEF vars, Inv, Seen
  <2>5. Swapped'
    BY <1>3 DEF vars, Inv, Swapped
  <2>6. Acked' = Acked
    BY <1>3 DEF vars, Acked
  <2>7. Counting'
    BY <1>3, <2>6 DEF vars, Inv, Counting, AckCount
  <2>8. QED  BY <2>1, <2>2, <2>3, <2>4, <2>5, <2>7 DEF Inv
<1>4. QED  BY <1>1, <1>2, <1>3 DEF Next

\* The inductive invariant holds in every state of a pool whose workers have
\* all gone through initWasmWorkerGCSystem.
THEOREM Invariance == Starting = {} /\ Spec => []Inv
  BY InitInv, NextInv, PTL DEF Spec

\* Types of the shared words and locals, for every pool of started workers.
THEOREM TypeCorrect == Starting = {} /\ Spec => []TypeOK
<1>1. Inv => TypeOK
  BY DEF Inv
<1>2. QED  BY <1>1, Invariance, PTL

\* wasmGCWorld.stopped counts the acknowledgements of this epoch exactly.
THEOREM AckCountExact == Starting = {} /\ Spec => []AckCount
<1>1. Inv => AckCount
  BY DEF Inv, Counting
<1>2. QED  BY <1>1, Invariance, PTL

\* A collector that left wasmGCStopTheWorld has stopped every other worker with
\* its roots published, until it calls wasmGCResumeWorld.
THEOREM WorldIsStopped == Starting = {} /\ Spec => []StoppedWorld
<1>1. Inv => StoppedWorld
  BY DEF Inv, TypeOK, Counting, Seen, Acked, StoppedWorld
<1>2. QED  BY <1>1, Invariance, PTL

\* The fatal errors of wasm_gc_stw.go and runWasmG are unreachable.
THEOREM FatalUnreachable == Starting = {} /\ Spec => []NoFatal
<1>1. Inv => NoFatal
  BY DEF Inv
<1>2. QED  BY <1>1, Invariance, PTL
=============================================================================
