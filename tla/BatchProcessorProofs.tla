------------------------ MODULE BatchProcessorProofs ------------------------
(***************************************************************************)
(* Safety of BatchProcessor for every set of requests and every batch      *)
(* size.  The inductive invariant adds to the checked properties what they *)
(* leave implicit: which requests are still travelling (InTransit), that   *)
(* the two lists of a batch are parallel (Parallel), and that a stored     *)
(* answer is already the right one before its caller collects it           *)
(* (StoredRight).                                                          *)
(***************************************************************************)
EXTENDS BatchProcessor, SequenceTheorems, TLAPS

\* What a subclass's _process_batch is assumed to do: its results are result
\* dicts, and each depends on its own item only.
ComputesValues ==
    \A items \in Seq(Items) : \A i \in 1..Len(items) : Compute(items, i) \in Values

Itemwise ==
    \A items \in Seq(Items) : \A i \in 1..Len(items) :
        Compute(items, i) = Compute(<<items[i]>>, 1)

-----------------------------------------------------------------------------
\* batch and batch_ids are parallel, and empty exactly outside fill and engine.
Parallel ==
    /\ Len(batch) = Len(batchIds)
    /\ \A i \in 1..Len(batchIds) : batch[i] = ItemOf[batchIds[i]]
    /\ Len(batch) <= MaxBatch
    /\ worker \in {"fill", "engine"} <=> batch # <<>>

\* A request in the batch or in the queue is there once, its event is not set,
\* nothing is stored for it, and its caller has not returned.
Travelling(r) ==
    /\ events[r] = "unset"
    /\ results[r] = NoResult
    /\ caller[r] \in {"waiting", "cancelled"}

InTransit ==
    /\ \A i \in 1..Len(batchIds) : Travelling(batchIds[i])
    /\ \A i \in 1..Len(queue) : Travelling(queue[i])
    /\ \A i, j \in 1..Len(batchIds) : batchIds[i] = batchIds[j] => i = j
    /\ \A i, j \in 1..Len(queue) : queue[i] = queue[j] => i = j
    /\ \A i \in 1..Len(batchIds), j \in 1..Len(queue) : batchIds[i] # queue[j]

\* Nothing is known of a request before it is submitted, and nobody has
\* submitted anything before the processor is started.
Unborn ==
    /\ \A r \in Requests : caller[r] = "new" => events[r] = "absent" /\ results[r] = NoResult
    /\ ~started => queue = <<>> /\ \A r \in Requests : caller[r] = "new"

\* A result is right from the moment it is stored.
StoredRight ==
    \A r \in Requests :
        /\ results[r].error = "none" => results[r] = Own(r)
        /\ got[r].error = "none" => got[r] = Own(r)

Shape == TypeOK /\ Parallel /\ Unborn

IInv == Shape /\ InTransit /\ WakeUpsAreSound /\ OnlyCancelledLeak

-----------------------------------------------------------------------------
\* The invariant holds before the processor is started.
LEMMA InitIInv == Init => IInv
<1> SUFFICES ASSUME Init PROVE IInv
  OBVIOUS
<1> USE DEF Init, NoResult, Result
<1>1. TypeOK
  BY EmptySeq DEF TypeOK, Results
<1>2. Parallel
  BY BatchAssumption DEF Parallel, MaxBatch
<1>3. Unborn /\ InTransit /\ WakeUpsAreSound /\ OnlyCancelledLeak
  BY DEF Unborn, InTransit, WakeUpsAreSound, OnlyCancelledLeak
<1>4. QED
  BY <1>1, <1>2, <1>3 DEF IInv, Shape

\* An explicit start finds an empty queue and no caller.
LEMMA StartIInv == IInv /\ Start => IInv'
<1> SUFFICES ASSUME IInv, Start PROVE IInv'
  OBVIOUS
<1> USE DEF IInv, Shape, Start, Reset
<1>1. TypeOK'
  BY EmptySeq DEF TypeOK, Results, NoResult, Result
<1>2. Parallel'
  BY DEF Parallel, TypeOK, MaxBatch
<1>3. Unborn'
  BY DEF Unborn
<1>4. batchIds = <<>>
  BY LenProperties, EmptySeq DEF TypeOK, Parallel
<1>5. InTransit'
  BY <1>4 DEF InTransit
<1>6. WakeUpsAreSound' /\ OnlyCancelledLeak'
  BY DEF WakeUpsAreSound, OnlyCancelledLeak, Unborn
<1>7. QED
  BY <1>1, <1>2, <1>3, <1>5, <1>6

\* A submission adds one new request at the end of the queue.
LEMMA SubmitIInv == ASSUME NEW r \in Requests, IInv, Submit(r) PROVE IInv'
<1> USE DEF IInv, Shape, Submit, EnsureStarted
<1>1. /\ queue' \in Seq(Requests)
      /\ Len(queue') = Len(queue) + 1
      /\ \A i \in 1..Len(queue) : queue'[i] = queue[i]
      /\ queue'[Len(queue) + 1] = r
  BY AppendProperties DEF TypeOK
<1>2. TypeOK'
  BY <1>1, AppendProperties DEF TypeOK
<1>3. Parallel'
  BY DEF Parallel, TypeOK, MaxBatch
<1>4. Unborn'
  BY DEF Unborn, TypeOK
<1>5. r \notin {batchIds[i] : i \in 1..Len(batchIds)} \cup {queue[i] : i \in 1..Len(queue)}
  BY DEF InTransit, Travelling
<1>6. InTransit'
  <2>1. \A i \in 1..Len(batchIds) : Travelling(batchIds[i])'
    BY <1>5, LenProperties DEF InTransit, Travelling, TypeOK
  <2>2. \A i \in 1..Len(queue') : Travelling(queue[i])'
    BY <1>1, <1>5, LenProperties DEF InTransit, Travelling, TypeOK, Unborn
  <2>3. QED
    BY <1>1, <1>5, <2>1, <2>2, LenProperties DEF InTransit, TypeOK
<1>7. WakeUpsAreSound'
  <2>1. DOMAIN queue = 1..Len(queue) /\ DOMAIN queue' = 1..Len(queue) + 1
    BY <1>1, LenProperties DEF TypeOK
  <2>2. Queued(r)' /\ events'[r] = "unset"
    BY <1>1, <2>1, LenProperties DEF Queued, TypeOK
  <2>3. ASSUME NEW q \in Requests, q # r, Queued(q) PROVE Queued(q)'
    BY <1>1, <2>1, <2>3 DEF Queued
  <2>4. \A q \in Requests : q # r => caller'[q] = caller[q] /\ events'[q] = events[q]
    BY DEF TypeOK
  <2>5. \A q \in Requests : InBatch(q)' <=> InBatch(q)
    BY DEF InBatch
  <2>6. QED
    BY <2>2, <2>3, <2>4, <2>5 DEF WakeUpsAreSound
<1>8. OnlyCancelledLeak'
  BY DEF OnlyCancelledLeak, TypeOK
<1>9. QED
  BY <1>2, <1>3, <1>4, <1>6, <1>7, <1>8

\* Moving the head of the queue to the end of the batch keeps every request in
\* transit; the guard on the length keeps the batch within bounds.
LEMMA TakeIInv ==
  ASSUME IInv, Take, worker \in {"first", "fill"}, worker' = "fill",
         Len(batch) < MaxBatch
  PROVE  IInv'
<1> USE DEF IInv, Shape, Take
<1> DEFINE h == Head(queue)
           n == Len(batchIds)
<1>1. /\ h \in Requests /\ Len(queue) \in Nat \ {0} /\ queue[1] = h
      /\ queue' \in Seq(Requests)
      /\ Len(queue') = Len(queue) - 1
      /\ \A i \in 1..Len(queue') : queue'[i] = queue[i + 1]
  BY HeadTailProperties, EmptySeq DEF TypeOK
<1>2. /\ n \in Nat
      /\ batchIds' \in Seq(Requests)
      /\ Len(batchIds') = n + 1
      /\ \A i \in 1..n : batchIds'[i] = batchIds[i]
      /\ batchIds'[n + 1] = h
  BY <1>1, AppendProperties, LenProperties DEF TypeOK
<1>3. /\ ItemOf[h] \in Items
      /\ batch' \in Seq(Items) /\ batch' # <<>>
      /\ Len(batch') = n + 1
      /\ \A i \in 1..n : batch'[i] = batch[i]
      /\ batch'[n + 1] = ItemOf[h]
  BY <1>1, AppendProperties, BatchAssumption DEF TypeOK, Parallel
<1>4. TypeOK'
  BY <1>1, <1>2, <1>3 DEF TypeOK
<1>5. Parallel'
  <2>1. Len(batch) = n /\ \A i \in 1..n : batch[i] = ItemOf[batchIds[i]]
    BY DEF Parallel
  <2>2. \A i \in 1..n + 1 : batch'[i] = ItemOf[batchIds'[i]]
    BY <1>2, <1>3, <2>1
  <2>3. n + 1 <= MaxBatch
    BY <1>2, <2>1, BatchAssumption DEF MaxBatch
  <2>4. QED
    BY <1>2, <1>3, <2>2, <2>3 DEF Parallel, MaxBatch
<1>6. Unborn'
  BY <1>1, EmptySeq DEF Unborn, TypeOK
<1>7. InTransit'
  <2>1. \A i \in 1..n + 1 : Travelling(batchIds'[i])
    BY <1>1, <1>2 DEF InTransit
  <2>2. \A i \in 1..Len(queue') : Travelling(queue'[i])
    BY <1>1 DEF InTransit
  <2>3. \A i, j \in 1..n + 1 : batchIds'[i] = batchIds'[j] => i = j
    BY <1>1, <1>2 DEF InTransit
  <2>4. \A i, j \in 1..Len(queue') : queue'[i] = queue'[j] => i = j
    BY <1>1 DEF InTransit
  <2>5. \A i \in 1..n + 1, j \in 1..Len(queue') : batchIds'[i] # queue'[j]
    BY <1>1, <1>2 DEF InTransit
  <2>6. \A i \in 1..n + 1 : Travelling(batchIds[i])'
    BY <2>1 DEF Travelling
  <2>7. \A i \in 1..Len(queue') : Travelling(queue[i])'
    BY <2>2 DEF Travelling
  <2>8. \A i \in 1..Len(batchIds') : Travelling(batchIds[i])'
    BY ONLY <1>2, <2>6
  <2>9. \A i, j \in 1..Len(batchIds') : batchIds'[i] = batchIds'[j] => i = j
    BY ONLY <1>2, <2>3
  <2>10. \A i \in 1..Len(batchIds'), j \in 1..Len(queue') : batchIds'[i] # queue'[j]
    BY ONLY <1>2, <2>5
  <2>11. QED
    BY ONLY <2>4, <2>7, <2>8, <2>9, <2>10 DEF InTransit
<1>8. ASSUME NEW q \in Requests, InBatch(q) \/ Queued(q) PROVE InBatch(q)' \/ Queued(q)'
  <2>1. /\ DOMAIN batchIds = 1..n /\ DOMAIN batchIds' = 1..n + 1
        /\ DOMAIN queue = 1..Len(queue) /\ DOMAIN queue' = 1..Len(queue')
    BY <1>1, <1>2, LenProperties DEF TypeOK
  <2>2. CASE InBatch(q)
    BY <1>2, <2>1, <2>2 DEF InBatch
  <2>3. CASE Queued(q)
    <3>1. PICK i \in 1..Len(queue) : queue[i] = q
      BY <2>1, <2>3 DEF Queued
    <3>2. CASE i = 1
      <4>1. n + 1 \in DOMAIN batchIds' /\ batchIds'[n + 1] = q
        BY <1>1, <1>2, <2>1, <3>1, <3>2
      <4>2. InBatch(q)'
        BY <4>1 DEF InBatch
      <4>3. QED
        BY <4>2
    <3>3. CASE i > 1
      <4>1. i - 1 \in 1..Len(queue') /\ queue'[i - 1] = q
        BY <1>1, <3>1, <3>3
      <4>2. Queued(q)'
        BY <2>1, <4>1 DEF Queued
      <4>3. QED
        BY <4>2
    <3>4. QED
      BY <3>2, <3>3
  <2>4. QED
    BY <1>8, <2>2, <2>3
<1>9. WakeUpsAreSound' /\ OnlyCancelledLeak'
  BY <1>8 DEF WakeUpsAreSound, OnlyCancelledLeak
<1>10. QED
  BY <1>4, <1>5, <1>6, <1>7, <1>9

\* Closing a batch changes nothing but the worker's place.
LEMMA CloseIInv == IInv /\ CloseBatch => IInv'
<1> SUFFICES ASSUME IInv, CloseBatch PROVE IInv'
  OBVIOUS
<1> USE DEF IInv, Shape, CloseBatch
<1>1. TypeOK' /\ Parallel' /\ Unborn'
  BY DEF TypeOK, Parallel, Unborn, MaxBatch
<1>2. InTransit'
  BY DEF InTransit, Travelling
<1>3. WakeUpsAreSound' /\ OnlyCancelledLeak'
  BY DEF WakeUpsAreSound, OnlyCancelledLeak, InBatch, Queued
<1>4. QED
  BY <1>1, <1>2, <1>3

-----------------------------------------------------------------------------
\* The engine's answer, whatever it is, ends the transit of exactly the
\* requests of the batch, and each has its event set over a stored result.
LEMMA EngineIInv ==
  ASSUME IInv, worker = "engine", NextBatch,
         results' \in [Requests -> Results],
         \A r \in Requests : results'[r] # NoResult <=> (InBatch(r) \/ results[r] # NoResult),
         events' = [r \in Requests |->
                      IF events[r] # "absent" /\ InBatch(r) THEN "set" ELSE events[r]]
  PROVE  IInv'
<1> USE DEF IInv, Shape, NextBatch
<1>1. DOMAIN batchIds = 1..Len(batchIds) /\ DOMAIN queue = 1..Len(queue)
  BY LenProperties DEF TypeOK
<1>2. \A r \in Requests : InBatch(r) => ~Queued(r) /\ Travelling(r)
  BY <1>1 DEF InBatch, Queued, InTransit
<1>3. TypeOK'
  BY EmptySeq, ConcatProperties DEF TypeOK
<1>4. Parallel'
  BY EmptySeq, BatchAssumption DEF Parallel, TypeOK, MaxBatch
<1>5. Unborn'
  BY <1>2 DEF Unborn, Travelling, TypeOK
<1>6. InTransit'
  <2>1. ASSUME NEW i \in 1..Len(queue) PROVE queue[i] \in Requests /\ ~InBatch(queue[i])
    <3>1. queue[i] \in Requests
      BY ElementOfSeq DEF TypeOK
    <3>2. Queued(queue[i])
      BY <1>1 DEF Queued
    <3>3. QED
      BY <1>2, <3>1, <3>2
  <2>2. \A i \in 1..Len(queue) : Travelling(queue[i])'
    BY <2>1 DEF InTransit, Travelling
  <2>3. Len(batchIds') = 0
    BY EmptySeq
  <2>4. QED
    BY <2>2, <2>3 DEF InTransit
<1>7. WakeUpsAreSound'
  BY <1>2 DEF WakeUpsAreSound, Travelling, Queued
<1>8. OnlyCancelledLeak'
  BY <1>2 DEF OnlyCancelledLeak, Travelling
<1>9. QED
  BY <1>3, <1>4, <1>5, <1>6, <1>7, <1>8

\* A batch of k results: own results first, then "missing" for the rest.
LEMMA ReturnsIInv ==
  ASSUME ComputesValues, IInv, NEW k \in 0..Len(batch), EngineReturns(k)
  PROVE  IInv'
<1> USE DEF EngineReturns
<1>1. \A i \in DOMAIN batchIds : Deliver(k, i) \in Results /\ Deliver(k, i) # NoResult
  <2>1. batch \in Seq(Items) /\ DOMAIN batchIds = 1..Len(batch) /\ Len(batch) \in Nat
    BY LenProperties DEF IInv, Shape, TypeOK, Parallel
  <2>2. \A i \in 1..Len(batch) : Compute(batch, i) \in Values
    BY <2>1 DEF ComputesValues
  <2>3. QED
    BY <2>1, <2>2 DEF Deliver, Results, Result, Missing, NoResult
<1>2. results' = [r \in Requests |->
                    IF InBatch(r)
                    THEN Deliver(k, CHOOSE i \in DOMAIN batchIds : batchIds[i] = r)
                    ELSE results[r]]
  BY DEF Distribute
<1>3. \A r \in Requests : InBatch(r) =>
         (CHOOSE i \in DOMAIN batchIds : batchIds[i] = r) \in DOMAIN batchIds
  BY DEF InBatch
<1>4. results' \in [Requests -> Results]
  BY <1>1, <1>2, <1>3 DEF IInv, Shape, TypeOK
<1>5. \A r \in Requests : results'[r] # NoResult <=> (InBatch(r) \/ results[r] # NoResult)
  BY <1>1, <1>2, <1>3
<1>6. events' = [r \in Requests |->
                   IF events[r] # "absent" /\ InBatch(r) THEN "set" ELSE events[r]]
  BY DEF Distribute
<1>7. QED
  BY <1>4, <1>5, <1>6, EngineIInv

\* A failed batch: every request of it is told so.
LEMMA RaisesIInv == IInv /\ EngineRaises => IInv'
<1> SUFFICES ASSUME IInv, EngineRaises PROVE IInv'
  OBVIOUS
<1> USE DEF EngineRaises
<1>1. Failed \in Results /\ Failed # NoResult
  BY DEF Failed, Results, Result, NoResult
<1>2. results' = [r \in Requests |-> IF InBatch(r) THEN Failed ELSE results[r]]
  BY DEF Distribute
<1>3. results' \in [Requests -> Results]
  BY <1>1, <1>2 DEF IInv, Shape, TypeOK
<1>4. \A r \in Requests : results'[r] # NoResult <=> (InBatch(r) \/ results[r] # NoResult)
  BY <1>1, <1>2
<1>5. events' = [r \in Requests |->
                   IF events[r] # "absent" /\ InBatch(r) THEN "set" ELSE events[r]]
  BY DEF Distribute
<1>6. QED
  BY <1>3, <1>4, <1>5, EngineIInv

\* A collected request is in neither list, for its event is set.
LEMMA CollectIInv == ASSUME NEW r \in Requests, IInv, Collect(r) PROVE IInv'
<1> USE DEF IInv, Shape, Collect, DelEvent
<1>1. NoResult \in Results
  BY DEF NoResult, Results, Result
<1>2. TypeOK'
  BY <1>1 DEF TypeOK
<1>3. Parallel' /\ Unborn'
  BY DEF Parallel, Unborn, MaxBatch, TypeOK
<1>4. /\ \A i \in 1..Len(batchIds) : batchIds[i] # r
      /\ \A i \in 1..Len(queue) : queue[i] # r
  BY DEF InTransit, Travelling
<1>5. InTransit'
  <2>1. \A i \in 1..Len(batchIds) : Travelling(batchIds[i])'
    BY <1>4, LenProperties DEF InTransit, Travelling, TypeOK
  <2>2. \A i \in 1..Len(queue) : Travelling(queue[i])'
    BY <1>4, LenProperties DEF InTransit, Travelling, TypeOK
  <2>3. QED
    BY <2>1, <2>2 DEF InTransit
<1>6. WakeUpsAreSound' /\ OnlyCancelledLeak'
  BY DEF WakeUpsAreSound, OnlyCancelledLeak, InBatch, Queued, TypeOK
<1>7. QED
  BY <1>2, <1>3, <1>5, <1>6

\* A cancelled caller leaves its request in transit.
LEMMA CancelIInv == ASSUME NEW r \in Requests, IInv, Cancel(r) PROVE IInv'
<1> USE DEF IInv, Shape, Cancel
<1>1. TypeOK' /\ Parallel' /\ Unborn'
  BY DEF TypeOK, Parallel, Unborn, MaxBatch
<1>2. InTransit'
  <2>1. ASSUME NEW q \in Requests, Travelling(q) PROVE Travelling(q)'
    BY ONLY <2>1, TypeOK, caller' = [caller EXCEPT ![r] = "cancelled"], UNCHANGED <<results, events>>
    DEF Travelling, TypeOK
  <2>2. ASSUME NEW i \in 1..Len(batchIds) PROVE batchIds[i] \in Requests
    BY LenProperties DEF TypeOK
  <2>3. ASSUME NEW i \in 1..Len(queue) PROVE queue[i] \in Requests
    BY LenProperties DEF TypeOK
  <2>4. \A i \in 1..Len(batchIds) : Travelling(batchIds[i])'
    BY <2>1, <2>2 DEF InTransit
  <2>5. \A i \in 1..Len(queue) : Travelling(queue[i])'
    BY <2>1, <2>3 DEF InTransit
  <2>6. QED
    BY <2>4, <2>5 DEF InTransit
<1>3. WakeUpsAreSound' /\ OnlyCancelledLeak'
  BY DEF WakeUpsAreSound, OnlyCancelledLeak, InBatch, Queued, TypeOK
<1>4. QED
  BY <1>1, <1>2, <1>3

\* Every step of the processor preserves the invariant.
LEMMA StepIInv == ComputesValues /\ IInv /\ [Next]_vars => IInv'
<1> SUFFICES ASSUME ComputesValues, IInv, [Next]_vars PROVE IInv'
  OBVIOUS
<1>1. CASE Start
  BY <1>1, StartIInv
<1>2. ASSUME NEW r \in Requests, Submit(r) \/ Collect(r) \/ Cancel(r) PROVE IInv'
  BY <1>2, SubmitIInv, CollectIInv, CancelIInv
<1>3. CASE TakeFirst
  <2>1. Len(batch) = 0
    BY <1>3, LenProperties, EmptySeq DEF IInv, Shape, TypeOK, Parallel, TakeFirst
  <2>2. Len(batch) < MaxBatch
    BY <2>1, BatchAssumption DEF MaxBatch
  <2>3. QED
    BY <1>3, <2>2, TakeIInv DEF TakeFirst
<1>4. CASE TakeMore
  <2>1. Len(batch) < MaxBatch
    BY <1>4, LenProperties, BatchAssumption DEF TakeMore, MaxBatch, IInv, Shape, TypeOK
  <2>2. QED
    BY <1>4, <2>1, TakeIInv DEF TakeMore
<1>5. CASE CloseBatch
  BY <1>5, CloseIInv
<1>6. CASE EngineAnswers
  BY <1>6, ReturnsIInv, RaisesIInv DEF EngineAnswers
<1>7. CASE UNCHANGED vars
  <2> USE <1>7 DEF vars
  <2>1. Shape' <=> Shape
    BY DEF Shape, TypeOK, Parallel, MaxBatch, Unborn
  <2>2. InTransit' <=> InTransit
    BY DEF InTransit, Travelling
  <2>3. WakeUpsAreSound' <=> WakeUpsAreSound
    BY DEF WakeUpsAreSound, InBatch, Queued
  <2>4. OnlyCancelledLeak' <=> OnlyCancelledLeak
    BY DEF OnlyCancelledLeak
  <2>5. QED
    BY <2>1, <2>2, <2>3, <2>4 DEF IInv
<1>8. QED
  BY <1>1, <1>2, <1>3, <1>4, <1>5, <1>6, <1>7 DEF Next, Quiescent

\* The types of the processor's state, and the rest of the invariant, hold in
\* every reachable state, for any engine whose results are result dicts.
THEOREM Invariance == ASSUME ComputesValues PROVE Spec => []IInv
<1>1. Init => IInv
  BY InitIInv
<1>2. IInv /\ [Next]_vars => IInv'
  BY StepIInv
<1>3. QED
  BY <1>1, <1>2, PTL DEF Spec

\* BatchProcessor's attributes keep their types and a started processor has
\* its worker.
THEOREM TypeCorrect == ASSUME ComputesValues PROVE Spec => []TypeOK
<1>1. IInv => TypeOK
  BY DEF IInv, Shape
<1>2. QED
  BY <1>1, Invariance, PTL

\* _submit's results.pop never misses, and a caller that waits on an unset
\* event has its request in the batch or in the queue.
THEOREM NoLostWakeUp == ASSUME ComputesValues PROVE Spec => []WakeUpsAreSound
<1>1. IInv => WakeUpsAreSound
  BY DEF IInv
<1>2. QED
  BY <1>1, Invariance, PTL

\* results and result_events grow by cancelled callers only.
THEOREM NoOtherLeak == ASSUME ComputesValues PROVE Spec => []OnlyCancelledLeak
<1>1. IInv => OnlyCancelledLeak
  BY DEF IInv
<1>2. QED
  BY <1>1, Invariance, PTL

\* No engine call is given more than batch_size items, or none.
THEOREM BatchSizeRespected == ASSUME ComputesValues PROVE Spec => []BatchBounded
<1>1. IInv => BatchBounded
  BY DEF IInv, Shape, Parallel, BatchBounded
<1>2. QED
  BY <1>1, Invariance, PTL

-----------------------------------------------------------------------------
\* Taking the head of a queue and appending it to what came before it does not
\* change the concatenation of the two.
LEMMA ShiftHead ==
  ASSUME NEW S, NEW s \in Seq(S), NEW q \in Seq(S), q # <<>>
  PROVE  Append(s, Head(q)) \o Tail(q) = s \o q
<1> DEFINE a == Append(s, Head(q))
           l == a \o Tail(q)
           m == s \o q
<1>1. /\ Head(q) \in S /\ Head(q) = q[1] /\ Len(q) \in Nat \ {0}
      /\ Tail(q) \in Seq(S) /\ Len(Tail(q)) = Len(q) - 1
      /\ \A i \in 1..Len(q) - 1 : Tail(q)[i] = q[i + 1]
  BY HeadTailProperties, EmptySeq
<1>2. /\ a \in Seq(S) /\ Len(s) \in Nat /\ Len(a) = Len(s) + 1
      /\ \A i \in 1..Len(s) : a[i] = s[i]
      /\ a[Len(s) + 1] = q[1]
  BY <1>1, AppendProperties, LenProperties
<1> HIDE DEF a
<1>3. /\ l \in Seq(S) /\ Len(l) = Len(s) + Len(q)
      /\ \A i \in 1..Len(s) + Len(q) :
            l[i] = IF i <= Len(s) + 1 THEN a[i] ELSE Tail(q)[i - (Len(s) + 1)]
  <2>1. /\ l \in Seq(S) /\ Len(l) = Len(a) + Len(Tail(q))
        /\ \A i \in 1..Len(a) + Len(Tail(q)) :
              l[i] = IF i <= Len(a) THEN a[i] ELSE Tail(q)[i - Len(a)]
    BY <1>1, <1>2, ConcatProperties
  <2>2. Len(a) + Len(Tail(q)) = Len(s) + Len(q)
    BY <1>1, <1>2
  <2>3. QED
    BY <1>2, <2>1, <2>2
<1>4. /\ m \in Seq(S) /\ Len(m) = Len(s) + Len(q)
      /\ \A i \in 1..Len(s) + Len(q) : m[i] = IF i <= Len(s) THEN s[i] ELSE q[i - Len(s)]
  BY <1>1, <1>2, ConcatProperties
<1> HIDE DEF l, m
<1>5. ASSUME NEW i \in 1..Len(s) + Len(q) PROVE l[i] = m[i]
  <2>1. l[i] = IF i <= Len(s) + 1 THEN a[i] ELSE Tail(q)[i - (Len(s) + 1)]
    BY ONLY <1>3, i \in 1..Len(s) + Len(q)
  <2>2. m[i] = IF i <= Len(s) THEN s[i] ELSE q[i - Len(s)]
    BY ONLY <1>4, i \in 1..Len(s) + Len(q)
  <2>3. i \in Nat \ {0} /\ i <= Len(s) + Len(q) /\ Len(s) \in Nat /\ Len(q) \in Nat
    BY ONLY <1>1, <1>2, i \in 1..Len(s) + Len(q)
  <2>4. CASE i <= Len(s)
    <3>1. i \in 1..Len(s) /\ i <= Len(s) + 1
      BY ONLY <2>3, <2>4
    <3>2. a[i] = s[i]
      BY ONLY <1>2, <3>1
    <3>3. QED
      BY ONLY <2>1, <2>2, <2>4, <3>1, <3>2
  <2>5. CASE i = Len(s) + 1
    <3>1. i <= Len(s) + 1 /\ ~(i <= Len(s)) /\ i - Len(s) = 1
      BY ONLY <2>3, <2>5
    <3>2. a[i] = q[1]
      BY ONLY <1>2, <2>5
    <3>3. QED
      BY ONLY <2>1, <2>2, <3>1, <3>2
  <2>6. CASE i > Len(s) + 1
    <3>1. /\ i - (Len(s) + 1) \in 1..Len(q) - 1 /\ i - (Len(s) + 1) + 1 = i - Len(s)
          /\ ~(i <= Len(s)) /\ ~(i <= Len(s) + 1)
      BY ONLY <2>3, <2>6
    <3>2. Tail(q)[i - (Len(s) + 1)] = q[i - Len(s)]
      BY <1>1, <3>1
    <3>3. QED
      BY ONLY <2>1, <2>2, <3>1, <3>2
  <2>7. QED
    BY ONLY <2>3, <2>4, <2>5, <2>6
<1>6. l = m
  BY <1>1, <1>2, <1>3, <1>4, <1>5, SeqEqual
<1>7. QED
  BY <1>6 DEF l, m, a

\* An element appended to the last part of a concatenation is appended to the
\* whole.
LEMMA AppendLast ==
  ASSUME NEW S, NEW s \in Seq(S), NEW q \in Seq(S), NEW e \in S
  PROVE  s \o Append(q, e) = Append(s \o q, e)
<1>1. <<e>> \in Seq(S)
  OBVIOUS
<1>2. s \o Append(q, e) = s \o (q \o <<e>>)
  BY AppendIsConcat
<1>3. s \o (q \o <<e>>) = (s \o q) \o <<e>>
  BY <1>1, ConcatAssociative
<1>4. QED
  BY <1>2, <1>3, AppendIsConcat, ConcatProperties

\* The request sequence is conserved by every step: a submission appends to
\* both sides, the worker's steps only move the boundaries between the parts.
LEMMA StepConserves ==
  IInv /\ NoneLostNoneOvertaken /\ [Next]_vars => NoneLostNoneOvertaken'
<1> SUFFICES ASSUME IInv, NoneLostNoneOvertaken, [Next]_vars
             PROVE  NoneLostNoneOvertaken'
  OBVIOUS
<1> USE DEF NoneLostNoneOvertaken
<1>1. /\ served \in Seq(Requests) /\ batchIds \in Seq(Requests) /\ queue \in Seq(Requests)
      /\ served \o batchIds \in Seq(Requests)
  BY ConcatProperties DEF IInv, Shape, TypeOK
<1>2. CASE Start
  BY <1>2 DEF Start, Reset, IInv, Shape, Unborn
<1>3. ASSUME NEW r \in Requests, Submit(r) PROVE NoneLostNoneOvertaken'
  BY <1>1, <1>3, AppendLast DEF Submit
<1>4. CASE TakeFirst \/ TakeMore
  <2>1. /\ queue # <<>> /\ served' = served /\ submitted' = submitted
        /\ batchIds' = Append(batchIds, Head(queue)) /\ queue' = Tail(queue)
    BY <1>4 DEF TakeFirst, TakeMore, Take
  <2>2. Head(queue) \in Requests
    BY <1>1, <2>1, HeadTailProperties
  <2>3. served \o batchIds' = Append(served \o batchIds, Head(queue))
    BY <1>1, <2>1, <2>2, AppendLast
  <2>4. (served \o batchIds') \o queue' = (served \o batchIds) \o queue
    BY <1>1, <2>1, <2>3, ShiftHead
  <2>5. QED
    BY <2>1, <2>4
<1>5. CASE EngineAnswers
  <2>1. /\ batchIds' = <<>> /\ served' = served \o batchIds
        /\ queue' = queue /\ submitted' = submitted
    BY <1>5 DEF EngineAnswers, EngineReturns, EngineRaises, NextBatch
  <2>2. served' \o batchIds' = served \o batchIds
    BY <1>1, <2>1, ConcatEmptySeq
  <2>3. QED
    BY <2>1, <2>2
<1>6. CASE UNCHANGED <<queue, batchIds, submitted, served>>
  BY <1>6
<1>7. QED
  BY <1>2, <1>3, <1>4, <1>5, <1>6 DEF Next, CloseBatch, Collect, Cancel, Quiescent, vars

\* Every request put on the queue reaches the engine exactly once, in the order
\* of submission, whatever the batch size, the timeouts and the cancellations.
THEOREM RequestsConserved == ASSUME ComputesValues PROVE Spec => []NoneLostNoneOvertaken
<1>1. Init => NoneLostNoneOvertaken
  BY EmptySeq, ConcatEmptySeq DEF Init, NoneLostNoneOvertaken
<1>2. IInv /\ NoneLostNoneOvertaken /\ [Next]_vars => NoneLostNoneOvertaken'
  BY StepConserves
<1>3. QED
  BY <1>1, <1>2, Invariance, PTL DEF Spec

-----------------------------------------------------------------------------
\* A stored result is the caller's own: Distribute looks the id up in batch_ids
\* and the item stands at the same place of batch.
LEMMA StepRight ==
  ASSUME Itemwise, IInv, StoredRight, [Next]_vars
  PROVE  StoredRight'
<1> USE DEF StoredRight
<1>1. CASE Start
  BY <1>1 DEF Start, Reset, NoResult, Result, Own
<1>2. ASSUME NEW r \in Requests, Submit(r) \/ Cancel(r) PROVE StoredRight'
  BY <1>2 DEF Submit, Cancel, Own
<1>3. ASSUME NEW r \in Requests, Collect(r) PROVE StoredRight'
  BY <1>3 DEF Collect, NoResult, Result, Own, IInv, Shape, TypeOK
<1>4. ASSUME NEW k \in 0..Len(batch), EngineReturns(k) PROVE StoredRight'
  <2> DEFINE at(r) == CHOOSE i \in DOMAIN batchIds : batchIds[i] = r
  <2>1. /\ got' = got
        /\ results' = [r \in Requests |->
                         IF InBatch(r) THEN Deliver(k, at(r)) ELSE results[r]]
    BY <1>4 DEF EngineReturns, Distribute, NextBatch
  <2>2. ASSUME NEW r \in Requests, InBatch(r), Deliver(k, at(r)).error = "none"
        PROVE  Deliver(k, at(r)) = Own(r)
    <3>1. at(r) \in DOMAIN batchIds /\ batchIds[at(r)] = r
      BY <2>2 DEF InBatch
    <3>2. /\ batch \in Seq(Items) /\ at(r) \in 1..Len(batch)
          /\ batch[at(r)] = ItemOf[r]
      BY <3>1, LenProperties DEF IInv, Shape, TypeOK, Parallel
    <3>3. Compute(batch, at(r)) = Compute(<<ItemOf[r]>>, 1)
      BY <3>2 DEF Itemwise
    <3>4. Deliver(k, at(r)) = Result("none", Compute(batch, at(r)))
      BY <2>2 DEF Deliver, Missing, Result
    <3>5. QED
      BY <3>3, <3>4 DEF Own
  <2> HIDE DEF at
  <2>3. \A r \in Requests : Own(r)' = Own(r)
    BY DEF Own
  <2>4. QED
    BY <2>1, <2>2, <2>3
<1>5. CASE EngineRaises
  <2>1. /\ got' = got
        /\ results' = [r \in Requests |-> IF InBatch(r) THEN Failed ELSE results[r]]
    BY <1>5 DEF EngineRaises, Distribute, NextBatch
  <2>2. QED
    BY <2>1 DEF Failed, Result, Own
<1>6. CASE UNCHANGED <<results, got>>
  BY <1>6 DEF Own
<1>7. QED
  BY <1>1, <1>2, <1>3, <1>4, <1>5, <1>6
     DEF Next, EngineAnswers, TakeFirst, TakeMore, Take, CloseBatch, Quiescent, vars

\* Over an engine that treats the items of a batch one by one, sharing a batch
\* is invisible: whoever gets a result gets the one of its own item.
THEOREM Transparency ==
  ASSUME ComputesValues, Itemwise PROVE Spec => []BatchingTransparent
<1>1. Init => StoredRight
  BY DEF Init, StoredRight, NoResult, Result
<1>2. IInv /\ StoredRight /\ [Next]_vars => StoredRight'
  BY StepRight
<1>3. StoredRight => BatchingTransparent
  BY DEF StoredRight, BatchingTransparent
<1>4. QED
  BY <1>1, <1>2, <1>3, Invariance, PTL DEF Spec

-----------------------------------------------------------------------------
\* What BatchService sees of the processor.
Pending == batchIds \o queue
Answer(r) == IF caller[r] = "returned" THEN got[r] ELSE results[r]
Answers == [r \in Requests |-> Answer(r)]

\* The n requests of the batch leave the front of what is pending.
LEMMA FrontLeaves ==
  ASSUME NEW S, NEW s \in Seq(S), NEW q \in Seq(S)
  PROVE  /\ SubSeq(s \o q, Len(s) + 1, Len(s \o q)) = q
         /\ Len(s) <= Len(s \o q)
         /\ \A i \in 1..Len(s) : (s \o q)[i] = s[i]
<1>1. /\ s \o q \in Seq(S) /\ Len(s \o q) = Len(s) + Len(q)
      /\ Len(s) \in Nat /\ Len(q) \in Nat
      /\ \A i \in 1..Len(s) + Len(q) :
            (s \o q)[i] = IF i <= Len(s) THEN s[i] ELSE q[i - Len(s)]
  BY ConcatProperties, LenProperties
<1> DEFINE m == s \o q
           rest == SubSeq(m, Len(s) + 1, Len(m))
<1> HIDE DEF m
<1>2. \A i \in Len(s) + 1 .. Len(m) : m[i] \in S
  <2>1. \A i \in Len(s) + 1 .. Len(m) : i \in 1..Len(m)
    BY <1>1 DEF m
  <2> QED  BY <1>1, <2>1, ElementOfSeq DEF m
<1>3. /\ rest \in Seq(S) /\ Len(rest) = Len(q)
      /\ \A i \in 1..Len(q) : rest[i] = m[Len(s) + i]
  <2>1. m \in Seq(S) /\ Len(m) \in Nat /\ Len(s) + 1 \in 1..Len(m) + 1 /\ Len(m) \in Len(s)..Len(m)
    BY <1>1 DEF m
  <2>2. /\ rest \in Seq(S)
        /\ Len(rest) = IF Len(s) + 1 <= Len(m) THEN Len(m) - (Len(s) + 1) + 1 ELSE 0
        /\ \A i \in 1..Len(m) - (Len(s) + 1) + 1 : rest[i] = m[Len(s) + 1 + i - 1]
    BY <1>2, <2>1, SubSeqProperties
  <2>3. Len(m) = Len(s) + Len(q)
    BY <1>1 DEF m
  <2>4. Len(rest) = Len(q)
    BY <1>1, <2>2, <2>3
  <2>5. \A i \in 1..Len(q) : rest[i] = m[Len(s) + i]
    <3>1. \A i \in 1..Len(q) :
            i \in 1..Len(m) - (Len(s) + 1) + 1 /\ Len(s) + 1 + i - 1 = Len(s) + i
      BY <1>1, <2>3
    <3> QED  BY <2>2, <3>1
  <2> QED  BY <2>2, <2>4, <2>5
<1>4. \A i \in 1..Len(q) : m[Len(s) + i] = q[i]
  <2>1. \A i \in 1..Len(q) : /\ Len(s) + i \in 1..Len(s) + Len(q)
                             /\ ~(Len(s) + i <= Len(s)) /\ Len(s) + i - Len(s) = i
    BY <1>1
  <2> QED  BY <1>1, <2>1 DEF m
<1> HIDE DEF rest
<1>5. rest = q
  BY <1>3, <1>4, SeqEqual
<1>6. \A i \in 1..Len(s) : (s \o q)[i] = s[i]
  <2>1. \A i \in 1..Len(s) : i \in 1..Len(s) + Len(q) /\ i <= Len(s)
    BY <1>1
  <2> QED  BY <1>1, <2>1
<1> QED  BY <1>1, <1>5, <1>6 DEF rest, m

\* A step that BatchService does not see.
Unseen == Pending' = Pending /\ caller' = caller /\ Answers' = Answers

LEMMA UnseenStutters ==
  ASSUME Unseen PROVE UNCHANGED Service!svars
BY DEF Unseen, Pending, Answers, Answer, Service!svars

LEMMA InitImplements == ASSUME Init PROVE Service!SInit
<1>1. batchIds \o queue = <<>>
  BY EmptySeq, ConcatEmptySeq DEF Init
<1> QED  BY <1>1 DEF Init, Service!SInit

\* A start, lazy or not, finds nobody waiting.
LEMMA StartUnseen == ASSUME IInv, Start PROVE Unseen
<1>1. queue = <<>> /\ \A r \in Requests : results[r] = NoResult /\ caller[r] = "new"
  BY DEF IInv, Shape, Unborn, Start
<1> QED  BY <1>1 DEF Start, Reset, Unseen, Pending, Answers, Answer

LEMMA TakeUnseen == ASSUME IInv, TakeFirst \/ TakeMore PROVE Unseen
<1>1. /\ queue # <<>> /\ batchIds' = Append(batchIds, Head(queue)) /\ queue' = Tail(queue)
      /\ UNCHANGED <<caller, got, results>>
  BY DEF TakeFirst, TakeMore, Take
<1>2. Pending' = Pending
  BY <1>1, ShiftHead DEF IInv, Shape, TypeOK, Pending
<1> QED  BY <1>1, <1>2 DEF Unseen, Answers, Answer

LEMMA CallersImplement ==
  ASSUME IInv, NEW r \in Requests, Submit(r) \/ Collect(r) \/ Cancel(r)
  PROVE  Service!Ask(r) \/ Service!Return(r) \/ Service!GiveUp(r)
<1>1. CASE Submit(r)
  <2>1. Pending' = Append(Pending, r)
    BY <1>1, AppendLast DEF IInv, Shape, TypeOK, Submit, Pending
  <2>2. Answers' = Answers
    BY <1>1 DEF IInv, Shape, TypeOK, Submit, Answers, Answer
  <2>3. caller[r] = "new" /\ caller' = [caller EXCEPT ![r] = "waiting"]
    BY <1>1 DEF Submit
  <2> QED  BY <2>1, <2>2, <2>3 DEF Service!Ask, Pending, Answers, Answer
<1>2. CASE Collect(r)
  <2>1. /\ caller[r] = "waiting" /\ results[r] # NoResult
        /\ caller' = [caller EXCEPT ![r] = "returned"]
        /\ UNCHANGED <<batchIds, queue>>
    BY <1>2 DEF IInv, WakeUpsAreSound, Collect
  <2>2. Answers' = Answers
    BY <1>2 DEF IInv, Shape, TypeOK, Collect, Answers, Answer
  <2> QED  BY <2>1, <2>2 DEF Service!Return, Answers, Answer
<1>3. CASE Cancel(r)
  <2>1. /\ caller[r] = "waiting" /\ caller' = [caller EXCEPT ![r] = "cancelled"]
        /\ UNCHANGED <<batchIds, queue>>
    BY <1>3 DEF Cancel
  <2>2. Answers' = Answers
    BY <1>3 DEF IInv, Shape, TypeOK, Cancel, Answers, Answer
  <2> QED  BY <2>1, <2>2 DEF Service!GiveUp, Answers, Answer
<1> QED  BY <1>1, <1>2, <1>3

\* The engine answers the batch: the n oldest pending requests.  K of them are
\* told their own answer.
LEMMA EngineImplements ==
  ASSUME Itemwise, IInv, EngineAnswers
  PROVE  Service!ServeSome
<1> DEFINE n == Len(batchIds)
           at(r) == CHOOSE i \in DOMAIN batchIds : batchIds[i] = r
<1>1. /\ batchIds \in Seq(Requests) /\ queue \in Seq(Requests) /\ batch \in Seq(Items)
      /\ n \in Nat /\ DOMAIN batchIds = 1..n /\ Len(batch) = n
  BY LenProperties DEF IInv, Shape, TypeOK, Parallel
<1>2. worker = "engine" /\ batchIds' = <<>> /\ queue' = queue /\ caller' = caller /\ got' = got
  BY DEF EngineAnswers, EngineReturns, EngineRaises, NextBatch
<1>3. n \in 1..MaxBatch
  <2>1. batch # <<>> /\ n <= MaxBatch /\ MaxBatch \in Nat
    BY <1>1, <1>2, BatchAssumption DEF IInv, Shape, Parallel, MaxBatch
  <2>2. n # 0
    BY <1>1, <2>1, EmptySeq
  <2> QED  BY <1>1, <2>1, <2>2
<1>4. /\ Pending' = SubSeq(Pending, n + 1, Len(Pending)) /\ n <= Len(Pending)
      /\ \A i \in 1..n : Pending[i] = batchIds[i]
  <2>1. <<>> \o queue = queue
    BY <1>1, ConcatEmptySeq
  <2> QED  BY <1>1, <1>2, <2>1, FrontLeaves DEF Pending
<1>5. \A r \in Requests : InBatch(r) => /\ at(r) \in 1..n /\ batchIds[at(r)] = r
                                        /\ caller[r] # "returned"
  <2> SUFFICES ASSUME NEW r \in Requests, InBatch(r)
               PROVE  at(r) \in 1..n /\ batchIds[at(r)] = r /\ caller[r] # "returned"
    OBVIOUS
  <2>1. at(r) \in 1..n /\ batchIds[at(r)] = r
    BY <1>1 DEF InBatch
  <2> QED  BY <2>1 DEF IInv, InTransit, Travelling
<1> HIDE DEF at
<1>6. ASSUME NEW k \in 0..n, NEW raised \in BOOLEAN,
             \A r \in Requests : results'[r] =
                IF InBatch(r)
                THEN IF raised THEN Failed ELSE IF at(r) <= k THEN Own(r) ELSE Missing
                ELSE results[r]
      PROVE  Service!Serve(n, k, raised)
  <2>1. \A r \in Requests : InBatch(r) <=> \E i \in 1..n : Pending[i] = r
    BY <1>1, <1>4 DEF InBatch
  <2>2. ASSUME NEW r \in Requests, InBatch(r)
        PROVE  at(r) <= k <=> \E i \in 1..k : Pending[i] = r
    <3>1. \A i \in 1..k : i \in 1..n
      BY <1>1
    <3>2. \A i \in 1..n : Pending[i] = r => i = at(r)
      BY <1>4, <1>5, <2>2 DEF IInv, InTransit
    <3>3. at(r) \in 1..n /\ Pending[at(r)] = r
      BY <1>4, <1>5, <2>2
    <3> QED  BY <1>1, <3>1, <3>2, <3>3
  <2>3. Answers' = [r \in Requests |->
                        IF \E i \in 1..n : Pending[i] = r
                        THEN IF raised THEN Failed
                             ELSE IF \E i \in 1..k : Pending[i] = r THEN Own(r) ELSE Missing
                        ELSE Answers[r]]
    BY <1>2, <1>5, <1>6, <2>1, <2>2 DEF Answers, Answer
  <2> QED  BY <1>2, <1>4, <2>3 DEF Service!Serve, Pending, Answers, Answer
<1>7. CASE EngineRaises
  <2>1. \A r \in Requests : results'[r] = IF InBatch(r) THEN Failed ELSE results[r]
    BY <1>7 DEF EngineRaises, Distribute
  <2>2. 0 \in 0..n
    BY <1>1
  <2>3. Service!Serve(n, 0, TRUE)
    BY <1>6, <2>1, <2>2
  <2> QED  BY <1>3, <1>4, <2>2, <2>3 DEF Service!ServeSome, Pending
<1>8. ASSUME NEW k \in 0..Len(batch), EngineReturns(k) PROVE Service!ServeSome
  <2>1. \A r \in Requests : results'[r] = IF InBatch(r) THEN Deliver(k, at(r)) ELSE results[r]
    BY <1>8 DEF EngineReturns, Distribute, at
  <2>2. ASSUME NEW r \in Requests, InBatch(r)
        PROVE  Deliver(k, at(r)) = IF at(r) <= k THEN Own(r) ELSE Missing
    <3>1. at(r) \in 1..Len(batch) /\ batch[at(r)] = ItemOf[r]
      BY <1>1, <1>5, <2>2 DEF IInv, Shape, Parallel
    <3>2. Compute(batch, at(r)) = Compute(<<ItemOf[r]>>, 1)
      BY <1>1, <3>1 DEF Itemwise
    <3> QED  BY <3>2 DEF Deliver, Own
  <2>3. k \in 0..n
    BY <1>1, <1>8
  <2>4. Service!Serve(n, k, FALSE)
    BY <1>6, <2>1, <2>2, <2>3
  <2> QED  BY <1>3, <1>4, <2>3, <2>4 DEF Service!ServeSome, Pending
<1> QED  BY <1>7, <1>8 DEF EngineAnswers

LEMMA StepImplements ==
  ASSUME Itemwise, IInv, [Next]_vars
  PROVE  [Service!SNext]_(Service!svars)
<1>1. CASE Start \/ TakeFirst \/ TakeMore
  BY <1>1, StartUnseen, TakeUnseen, UnseenStutters
<1>2. ASSUME NEW r \in Requests, Submit(r) \/ Collect(r) \/ Cancel(r)
      PROVE  Service!SNext
  BY <1>2, CallersImplement DEF Service!SNext
<1>3. CASE EngineAnswers
  BY <1>3, EngineImplements DEF Service!SNext
<1>4. CASE CloseBatch \/ Quiescent \/ UNCHANGED vars
  <2>1. UNCHANGED <<batchIds, queue, caller, got, results>>
    BY <1>4 DEF CloseBatch, Quiescent, vars
  <2> QED  BY <2>1, UnseenStutters DEF Unseen, Pending, Answers, Answer
<1> QED  BY <1>1, <1>2, <1>3, <1>4 DEF Next

\* Over an engine that treats the items of a batch one by one, the queue, the
\* worker and the events do nothing but what BatchService says: a prefix of the
\* submission order is answered at a time, everybody with the own answer, or
\* the failure, or "missing" at the end (_worker, _submit).
THEOREM ImplementsService ==
  ASSUME ComputesValues, Itemwise
  PROVE  Spec => Service!SInit /\ [][Service!SNext]_(Service!svars)
<1>1. Init => Service!SInit
  BY InitImplements
<1>2. IInv /\ [Next]_vars => [Service!SNext]_(Service!svars)
  BY StepImplements
<1> QED  BY <1>1, <1>2, Invariance, PTL DEF Spec

=============================================================================
