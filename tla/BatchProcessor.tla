--------------------------- MODULE BatchProcessor ---------------------------
(***************************************************************************)
(* processors/abstract.py, class BatchProcessor: callers put (id, item)    *)
(* pairs on an asyncio.Queue and wait on an event; one worker collects a   *)
(* batch, awaits the engine and hands the i-th result to the i-th id.      *)
(*                                                                         *)
(* All of it runs on one event loop, so a stretch of code with no          *)
(* suspension point is one action.  The suspension points are queue.get,   *)
(* wait_for(queue.get), the engine call and event.wait.                    *)
(***************************************************************************)
EXTENDS Naturals, Sequences, FiniteSets

CONSTANTS
    Requests,       \* the calls of _submit; each gets a fresh uuid4
    Items,          \* request dicts
    ItemOf,         \* the dict a request carries
    Values,         \* what an engine can compute
    NoValue,        \* the value slot of an error dict
    BatchSize,      \* batch_size
    Compute(_, _)   \* Compute(batch, i): the i-th result of _process_batch(batch)

ASSUME BatchAssumption ==
    /\ ItemOf \in [Requests -> Items]
    /\ BatchSize \in Nat
    /\ NoValue \notin Values

VARIABLES
    started,        \* _started
    queue,          \* queue: the requests whose (id, item) is in it, oldest first
    worker,         \* where _worker is suspended
    batch,          \* batch: the items collected so far
    batchIds,       \* batch_ids
    results,        \* results: NoResult stands for an absent key
    events,         \* result_events: "absent", "unset" or "set"
    caller,         \* progress of each _submit
    got,            \* what each _submit returned
    submitted,      \* history: requests in the order of queue.put
    served          \* history: requests in the order the engine was given them

vars == <<started, queue, worker, batch, batchIds, results, events, caller, got,
          submitted, served>>

-----------------------------------------------------------------------------
Result(err, val) == [error |-> err, value |-> val]
NoResult == Result("absent", NoValue)
Missing  == Result("missing", NoValue)
Failed   == Result("failed", NoValue)
Own(r)   == Result("none", Compute(<<ItemOf[r]>>, 1))

Results == [error : {"absent", "none", "missing", "failed"}, value : Values \union {NoValue}]

\* The first item is taken before the length is compared with batch_size, so a
\* batch_size of 0 behaves as 1.
MaxBatch == IF BatchSize > 1 THEN BatchSize ELSE 1

Init ==
    /\ started = FALSE
    /\ queue = <<>>
    /\ worker = "off"
    /\ batch = <<>> /\ batchIds = <<>>
    /\ results = [r \in Requests |-> NoResult]
    /\ events = [r \in Requests |-> "absent"]
    /\ caller = [r \in Requests |-> "new"]
    /\ got = [r \in Requests |-> NoResult]
    /\ submitted = <<>> /\ served = <<>>

InBatch(r) == \E i \in DOMAIN batchIds : batchIds[i] = r
Queued(r) == \E i \in DOMAIN queue : queue[i] = r

\* start(): replaces the queue and both dicts, then launches the worker.
Reset ==
    /\ started' = TRUE
    /\ queue' = <<>>
    /\ results' = [r \in Requests |-> NoResult]
    /\ events' = [r \in Requests |-> "absent"]
    /\ worker' = "first"
    /\ UNCHANGED <<batch, batchIds, caller, got, submitted, served>>

Start == ~started /\ Reset

\* _submit calls start() when nobody has.
EnsureStarted ==
    /\ started' = TRUE
    /\ worker' = IF started THEN worker ELSE "first"

\* _submit up to event.wait().  The queue is unbounded, so put() does not suspend.
Submit(r) ==
    /\ caller[r] = "new"
    /\ EnsureStarted
    /\ events' = [events EXCEPT ![r] = "unset"]
    /\ queue' = Append(queue, r)
    /\ caller' = [caller EXCEPT ![r] = "waiting"]
    /\ submitted' = Append(submitted, r)
    /\ UNCHANGED <<batch, batchIds, results, got, served>>

\* Seeded fault: the newest item is put in front of the batch.
TakeInFront ==
    /\ queue # <<>>
    /\ batch' = <<ItemOf[Head(queue)]>> \o batch
    /\ batchIds' = <<Head(queue)>> \o batchIds
    /\ queue' = Tail(queue)
    /\ UNCHANGED <<started, results, events, caller, got, submitted, served>>

\* The item at the head of the queue joins the batch.
Take ==
    /\ queue # <<>>
    /\ batch' = Append(batch, ItemOf[Head(queue)])
    /\ batchIds' = Append(batchIds, Head(queue))
    /\ queue' = Tail(queue)
    /\ UNCHANGED <<started, results, events, caller, got, submitted, served>>

TakeFirst ==
    /\ worker = "first"
    /\ Take
    /\ worker' = "fill"

TakeMore ==
    /\ worker = "fill"
    /\ Len(batch) < BatchSize
    /\ Take
    /\ UNCHANGED worker

\* The batch is full, max_wait_time has passed, or wait_for timed out.  The
\* clock is read before the queue, so a timeout can leave items behind.
CloseBatch ==
    /\ worker = "fill"
    /\ worker' = "engine"
    /\ UNCHANGED <<started, queue, batch, batchIds, results, events, caller, got,
                   submitted, served>>

\* The i-th id gets the i-th of the k results.
Deliver(k, i) ==
    IF i <= k THEN Result("none", Compute(batch, i)) ELSE Missing

\* Every id of the batch gets its result and its event, if it still has one.
Distribute(ResultAt(_)) ==
    /\ results' = [r \in Requests |->
                     IF InBatch(r)
                     THEN ResultAt(CHOOSE i \in DOMAIN batchIds : batchIds[i] = r)
                     ELSE results[r]]
    /\ events' = [r \in Requests |->
                     IF events[r] # "absent" /\ InBatch(r) THEN "set" ELSE events[r]]

\* The worker goes back to wait for a first item.
NextBatch ==
    /\ worker' = "first"
    /\ batch' = <<>> /\ batchIds' = <<>>
    /\ served' = served \o batchIds
    /\ UNCHANGED <<started, queue, caller, got, submitted>>

\* _process_batch returned k results; results past the batch are ignored.
EngineReturns(k) ==
    /\ worker = "engine"
    /\ LET ResultAt(i) == Deliver(k, i) IN Distribute(ResultAt)
    /\ NextBatch

\* Seeded fault: the failed batch is dropped without an answer.
RaiseIsSwallowed ==
    /\ worker = "engine"
    /\ NextBatch
    /\ UNCHANGED <<results, events>>

\* _process_batch raised, or what it returned has no length.
EngineRaises ==
    /\ worker = "engine"
    /\ LET ResultAt(i) == Failed IN Distribute(ResultAt)
    /\ NextBatch

\* Seeded fault: the event is not deleted.
KeepEvent(r) == UNCHANGED events

DelEvent(r) == events' = [events EXCEPT ![r] = "absent"]

\* The caller resumes after event.wait(): results.pop, del result_events.
Collect(r) ==
    /\ caller[r] = "waiting"
    /\ events[r] = "set"
    /\ got' = [got EXCEPT ![r] = results[r]]
    /\ results' = [results EXCEPT ![r] = NoResult]
    /\ DelEvent(r)
    /\ caller' = [caller EXCEPT ![r] = "returned"]
    /\ UNCHANGED <<started, queue, worker, batch, batchIds, submitted, served>>

\* The task awaiting _submit is cancelled (a gRPC client hung up).  There is no
\* try/finally around event.wait(): the queue entry, the event and any result
\* stay where they are.
Cancel(r) ==
    /\ caller[r] = "waiting"
    /\ caller' = [caller EXCEPT ![r] = "cancelled"]
    /\ UNCHANGED <<started, queue, worker, batch, batchIds, results, events, got,
                   submitted, served>>

\* Every caller is done and the worker waits for a first item for ever.
Quiescent ==
    /\ \A r \in Requests : caller[r] \in {"returned", "cancelled"}
    /\ worker = "first" /\ queue = <<>>
    /\ UNCHANGED vars

EngineAnswers == EngineRaises \/ \E k \in 0..Len(batch) : EngineReturns(k)

Next ==
    \/ Start
    \/ \E r \in Requests : Submit(r) \/ Collect(r) \/ Cancel(r)
    \/ TakeFirst \/ TakeMore \/ CloseBatch
    \/ EngineAnswers
    \/ Quiescent

\* The event loop runs every ready task and fires every timer, and an engine
\* call returns or raises.  Nobody has to submit or to hang up.
Fairness ==
    /\ WF_vars(TakeFirst)
    /\ WF_vars(CloseBatch)
    /\ WF_vars(EngineAnswers)
    /\ \A r \in Requests : WF_vars(Collect(r))

Spec == Init /\ [][Next]_vars
FairSpec == Spec /\ Fairness

-----------------------------------------------------------------------------
\* The types of the attributes; a started processor has a worker.
TypeOK ==
    /\ started \in BOOLEAN
    /\ queue \in Seq(Requests)
    /\ worker \in {"off", "first", "fill", "engine"}
    /\ started <=> worker # "off"
    /\ batch \in Seq(Items)
    /\ batchIds \in Seq(Requests)
    /\ results \in [Requests -> Results]
    /\ events \in [Requests -> {"absent", "unset", "set"}]
    /\ caller \in [Requests -> {"new", "waiting", "returned", "cancelled"}]
    /\ got \in [Requests -> Results]
    /\ submitted \in Seq(Requests)
    /\ served \in Seq(Requests)

\* Sharing a batch is invisible: a caller that gets a result gets what the
\* engine would have computed for its item alone, whoever else was in the batch
\* and however many results came back (_worker's distribution by position).
BatchingTransparent ==
    \A r \in Requests : got[r].error = "none" => got[r] = Own(r)

\* No request is lost, duplicated or overtaken between queue.put and the
\* engine, through the first get, the timed gets and a lazy or explicit start.
NoneLostNoneOvertaken ==
    served \o batchIds \o queue = submitted

\* An event is set only over a stored result, so results.pop in _submit cannot
\* raise KeyError, and a waiting caller whose event is not set still has its
\* request on the way to the engine.
WakeUpsAreSound ==
    \A r \in Requests : caller[r] = "waiting" =>
        \/ events[r] = "set" /\ results[r] # NoResult
        \/ events[r] = "unset" /\ (InBatch(r) \/ Queued(r))

\* results and result_events hold entries only for callers still waiting and
\* for callers that were cancelled: a normal return leaves nothing behind.
OnlyCancelledLeak ==
    \A r \in Requests :
        events[r] # "absent" \/ results[r] # NoResult => caller[r] \in {"waiting", "cancelled"}

\* The engine never sees more than batch_size items, nor an empty batch.
BatchBounded ==
    /\ Len(batch) <= MaxBatch
    /\ worker = "engine" => batch # <<>>

\* A caller that is not cancelled gets its reply, even while others are
\* cancelled, the engine raises, or it returns short lists.
EveryCallerReturns ==
    \A r \in Requests : caller[r] = "waiting" ~> caller[r] \in {"returned", "cancelled"}

\* BatchProcessor implements BatchService: the pending requests are the batch
\* being collected followed by the queue, and a reply is whatever has been
\* stored for the caller, or already handed to it.
Service == INSTANCE BatchService WITH
    NoReply <- NoResult,
    OwnAnswer <- Own,
    pending <- batchIds \o queue,
    status <- caller,
    reply <- [r \in Requests |-> IF caller[r] = "returned" THEN got[r] ELSE results[r]]

ServesInOrder == Service!SSpec

=============================================================================
