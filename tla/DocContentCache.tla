-------------------------- MODULE DocContentCache ---------------------------
(***************************************************************************)
(* pipeline/pipeline.py, get_doc_content and _record_cache_insert: the     *)
(* per-run cache of document contents, over the content processor of the   *)
(* collection (Content).  Rerank stages gather one get_doc_content per     *)
(* candidate, and parallel branches gather theirs at the same time.        *)
(*                                                                         *)
(* A local collection is read without giving up the event loop.  A relayed *)
(* one is awaited: other calls run between the look-up and the insertion   *)
(* of a call, and the server that holds the collection serves others too.  *)
(***************************************************************************)
EXTENDS Content, Sequences, SequencesExt

CONSTANTS
    Tasks,          \* the calls of get_doc_content during one run
    KeyFor,         \* the <<view, doc_id>> each call asks for
    Bytes,          \* Bytes[view][doc]: _value_bytes_size of a content
    MaxBytes,       \* _bytes_cache_max
    NoCap           \* its value when there is no cap

ASSUME DocAssumption ==
    /\ KeyFor \in [Tasks -> Views \X DocIds]
    /\ Bytes \in [Views -> [DocIds -> Nat]]
    /\ MaxBytes \in Nat \union {NoCap}

VARIABLES
    contents,       \* doc_content_cache: its [key, value] items in insertion order
    bytesUsed,      \* _bytes_cache_used
    progress,       \* where each get_doc_content is
    reply,          \* what came back from the content processor
    got             \* the content each call returned

docVars == <<contents, bytesUsed, progress, reply, got, contentVars>>

Nothing == [nothing |-> "yet"]

Size(value) == IF Kind(value.view) = "text" THEN 0 ELSE Bytes[value.view][value.doc]

-----------------------------------------------------------------------------
DocInit ==
    /\ ContentInit
    /\ contents = <<>>
    /\ bytesUsed = 0
    /\ progress = [t \in Tasks |-> "new"]
    /\ reply = [t \in Tasks |-> Nothing]
    /\ got = [t \in Tasks |-> Nothing]

Has(q, k) == \E i \in DOMAIN q : q[i].key = k

ValueOf(q, k) == (CHOOSE e \in ToSet(q) : e.key = k).value

BytesIn(q) ==
    LET upTo[i \in 0..Len(q)] == IF i = 0 THEN 0 ELSE upTo[i - 1] + Size(q[i].value)
    IN  upTo[Len(q)]

\* Assigning to a key of a dict keeps the place the key has.
Assign(q, k, value) ==
    IF Has(q, k) THEN [i \in DOMAIN q |-> IF q[i].key = k THEN [key |-> k, value |-> value] ELSE q[i]]
                 ELSE Append(q, [key |-> k, value |-> value])

\* The eviction loop ends once n entries are gone from the front: the size is
\* under the cap, nothing is left, or the next to go was just inserted.
StopsAfter(q, k, used, n) ==
    used - BytesIn(SubSeq(q, 1, n)) <= MaxBytes \/ n = Len(q) \/ q[n + 1].key = k

\* Seeded fault: an if in the place of the while.
EvictAtMostOne(q, k, used) == IF StopsAfter(q, k, used, 0) THEN 0 ELSE 1

\* How many entries the loop evicts.
Evictions(q, k, used) ==
    CHOOSE n \in 0..Len(q) :
        StopsAfter(q, k, used, n) /\ \A m \in 0..(n - 1) : ~StopsAfter(q, k, used, m)

\* _bytes_cache_used grows by the size even when the key is there already.
Counted(value) == bytesUsed + Size(value)

\* _record_cache_insert.
RecordInsert(k, value) ==
    LET q    == Assign(contents, k, value)
        used == Counted(value)
        n    == Evictions(q, k, used)
    IN  IF MaxBytes = NoCap \/ Size(value) = 0
        THEN contents' = q /\ UNCHANGED bytesUsed
        ELSE /\ contents' = SubSeq(q, n + 1, Len(q))
             /\ bytesUsed' = used - BytesIn(SubSeq(q, 1, n))

-----------------------------------------------------------------------------
\* The key is in the cache.
Find(t) ==
    /\ progress[t] = "new" /\ Has(contents, KeyFor[t])
    /\ progress' = [progress EXCEPT ![t] = "returned"]
    /\ got' = [got EXCEPT ![t] = ValueOf(contents, KeyFor[t])]
    /\ UNCHANGED <<contents, bytesUsed, reply, contentVars>>

\* The content is recorded and read back from the cache; an error is raised.
Record(t, ret) ==
    IF ret = NoContent
    THEN /\ progress' = [progress EXCEPT ![t] = "raised"]
         /\ UNCHANGED <<contents, bytesUsed, got>>
    ELSE /\ RecordInsert(KeyFor[t], ret)
         /\ progress' = [progress EXCEPT ![t] = "returned"]
         /\ got' = [got EXCEPT ![t] = IF Has(contents', KeyFor[t])
                                      THEN ValueOf(contents', KeyFor[t]) ELSE [error |-> "KeyError"]]

\* It is not, and the collection is local.
FetchLocal(t) ==
    /\ progress[t] = "new" /\ ~Has(contents, KeyFor[t])
    /\ ~site.relayed
    /\ \E ret \in HostAnswers(KeyFor[t][1], KeyFor[t][2]) :
        /\ HostServes(KeyFor[t][1], KeyFor[t][2], ret)
        /\ Record(t, ret)
    /\ UNCHANGED reply

\* It is not, and the relay has the content in its cache or asks for it.
Fetch(t) ==
    /\ progress[t] = "new" /\ ~Has(contents, KeyFor[t])
    /\ site.relayed
    /\ \/ \E ret \in Cached(relayed, RelayKey(KeyFor[t][1], KeyFor[t][2])) :
            /\ reply' = [reply EXCEPT ![t] = ret]
            /\ progress' = [progress EXCEPT ![t] = "answered"]
       \/ /\ progress' = [progress EXCEPT ![t] = "fetching"]
          /\ UNCHANGED reply
    /\ UNCHANGED <<contents, bytesUsed, got, contentVars>>

\* The server of the collection answers the relay.
Serve(t) ==
    /\ progress[t] = "fetching"
    /\ \E ret \in HostAnswers(NoView, KeyFor[t][2]) :
        /\ HostServes(NoView, KeyFor[t][2], ret)
        /\ reply' = [reply EXCEPT ![t] = RelayReply(ret)]
    /\ progress' = [progress EXCEPT ![t] = "answered"]
    /\ UNCHANGED <<contents, bytesUsed, got>>

\* The relay's call fails: it answers with an error.
Unreachable(t) ==
    /\ progress[t] = "fetching"
    /\ reply' = [reply EXCEPT ![t] = NoContent]
    /\ progress' = [progress EXCEPT ![t] = "answered"]
    /\ UNCHANGED <<contents, bytesUsed, got, contentVars>>

\* The relay keeps the answer and get_doc_content goes on.
Arrive(t) ==
    /\ progress[t] = "answered"
    /\ Record(t, reply[t])
    /\ relayed' = Keeping(relayed, RelayKey(KeyFor[t][1], KeyFor[t][2]), reply[t])
    /\ UNCHANGED <<reply, site, kept>>

Finished ==
    /\ \A t \in Tasks : progress[t] \in {"returned", "raised"}
    /\ UNCHANGED docVars

Others ==
    /\ \E view \in Views \union {NoView}, doc \in DocIds : Ask(view, doc)
    /\ UNCHANGED <<contents, bytesUsed, progress, reply, got>>

DocNext ==
    \/ \E t \in Tasks :
            Find(t) \/ FetchLocal(t) \/ Fetch(t) \/ Serve(t) \/ Unreachable(t) \/ Arrive(t)
    \/ Others
    \/ Finished

DocSpec == DocInit /\ [][DocNext]_docVars

-----------------------------------------------------------------------------
\* Every call that is not told of an error returns its own document, whoever
\* asked for what before it: no insertion evicts an entry before it is read
\* back, and no cache on the way answers for another view.  From a local
\* collection it is the view the stage asked for; a relay does not pass the
\* view on, and returns the default view of the server it asks.
EachGetsItsContent ==
    \A t \in Tasks : progress[t] = "returned" =>
        /\ got[t] \in [view : Views, doc : DocIds, parts : Nat]
        /\ got[t].doc = KeyFor[t][2]
        /\ got[t].view = IF site.relayed THEN site.default ELSE KeyFor[t][1]

\* The stored contents are within the cap, but for a single oversize one, and
\* stay so however calls for one key overlap: the counter the loop goes by never
\* falls below what is stored, and nothing is stored twice.
CapHolds ==
    /\ \A i, j \in DOMAIN contents : contents[i].key = contents[j].key => i = j
    /\ MaxBytes # NoCap =>
        /\ BytesIn(contents) <= bytesUsed
        /\ \/ BytesIn(contents) <= MaxBytes
           \/ Cardinality({i \in DOMAIN contents : Size(contents[i].value) > 0}) <= 1

=============================================================================
