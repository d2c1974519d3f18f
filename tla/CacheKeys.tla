----------------------------- MODULE CacheKeys ------------------------------
(***************************************************************************)
(* How a request dict becomes a cache key, for each way a processor is     *)
(* built.  A request is a record; a key it does not have is "".            *)
(***************************************************************************)
EXTENDS Naturals, Sequences

\* The default key of Processor: the service was popped from the dict by the
\* handler, so the key is (query, limit, subset).
DefaultKey(item) == <<item.query, item.limit, item.subset>>

\* The fields a service's key is built from.  Every service's closure reads the
\* loop variable of load_config, which holds the last service once it is done.
KeyFields(declared, i) == declared[Len(declared)]

\* tuple(x.get(k, "") for k in cache_key_fields), for service i.
ConfiguredKey(declared, i, item) == [f \in KeyFields(declared, i) |-> item[f]]

\* What a search result depends on: every field of the request.
SearchAnswer(item) == <<item.query, item.limit, item.subset>>

\* What the scores of Relay.score_batch depend on.
ScoreAnswer(item) == <<item.query, item.passages>>

=============================================================================
