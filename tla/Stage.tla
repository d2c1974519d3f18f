-------------------------------- MODULE Stage -------------------------------
(***************************************************************************)
(* One call of a pipeline: what verify asks of it, the payload that        *)
(* SearchPipeline.run makes for it (pipeline/pipeline.py), what the        *)
(* service behind its name answers, here or on another server, and what    *)
(* run makes of the answer.  A call is a SystemCall (PipelineSyntax); a    *)
(* dict that travels from stage to stage is a function from the names of   *)
(* its fields.                                                             *)
(***************************************************************************)
EXTENDS Endpoints, Reranker

CONSTANTS
    Services,       \* the registered <<name, service type>> pairs
    ViewKinds,      \* ViewKinds[collection][view]: the kinds of the views it declares
                    \* (at least one: older servers, which name none, are left out)
    DefaultViews,   \* DefaultViews[collection]
    Readable,       \* the documents whose content can be fetched
    Hits,           \* Hits[name][query]: an engine's ranking, best first
    Score,          \* Score[name][query][doc]: a reranker's score of the text of doc
    SubQueries,     \* SubQueries[name][query]
    Rerankers,      \* [upstream, scorer] of the search services that are Rerankers
    Fusions,        \* the upstream engines of the search services that are Fusions
    RelayOf,        \* [service, link] of the services that are relays
    AutoRegistered, \* search services and expanders that @auto_register registered
    BytesScorers,   \* score services whose engine reads bytes
    Failing         \* services whose engine raises: they answer {"error": ...}

NoLimit == -1
OwnView == ""

_role_to_service ==
    [search |-> "search", rerank |-> "score",
     expander |-> "decompose_query", merger |-> "fuse"]

HasService(call) == <<call.name, _role_to_service[call.role]>> \in Services

Accepts(name) == IF name \in BytesScorers THEN "bytes" ELSE "text"

ResolvedView(call, collection) ==
    IF call.view = OwnView THEN DefaultViews[collection] ELSE call.view

ViewFits(call, collection) ==
    LET view == ResolvedView(call, collection)
    IN  view \in DOMAIN ViewKinds[collection] /\ ViewKinds[collection][view] = Accepts(call.name)

\* The class verify raises for the calls of a pipeline, or "".
Verify(calls, collection) ==
    LET reranks == {c \in calls : c.role = "rerank"}
    IN  CASE reranks # {} /\ collection = "" -> "ValueError"
          [] reranks # {} /\ collection # "" /\ collection \notin DOMAIN ViewKinds -> "RuntimeError"
          [] collection \in DOMAIN ViewKinds /\ \E c \in reranks : ~ViewFits(c, collection) ->
                "ValueError"
          [] OTHER -> IF \A c \in calls : HasService(c) THEN "" ELSE "RuntimeError"

-----------------------------------------------------------------------------
Ranked(name, query, limit) == Dict(Truncated(Hits[name][query], limit))

OrRaise(found) == IF found = <<>> THEN Raise("RuntimeError") ELSE [scores |-> Dict(found[1])]

\* Reranker.search_batch over its upstream engine.
RerankedSearch(engine, query, limit) ==
    OrRaise(search_batch(Ranked(engine.upstream, query, UpstreamLimit(limit)).of,
                         limit, Readable, Score[engine.scorer][query]))

\* Fusion.search_batch asks every upstream engine for as many as it is asked for.
FusedSearch(upstream, query, limit) ==
    Dict(dict_topk(rrf([i \in DOMAIN upstream |-> Ranked(upstream[i], query, limit).of]), limit))

EngineSearch(name, query, limit) ==
    CASE name \in Failing -> Raise("RuntimeError")
      [] name \notin Failing /\ name \in DOMAIN Rerankers ->
            RerankedSearch(Rerankers[name], query, limit)
      [] name \notin Failing \union DOMAIN Rerankers /\ name \in DOMAIN Fusions ->
            [scores |-> FusedSearch(Fusions[name], query, limit)]
      [] OTHER -> [scores |-> Ranked(name, query, limit)]

\* A batch whose engine raised answers with an error; an auto-registered service
\* raises, or answers with the result of its engine only.
Answered(name, query, ret) ==
    CASE name \in AutoRegistered -> ret
      [] name \notin AutoRegistered /\ Raised(ret) -> [error |-> ret.raised]
      [] OTHER -> [query |-> query] ++ ret

SearchAnswer(name, payload) ==
    Answered(name, payload.query, EngineSearch(name, payload.query, payload.limit))

ScoreAnswer(name, payload) ==
    IF name \in Failing THEN [error |-> "RuntimeError"]
    ELSE [query |-> payload.query,
          scores |-> [i \in DOMAIN payload.passages |->
                         Score[name][payload.query][payload.passages[i]]]]

\* The service that does the work: a relay has another server do it.
Worker(name) == IF name \in DOMAIN RelayOf THEN RelayOf[name].service ELSE name

SearchThrough(name, asked, ret) ==
    IF name \in DOMAIN RelayOf
    THEN Relay(asked, SearchOver(RelayOf[name].link, asked, ret), Dict(<<>>))
    ELSE ret

Search(name, asked) == SearchThrough(name, asked, SearchAnswer(Worker(name), asked))

ScoreThrough(name, asked, ret) ==
    IF name \in DOMAIN RelayOf
    THEN Relay(asked, ScoreOver(RelayOf[name].link, asked, ret), <<>>)
    ELSE ret

Scores(name, asked) == ScoreThrough(name, asked, ScoreAnswer(Worker(name), asked))

Fused(merger, rankings) ==
    IF merger.name = "ScoreFusion" THEN score_fusion(rankings) ELSE rrf(rankings)

\* fuse_batch iterates over the rankings in "scores"; over the ids of a dict it
\* fails at the first one.
Merge(call, payload) ==
    CASE payload.scores.is = "list" -> [scores |-> Dict(Fused(call, payload.scores.of))]
      [] payload.scores.is = "dict" /\ payload.scores.of = <<>> -> [scores |-> Dict(<<>>)]
      [] OTHER -> Raise("AttributeError")

\* The answer of a configured expander names the query (BatchDecomposeQueryProcessor).
Expand(call, payload) ==
    Answered(call.name, payload.query,
             IF call.name \in Failing THEN Raise("RuntimeError")
             ELSE [queries |-> SubQueries[call.name][payload.query]])

Candidates(last) == [i \in DOMAIN last.scores.of |-> last.scores.of[i].doc]

\* Seeded fault: only the first two passages are gathered.
PassagesOfTop(candidates) ==
    Truncated(Arranged(candidates,
                  {p \in (DOMAIN candidates) \X (DOMAIN candidates) :
                      candidates[p[1]] < candidates[p[2]]}), 2)

\* sorted(docid_to_rerank)
PassagesOf(candidates) ==
    Arranged(candidates,
        {p \in (DOMAIN candidates) \X (DOMAIN candidates) : candidates[p[1]] < candidates[p[2]]})

\* The scores come in the order of the passages and are zipped with the ids in
\* the order of the previous stage.
Rescored(candidates, ret) ==
    IF Raised(ret) \/ "scores" \notin DOMAIN ret THEN ret
    ELSE [ret EXCEPT !.scores =
             Dict([i \in DOMAIN @ |-> [doc |-> candidates[i], score |-> @[i]]])]

\* A document that cannot be fetched fails the stage.
Rerank(call, payload, candidates) ==
    IF \A i \in DOMAIN candidates : candidates[i] \in Readable
    THEN Rescored(candidates,
             Scores(call.name, ScorePayload([passages |-> PassagesOf(candidates)] ++ payload)))
    ELSE Raise("RuntimeError")

Payload(call, query, last) ==
    (IF call.limit = NoLimit THEN <<>> ELSE [limit |-> call.limit]) ++ (last ++ [query |-> query])

\* A rerank stage reads the candidates from the dict of the stage before.
Served(call, payload, last) ==
    CASE call.role = "search" -> Search(call.name, SearchPayload(payload))
      [] call.role = "merger" -> Merge(call, payload)
      [] call.role = "expander" -> Expand(call, payload)
      [] call.role = "rerank" ->
            IF "scores" \in DOMAIN last THEN Rerank(call, payload, Candidates(last))
                                        ELSE Raise("KeyError")

Promised(role) == IF role = "expander" THEN "queries" ELSE "scores"

\* An answer without the field its role promises is refused.
Checked(call, ret) ==
    IF Raised(ret) \/ Promised(call.role) \in DOMAIN ret THEN ret ELSE Raise("RuntimeError")

Submit(call, payload, last) ==
    IF HasService(call) THEN Checked(call, Served(call, payload, last)) ELSE Raise("KeyError")

\* The limit of a stage is applied once more to what the service returned.
ApplyLimit(call, ret) ==
    CASE call.limit = NoLimit -> ret
      [] call.limit # NoLimit /\ "scores" \in DOMAIN ret ->
            [ret EXCEPT !.scores = Dict(dict_topk(@.of, call.limit))]
      [] call.limit # NoLimit /\ "scores" \notin DOMAIN ret /\ "queries" \in DOMAIN ret ->
            [ret EXCEPT !.queries = Truncated(@, call.limit)]
      [] OTHER -> ret

RunCall(call, query, last) == ApplyLimit(call, Submit(call, Payload(call, query, last), last))
=============================================================================
