------------------------------ MODULE Endpoints -----------------------------
(***************************************************************************)
(* What a request becomes on its way to a server and its answer on the way *)
(* back: the REST handlers (serve.py), the gRPC servicer (servicer.py),    *)
(* the two transports of the client, and the Relay engine, which is such a *)
(* client inside a server.                                                 *)
(*                                                                         *)
(* A dict is a function from the names of its fields.  A raised exception  *)
(* is the dict ["raised" |-> its class]; a processor whose engine raises   *)
(* in a batch answers a dict with an "error" field and raises nothing.     *)
(* What a client of a transport gets is such a dict, or a refusal (4xx;    *)
(* NOT_FOUND and INVALID_ARGUMENT) or a failure (5xx; INTERNAL).           *)
(***************************************************************************)
EXTENDS Ranking

\* {**b, **a}.
a ++ b == [f \in DOMAIN a \union DOMAIN b |-> IF f \in DOMAIN a THEN a[f] ELSE b[f]]

Raise(class) == [raised |-> class]
Raised(ret) == "raised" \in DOMAIN ret

Refused == [status |-> "refused"]
Failure == [status |-> "failed"]
Replied(reply) == "status" \notin DOMAIN reply

\* scores is one ranking (a dict) or, for a merger, the list of the branches'.
Dict(scores) == [is |-> "dict", of |-> scores]
ListOf(rankings) == [is |-> "list", of |-> rankings]

Field(ret, name, default) == IF name \in DOMAIN ret THEN ret[name] ELSE default

\* A dict of scores comes back in another order than it was sent in: JSON is
\* written with its keys sorted, and a protobuf map keeps no order (here it comes
\* back in that of the ids, too).
AsMap(scores) == Dict(Arranged(scores.of, ById(scores.of)))

-----------------------------------------------------------------------------
RestRaised(ret) == IF ret.raised = "ServiceNotFound" THEN Refused ELSE Failure

\* What the service answers is handed on as it is, an "error" field included.
RestSearch(ret) ==
    CASE Raised(ret) -> RestRaised(ret)
      [] ~Raised(ret) /\ "scores" \in DOMAIN ret -> [ret EXCEPT !.scores = AsMap(@)]
      [] OTHER -> ret

GrpcRaised(ret) ==
    IF ret.raised \in {"ServiceNotFound", "ValueError"} THEN Refused ELSE Failure

\* The response message has no place for an error: the fields it has are filled
\* in, the query with that of the request.
GrpcSearch(payload, ret) ==
    IF Raised(ret) THEN GrpcRaised(ret)
    ELSE [query |-> Field(ret, "query", payload.query),
          scores |-> AsMap(Field(ret, "scores", Dict(<<>>)))]

\* The scores of passages are repeated fields and keep their order.
GrpcScore(payload, ret) ==
    IF Raised(ret) THEN GrpcRaised(ret)
    ELSE [query |-> Field(ret, "query", payload.query),
          scores |-> Field(ret, "scores", <<>>)]

\* /score is for services that read texts; the Score RPC decodes texts only.
RestScore(kind, ret) ==
    CASE kind = "bytes" -> Refused
      [] kind # "bytes" /\ Raised(ret) -> RestRaised(ret)
      [] OTHER -> ret

SearchOver(link, payload, ret) ==
    IF link = "rest" THEN RestSearch(ret) ELSE GrpcSearch(payload, ret)

ScoreOver(link, payload, ret) ==
    IF link = "rest" THEN RestScore("text", ret) ELSE GrpcScore(payload, ret)

-----------------------------------------------------------------------------
\* POST /pipeline asks for the fields, the Pipeline RPC for more than nothing in
\* them.
RestPipeline(query, ret) ==
    CASE Raised(ret) /\ ret.raised = "ValueError" -> Refused
      [] Raised(ret) /\ ret.raised # "ValueError" -> Failure
      [] OTHER -> [ret EXCEPT !.scores = AsMap(@)]

\* Seeded fault: the sub-queries are left out of the response.
GrpcPipelineBare(query, ret) ==
    CASE query = "" -> Refused
      [] query # "" /\ Raised(ret) ->
            IF ret.raised \in {"ValueError", "RuntimeError"} THEN Refused ELSE Failure
      [] OTHER -> [query |-> Field(ret, "query", query), scores |-> AsMap(ret.scores)]

GrpcPipeline(query, ret) ==
    CASE query = "" -> Refused
      [] query # "" /\ Raised(ret) ->
            IF ret.raised \in {"ValueError", "RuntimeError"} THEN Refused ELSE Failure
      [] OTHER ->
            [query |-> Field(ret, "query", query),
             scores |-> AsMap(Field(ret, "scores", Dict(<<>>)))] ++
            (IF Field(ret, "expanded_queries", <<>>) = <<>> THEN <<>>
             ELSE [expanded_queries |-> ret.expanded_queries])

-----------------------------------------------------------------------------
\* AsyncQueryProcessor and AsyncPairwiseScoreProcessor take the fields their
\* engine is called with from the payload; the others stay behind.
Taken(payload, fields) == [f \in DOMAIN payload \intersect fields |-> payload[f]]

SearchPayload(payload) == Taken(payload, {"query", "limit"}) ++ [limit |-> 1000]
ScorePayload(payload) == Taken(payload, {"query", "passages"})


\* Relay._submit_payload: the client raises what was refused or failed; an
\* answer must name the query it was asked.
Relay(payload, reply, nothing) ==
    CASE ~Replied(reply) -> Raise("RoutirClientError")
      [] Replied(reply) /\ "query" \in DOMAIN reply /\ reply.query = payload.query ->
            [query |-> payload.query, scores |-> Field(reply, "scores", nothing)]
      [] OTHER -> Raise("RuntimeError")
=============================================================================
