------------------------------ MODULE Pipeline ------------------------------
(***************************************************************************)
(* pipeline/pipeline.py: the verification of a pipeline and the execution  *)
(* of SearchPipeline.run as the tasks of an event loop.                    *)
(*                                                                         *)
(* run calls itself for every node of the tree and awaits it; the branches *)
(* of a fan-out are gathered, and run at the same time.  frames has one    *)
(* entry for every call of run that was made: its arguments and, when it   *)
(* has ended, its result.  An entry is named by its place: the root is     *)
(* <<>>, and a call that the one at p makes is at p with a slot after it:  *)
(* the number of the stage or of the branch, 0 for the expander, -1 for    *)
(* the merger.  When a branch raises, gather raises at once what it        *)
(* raised, and the other branches run on.                                  *)
(*                                                                         *)
(* One run shares nothing between its frames except the contents fetched   *)
(* (DocContentCache): scratch is falsy until a call fills it, so that      *)
(* "scratch or {}" gives every frame a new one.                            *)
(***************************************************************************)
EXTENDS Stage

CONSTANTS
    Requests,   \* [tree, query, collection, ...]: what /pipeline is given, parsed
    Queries,    \* what users ask, and what expanders make of it
    MaxDepth    \* how deep the trees are

VARIABLES
    request,
    progress,   \* "posted", "rejected", "verified", "answered" or "raised"
    frames,
    answer,     \* the dict run returns
    replies     \* what a client gets over REST and over gRPC

pipeVars == <<request, progress, frames, answer, replies>>

Children(node) ==
    CASE node.kind = "call" -> {}
      [] node.kind = "sequence" -> {node.stages[i] : i \in DOMAIN node.stages}
      [] node.kind = "parallel" ->
            {node.merger} \union {node.expander[i] : i \in DOMAIN node.expander}
                \union {node.sequences[i] : i \in DOMAIN node.sequences}

Nodes(tree) ==
    LET at[depth \in 0..MaxDepth] ==
            IF depth = 0 THEN {tree} ELSE UNION {Children(n) : n \in at[depth - 1]}
    IN  {tree} \union UNION {at[depth] : depth \in 1..MaxDepth}

\* all_calls
AllCalls(tree) == {n \in Nodes(tree) : n.kind = "call"}

\* What the constructors of the nodes see to (PipelineSyntax).
StageRoles == {"search", "rerank"}

IsStage(node) == node.kind = "call" => node.role \in StageRoles

WellMade(node) ==
    CASE node.kind = "call" ->
            /\ DOMAIN node = {"kind", "name", "limit", "view", "role"}
            /\ node.limit \in Nat \union {NoLimit} /\ node.role \in DOMAIN _role_to_service
      [] node.kind = "sequence" ->
            /\ node.stages \in Seq(Children(node)) /\ node.stages # <<>>
            /\ \A i \in DOMAIN node.stages : IsStage(node.stages[i])
      [] node.kind = "parallel" ->
            /\ node.sequences \in Seq(Children(node)) /\ node.sequences # <<>>
            /\ \A i \in DOMAIN node.sequences : IsStage(node.sequences[i])
            /\ node.expander \in Seq(Children(node))
            /\ \A i \in DOMAIN node.expander :
                    node.expander[i].kind = "call" /\ node.expander[i].role = "expander"
            /\ node.merger.kind = "call" /\ node.merger.role = "merger"

\* A node reranks when the first calls that it makes are rerank stages, which read
\* the scores that it is handed.
Reranks(node, reranking) ==
    CASE node.kind = "call" -> node.role = "rerank"
      [] node.kind = "sequence" -> node.stages[1] \in reranking
      [] node.kind = "parallel" ->
            /\ node.expander = <<>>
            /\ \E i \in DOMAIN node.sequences : node.sequences[i] \in reranking

Reranking(tree) ==
    LET upTo[height \in 0..(MaxDepth + 1)] ==
            LET lower == IF height = 0 THEN {} ELSE upTo[height - 1]
            IN  IF height = 0 THEN {} ELSE {n \in Nodes(tree) : Reranks(n, lower)}
    IN  upTo[MaxDepth + 1]

\* The grammar has no rerank stage where there are no scores to rerank: not first
\* in a pipeline, and not first behind an expander, which hands on sub-queries.
InPlace(node, reranking) ==
    /\ node \in reranking <=> Reranks(node, reranking)
    /\ node.kind = "parallel" /\ node.expander # <<>> =>
            \A i \in DOMAIN node.sequences : node.sequences[i] \notin reranking

ASSUME TreeAssumption ==
    \A r \in Requests :
        /\ r.query \in Queries
        /\ IsStage(r.tree)
        /\ \A n \in Nodes(r.tree) :
                /\ n.kind \in {"call", "sequence", "parallel"}
                /\ WellMade(n)
                /\ Children(n) \subseteq Nodes(r.tree)

ASSUME PlaceAssumption ==
    \A r \in Requests :
        LET reranking == Reranking(r.tree)
        IN  r.tree \notin reranking /\ \A n \in Nodes(r.tree) : InPlace(n, reranking)

-----------------------------------------------------------------------------
\* What an engine returns: every document once, with a number, best first.
\* Documents are numbers that stand for their ids.
Rankings ==
    {s \in Seq([doc : Int, score : Int]) : \A i, j \in DOMAIN s : s[i].doc = s[j].doc => i = j}

BestFirst(s) == \A i, j \in DOMAIN s : i < j => s[i].score >= s[j].score

IsRanker(name) == \A q \in Queries : Hits[name][q] \in Rankings /\ BestFirst(Hits[name][q])

IsScorer(name) == \A q \in Queries, d \in Readable : Score[name][q][d] \in Int

Searches(name) ==
    CASE name \in Failing -> TRUE
      [] name \notin Failing /\ name \in DOMAIN Rerankers ->
            IsRanker(Rerankers[name].upstream) /\ IsScorer(Rerankers[name].scorer)
      [] name \notin Failing \union DOMAIN Rerankers /\ name \in DOMAIN Fusions ->
            /\ Fusions[name] \in Seq(STRING)
            /\ \A i \in DOMAIN Fusions[name] : IsRanker(Fusions[name][i])
      [] OTHER -> IsRanker(name)

ASSUME EngineAssumption ==
    /\ Readable \subseteq Int
    /\ \A name \in DOMAIN RelayOf : RelayOf[name].link \in {"rest", "grpc"}
    /\ \A s \in Services :
        /\ s[2] = "search" => Searches(Worker(s[1]))
        /\ s[2] = "score" => Worker(s[1]) \in Failing \/ IsScorer(Worker(s[1]))
        /\ s[2] = "decompose_query" /\ s[1] \notin Failing =>
                \A q \in Queries : SubQueries[s[1]][q] \in Seq(Queries)

-----------------------------------------------------------------------------
Pending == [pending |-> TRUE]

Frame(node, query, last) == [node |-> node, query |-> query, last |-> last, ret |-> Pending]

Root == <<>>
Child(p, slot) == Append(p, slot)
ExpanderOf(p) == Child(p, 0)
MergerOf(p) == Child(p, -1)

Started(p) == p \in DOMAIN frames
Ended(p) == Started(p) /\ frames[p].ret # Pending
Returned(p) == Ended(p) /\ ~Raised(frames[p].ret)

Running(p, kind) == frames[p].node.kind = kind /\ ~Ended(p)

Starts(calls) ==
    /\ frames' = calls ++ frames
    /\ UNCHANGED <<request, progress, answer, replies>>

Ends(p, ret) ==
    /\ frames' = [frames EXCEPT ![p].ret = ret]
    /\ UNCHANGED <<request, progress, answer, replies>>

PipeInit ==
    /\ request \in Requests
    /\ progress = "posted"
    /\ frames = <<>>
    /\ answer = <<>>
    /\ replies = <<>>

Reject(class) ==
    /\ progress = "posted" /\ class # ""
    /\ progress' = "rejected"
    /\ answer' = Raise(class)
    /\ UNCHANGED <<request, frames, replies>>

Accept(class) ==
    /\ progress = "posted" /\ class = ""
    /\ progress' = "verified"
    /\ frames' = [p \in {Root} |-> Frame(request.tree, request.query, <<>>)]
    /\ UNCHANGED <<request, answer, replies>>

VerifyPipeline ==
    \E class \in {Verify(AllCalls(request.tree), request.collection)} :
        Reject(class) \/ Accept(class)

CallReturns(p) ==
    /\ Running(p, "call")
    /\ Ends(p, RunCall(frames[p].node, frames[p].query, frames[p].last))

\* Seeded fault: every stage gets what was handed to the sequence.
NextStageAfresh(p) ==
    /\ Running(p, "sequence")
    /\ \E i \in DOMAIN frames[p].node.stages :
        /\ ~Started(Child(p, i))
        /\ i > 1 => Returned(Child(p, i - 1))
        /\ Starts([c \in {Child(p, i)} |->
                Frame(frames[p].node.stages[i], frames[p].query, frames[p].last)])

\* Stages run one after the other, each on what the one before returned.
NextStage(p) ==
    /\ Running(p, "sequence")
    /\ \E i \in DOMAIN frames[p].node.stages :
        /\ ~Started(Child(p, i))
        /\ i > 1 => Returned(Child(p, i - 1))
        /\ Starts([c \in {Child(p, i)} |->
                Frame(frames[p].node.stages[i], frames[p].query,
                      IF i = 1 THEN frames[p].last ELSE frames[Child(p, i - 1)].ret)])

SequenceReturns(p) ==
    /\ Running(p, "sequence")
    /\ LET last == Child(p, Len(frames[p].node.stages))
       IN  Returned(last) /\ Ends(p, frames[last].ret)

StartExpander(p) ==
    /\ Running(p, "parallel")
    /\ frames[p].node.expander # <<>> /\ ~Started(ExpanderOf(p))
    /\ Starts([c \in {ExpanderOf(p)} |->
            Frame(frames[p].node.expander[1], frames[p].query, frames[p].last)])

\* There is no expander to wait for, or it has returned.
Expanded(p) == frames[p].node.expander = <<>> \/ Returned(ExpanderOf(p))

Handed(p) == IF frames[p].node.expander = <<>> THEN frames[p].last ELSE frames[ExpanderOf(p)].ret

QueriesOf(p) ==
    IF frames[p].node.expander = <<>> THEN <<frames[p].query>> ELSE frames[ExpanderOf(p)].ret.queries

\* One branch per sequence and sub-query, the queries varying fastest.
Branches(p) == 1..(Len(frames[p].node.sequences) * Len(QueriesOf(p)))

SequenceAt(p, n) == frames[p].node.sequences[((n - 1) \div Len(QueriesOf(p))) + 1]


QueryAt(p, n) == QueriesOf(p)[((n - 1) % Len(QueriesOf(p))) + 1]

FanOut(p) ==
    /\ Running(p, "parallel") /\ Expanded(p)
    /\ Branches(p) # {} /\ ~Started(Child(p, 1))
    /\ Starts([c \in {Child(p, n) : n \in Branches(p)} |->
            Frame(SequenceAt(p, c[Len(c)]), QueryAt(p, c[Len(c)]), Handed(p))])

\* The merger gets the rankings of the branches, unless "scores" were handed on.
Merging(p, rankings) ==
    Starts([c \in {MergerOf(p)} |->
        Frame(frames[p].node.merger, frames[p].query,
              Handed(p) ++ [scores |-> ListOf(rankings)])])

\* Seeded fault: the merger is started by the branch that returns last.
StartMergerAfterBranch(p) ==
    /\ Running(p, "parallel") /\ Expanded(p) /\ ~Started(MergerOf(p))
    /\ Branches(p) # {} /\ \A n \in Branches(p) : Returned(Child(p, n))
    /\ Merging(p, [n \in Branches(p) |-> frames[Child(p, n)].ret.scores.of])

\* Seeded fault: gather(..., return_exceptions=True), and the merger gets an empty
\* ranking for a branch that raised.
StartMergerOfTheRest(p) ==
    /\ Running(p, "parallel") /\ Expanded(p) /\ ~Started(MergerOf(p))
    /\ \A n \in Branches(p) : Ended(Child(p, n))
    /\ Merging(p, [n \in Branches(p) |->
            IF Returned(Child(p, n)) THEN frames[Child(p, n)].ret.scores.of ELSE <<>>])

StartMerger(p) ==
    /\ Running(p, "parallel") /\ Expanded(p) /\ ~Started(MergerOf(p))
    /\ \A n \in Branches(p) : Returned(Child(p, n))
    /\ Merging(p, [n \in Branches(p) |-> frames[Child(p, n)].ret.scores.of])

MergerReturns(p) ==
    /\ Running(p, "parallel") /\ Returned(MergerOf(p))
    /\ Ends(p, (IF frames[p].node.expander = <<>> THEN <<>>
                ELSE [expanded_queries |-> QueriesOf(p)]) ++ frames[MergerOf(p)].ret)

\* Whatever a call that was awaited has raised.
Raises(p, c) ==
    /\ ~Ended(p)
    /\ c # Root /\ p = SubSeq(c, 1, Len(c) - 1)
    /\ Ended(c) /\ Raised(frames[c].ret)
    /\ Ends(p, frames[c].ret)

Finish ==
    /\ progress = "verified" /\ Ended(Root)
    /\ progress' = IF Returned(Root) THEN "answered" ELSE "raised"
    /\ answer' = frames[Root].ret
    /\ UNCHANGED <<request, frames, replies>>

\* The handler of either transport replies.
Respond ==
    /\ progress \in {"rejected", "raised", "answered"} /\ replies = <<>>
    /\ replies' = [rest |-> RestPipeline(request.query, answer),
                   grpc |-> GrpcPipeline(request.query, answer)]
    /\ UNCHANGED <<request, progress, frames, answer>>

Resumes(p) ==
    \/ NextStage(p) \/ SequenceReturns(p)
    \/ StartExpander(p) \/ FanOut(p) \/ StartMerger(p) \/ MergerReturns(p)
    \/ \E c \in DOMAIN frames : Raises(p, c)

\* What the event loop does by itself.
LoopStep == VerifyPipeline \/ (\E p \in DOMAIN frames : Resumes(p)) \/ Finish \/ Respond

PipeNext == LoopStep \/ (\E p \in DOMAIN frames : CallReturns(p))

\* No call is left without an answer for ever: a service answers, or raises.
ServicesAnswer ==
    []<>(\A p \in DOMAIN frames : frames[p].node.kind = "call" => Ended(p))

\* The loop resumes a task that can go on.
PipeSpec == PipeInit /\ [][PipeNext]_pipeVars /\ WF_pipeVars(LoopStep) /\ ServicesAnswer

-----------------------------------------------------------------------------
Items(s) == {s[i] : i \in DOMAIN s}

ReturnedCalls == {p \in DOMAIN frames : frames[p].node.kind = "call" /\ Returned(p)}

\* A verified pipeline fails as its services and its documents do, never because
\* run looks up what is not there: no call is for a service that is not registered
\* under the type of its role, and no rerank stage, wherever aliases, expanders and
\* fan-outs have put it, is handed a dict without scores.
RunFindsWhatItNeeds == \A p \in DOMAIN frames : frames[p].ret # Raise("KeyError")

\* No answer is put together from the part of the run that went well: when a
\* pipeline is answered, every call of run that was made has returned, the
\* branches of every fan-out included, and none of them has raised.
AnswersAreWhole ==
    progress = "answered" => \A p \in DOMAIN frames : Returned(p)

HoldsTheBest(kept, limit, all) ==
    /\ Len(kept) = (IF limit < Len(all) THEN limit ELSE Len(all))
    /\ Items(kept) \subseteq Items(all)
    /\ BestFirst(kept)
    /\ \A e \in Items(all) \ Items(kept), i \in DOMAIN kept : e.score <= kept[i].score

\* A service that asks other engines for as many as it is asked for itself.
Composed(name) == Worker(name) \in DOMAIN Rerankers \union DOMAIN Fusions

Unlimited(p) ==
    RunCall([frames[p].node EXCEPT !.limit = NoLimit], frames[p].query, frames[p].last)

\* "Keep top N": a stage with %N returns N of the documents that it would return
\* without that limit, at their scores and best first, and every document it
\* leaves out scores no better than those it keeps.  (A stage without a limit asks
\* for 1000; the limit of a Fusion or a Reranker also bounds what it has to choose
\* from.)
LimitKeepsTheBest ==
    \A p \in ReturnedCalls :
        LET call == frames[p].node
        IN  (call.role # "expander" /\ call.limit \in 0..1000
                /\ ~(call.role = "search" /\ Composed(call.name))) =>
            /\ ~Raised(Unlimited(p))
            /\ HoldsTheBest(frames[p].ret.scores.of, call.limit, Unlimited(p).scores.of)

\* A failure that a relay over gRPC takes for an empty answer.
LostFailure(name) ==
    /\ name \in DOMAIN RelayOf /\ RelayOf[name].link = "grpc"
    /\ RelayOf[name].service \in Failing

\* Reranking neither invents nor loses a document: a stage that reranks returns
\* the documents it was handed, or as many of them as its limit allows.
RerankKeepsTheCandidates ==
    \A p \in ReturnedCalls :
        LET call == frames[p].node
            before == Docs(frames[p].last.scores.of)
            after == Docs(frames[p].ret.scores.of)
        IN  (call.role = "rerank" /\ ~LostFailure(call.name)) =>
            /\ after \subseteq before
            /\ after = before \/ Cardinality(after) = call.limit

\* A Reranker that searches by itself returns the best of what its upstream
\* engine found, each document with the score of its own text.
RerankersReadTheirTexts ==
    \A p \in ReturnedCalls :
        LET call == frames[p].node
            engine == Rerankers[call.name]
            asked == Field(frames[p].last, "query", frames[p].query)
            limit == IF call.limit = NoLimit THEN 1000 ELSE call.limit
            found == Docs(Ranked(engine.upstream, asked, UpstreamLimit(limit)).of)
            own(doc) == Score[engine.scorer][asked][doc]
            kept == frames[p].ret.scores.of
        IN  (call.role = "search" /\ call.name \in DOMAIN Rerankers \ DOMAIN RelayOf) =>
            /\ Docs(kept) \subseteq found
            /\ \A e \in Items(kept) : e.score = own(e.doc)
            /\ \A d \in found \ Docs(kept) :
                    Len(kept) = limit /\ \A e \in Items(kept) : own(d) <= e.score

\* A request ends alike over REST and over gRPC: with the same query, documents,
\* scores and sub-queries, or with neither.  (gRPC refuses an empty query.)
TransportsAgree ==
    (replies # <<>> /\ request.query # "") =>
        /\ Replied(replies.rest) <=> Replied(replies.grpc)
        /\ Replied(replies.rest) =>
            /\ Field(replies.rest, "query", request.query) = replies.grpc.query
            /\ Items(replies.rest.scores.of) = Items(replies.grpc.scores.of)
            /\ Field(replies.rest, "expanded_queries", <<>>) =
                    Field(replies.grpc, "expanded_queries", <<>>)

\* Whatever is posted gets a reply: no stage waits for a result that nobody will
\* produce, not even a merger whose fan-out has no branch, because the expander
\* found no sub-query.
EveryPipelineEnds == <>(replies # <<>>)

FailingService(name) == {name, Worker(name)} \intersect Failing # {}

\* When a service that was asked fails, here or behind a relay, the request fails.
FailuresSurface ==
    progress = "answered" =>
        \A p \in DOMAIN frames :
            frames[p].node.kind = "call" => ~FailingService(frames[p].node.name)

\* A reranker's score for a document is its score for the text of that document.
ScoresBelongToTheirDocuments ==
    \A p \in ReturnedCalls :
        LET asked == Field(frames[p].last, "query", frames[p].query)
        IN  frames[p].node.role = "rerank" =>
            \A e \in Items(frames[p].ret.scores.of) :
                e.score = Score[Worker(frames[p].node.name)][asked][e.doc]
=============================================================================
