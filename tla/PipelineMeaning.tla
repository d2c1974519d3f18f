--------------------------- MODULE PipelineMeaning --------------------------
(***************************************************************************)
(* What a pipeline means: its aliases resolved (config/load.py), and the   *)
(* result of SearchPipeline.run computed from the tree, one node after the *)
(* other.  Pipeline runs the branches of a fan-out in every order; here    *)
(* its answers are compared with what the tree means.                      *)
(***************************************************************************)
EXTENDS Pipeline, PipelineSyntax, SequencesExt

CONSTANT AliasBodies    \* pipeline_aliases: the stages each alias stands for

\* register_all: an alias is resolved after the aliases its body uses (a cycle of
\* them is refused when the server starts).
AliasesIn(body) == {c.name : c \in AllCalls(body)} \intersect DOMAIN AliasBodies

RECURSIVE Resolved(_)
Resolved(body) ==
    ExpandAliases(body,
        [name \in AliasesIn(body) |-> Resolved(SeqRule(AliasBodies[name]))])

Aliases == [name \in DOMAIN AliasBodies |-> Resolved(SeqRule(AliasBodies[name]))]

Tree(stages) == ExpandAliases(SeqRule(stages), Aliases)

-----------------------------------------------------------------------------
RECURSIVE RunNode(_, _, _), RunStages(_, _, _)

\* last is what the stages before came to.
RunStages(query, last, stages) ==
    IF stages = <<>> \/ Raised(last)
    THEN last
    ELSE RunStages(query, RunNode(query, last, Head(stages)), Tail(stages))

BranchRuns(queries, last, sequences) ==
    [n \in 1..(Len(sequences) * Len(queries)) |->
        RunNode(queries[((n - 1) % Len(queries)) + 1], last,
                sequences[((n - 1) \div Len(queries)) + 1])]

RankingsOf(runs) == ListOf([n \in DOMAIN runs |-> runs[n].scores.of])

MergeBranches(query, last, merger, runs) ==
    IF \E n \in DOMAIN runs : Raised(runs[n])
    THEN runs[CHOOSE n \in DOMAIN runs : Raised(runs[n])]
    ELSE RunCall(merger, query, last ++ [scores |-> RankingsOf(runs)])

WithQueries(expanded, last, ret) ==
    IF expanded /\ ~Raised(ret) THEN [expanded_queries |-> last.queries] ++ ret ELSE ret

SubQueriesOf(query, asked, node) == IF node.expander = <<>> THEN <<query>> ELSE asked.queries

\* asked is what the expander, if there is one, came to.
RunBranches(query, asked, node) ==
    IF Raised(asked) THEN asked
    ELSE WithQueries(node.expander # <<>>, asked,
             MergeBranches(query, asked, node.merger,
                 BranchRuns(SubQueriesOf(query, asked, node), asked, node.sequences)))

RunParallel(query, last, node) ==
    RunBranches(query,
                IF node.expander = <<>> THEN last ELSE RunCall(node.expander[1], query, last),
                node)

RunNode(query, last, node) ==
    CASE node.kind = "call" -> RunCall(node, query, last)
      [] node.kind = "sequence" -> RunStages(query, last, node.stages)
      [] node.kind = "parallel" -> RunParallel(query, last, node)

\* A run ends with what node means; of several branches that raise, the first one
\* to do so is heard.
EndsAs(node) ==
    /\ progress = "answered" => answer = RunNode(request.query, <<>>, node)
    /\ progress = "raised" => Raised(RunNode(request.query, <<>>, node))

-----------------------------------------------------------------------------
Unnamed(last) == [field \in DOMAIN last \ {"query"} |-> last[field]]

\* What the branches search for when the dict handed on names a query: that one,
\* each of them, and not their sub-queries.
Searched(subQueries, asked) ==
    IF "query" \in DOMAIN asked THEN [i \in DOMAIN subQueries |-> asked.query] ELSE subQueries


IsAlias(stage) == stage.kind = "call" /\ stage.name \in DOMAIN AliasBodies

WithOuterLimit(stage, limit) ==
    IF stage.kind = "call" THEN [stage EXCEPT !.limit = limit]
                           ELSE [stage EXCEPT !.merger.limit = limit]

\* The stages an alias call stands for, its limit on the last one, and its view on
\* those that name none.
BodyOf(call) ==
    LET body == AliasBodies[call.name]
        limited == IF call.limit = NoLimit THEN body
                   ELSE Front(body) \o <<WithOuterLimit(Last(body), call.limit)>>
    IN  IF call.view = OwnView THEN limited
        ELSE [i \in DOMAIN limited |-> PropagateView(limited[i], call.view)]

RECURSIVE WrittenOut(_)
WrittenOut(stages) ==
    FlattenSeq([i \in DOMAIN stages |->
        IF IsAlias(stages[i]) THEN WrittenOut(BodyOf(stages[i])) ELSE <<stages[i]>>])

WrittenBranches(stage) ==
    IF stage.kind # "parallel" THEN stage
    ELSE [stage EXCEPT !.sequences = [i \in DOMAIN @ |-> SeqRule(WrittenOut(<<@[i]>>))]]

\* An alias means what its body, written in its place, would mean: with the
\* roles of the place, the limit of the call on the last stage of the body and the
\* view of the call on the stages that name none.  In whatever order the event loop
\* resumes the branches, a run ends with what the pipeline so written out means,
\* stage after stage, sub-queries and rankings in the order of the branches.
AliasMeansItsBody ==
    LET stages == request.stages
        written == SeqRule(WrittenOut([i \in DOMAIN stages |-> WrittenBranches(stages[i])]))
        refused == Verify(AllCalls(written), request.collection)
    IN  /\ progress = "rejected" => refused = answer.raised
        /\ progress \in {"verified", "answered", "raised"} => refused = ""
        /\ EndsAs(written)

RECURSIVE Direct(_)
Direct(node) ==
    CASE node.kind = "call" -> [node EXCEPT !.name = Worker(@)]
      [] node.kind = "sequence" -> [node EXCEPT !.stages = [i \in DOMAIN @ |-> Direct(@[i])]]
      [] node.kind = "parallel" -> [node EXCEPT !.sequences = [i \in DOMAIN @ |-> Direct(@[i])]]

UnnamedOverRest(name) ==
    name \in DOMAIN RelayOf /\ RelayOf[name].link = "rest" /\ RelayOf[name].service \in AutoRegistered

\* What a relay hands on has another order than what it was given, which matters
\* among documents of equal scores.
Untied(scores) == \A i, j \in DOMAIN scores : scores[i].score = scores[j].score => i = j

TiesRelayed ==
    \E p \in ReturnedCalls :
        frames[p].node.name \in DOMAIN RelayOf /\ ~Untied(frames[p].ret.scores.of)

EndsLike(direct) ==
    /\ progress = "raised" => Raised(direct)
    /\ progress = "answered" => ~Raised(direct)
    /\ progress = "answered" /\ ~TiesRelayed => Items(answer.scores.of) = Items(direct.scores.of)

=============================================================================
