--------------------------- MODULE PipelineSyntax ---------------------------
(***************************************************************************)
(* pipeline/parser.py: the tree of a pipeline, built bottom-up as the      *)
(* transformer does, with the role every call gets, and the expansion of   *)
(* aliases on it.  Labels in brackets are left out.                        *)
(***************************************************************************)
EXTENDS Stage

SystemCall(name, limit) ==
    [kind |-> "call", name |-> name, limit |-> limit, view |-> OwnView, role |-> "search"]

\* name@view.
At(call, view) == [call EXCEPT !.view = view]

RECURSIVE AsRole(_, _), CallSequence(_)

\* __post_init__: every stage after the first one reranks.
CallSequence(stages) ==
    [kind |-> "sequence",
     stages |-> [i \in DOMAIN stages |->
                    IF i = 1 THEN stages[i] ELSE AsRole(stages[i], "rerank")]]

\* expander is a sequence of at most one call.
ParallelCallSequences(expander, sequences, merger) ==
    [kind |-> "parallel", sequences |-> sequences,
     expander |-> [i \in DOMAIN expander |-> [expander[i] EXCEPT !.role = "expander"]],
     merger |-> [merger EXCEPT !.role = "merger"]]

\* A fan-out behind an expander keeps its roles.
AsRole(node, role) ==
    CASE node.kind = "call" -> [node EXCEPT !.role = role]
      [] node.kind = "sequence" ->
            CallSequence([node.stages EXCEPT ![1] = AsRole(@, role)])
      [] node.kind = "parallel" /\ node.expander # <<>> -> node
      [] node.kind = "parallel" /\ node.expander = <<>> ->
            ParallelCallSequences(<<>>,
                [i \in DOMAIN node.sequences |-> AsRole(node.sequences[i], role)],
                node.merger)

\* PipelineTransformer.seq.
SeqRule(stages) == IF Len(stages) = 1 THEN AsRole(stages[1], "search") ELSE CallSequence(stages)

-----------------------------------------------------------------------------
RECURSIVE ApplyOuterLimit(_, _)
ApplyOuterLimit(node, limit) ==
    CASE node.kind = "call" -> [node EXCEPT !.limit = limit]
      [] node.kind = "sequence" ->
            [node EXCEPT !.stages[Len(node.stages)] = ApplyOuterLimit(@, limit)]
      [] node.kind = "parallel" -> [node EXCEPT !.merger.limit = limit]

\* Seeded fault: the role of the call is dropped.
SubstituteAsIs(call, body) ==
    IF call.limit = NoLimit THEN body ELSE ApplyOuterLimit(body, call.limit)

\* _propagate_view_to_leaves: a stage keeps the view that it has itself.
RECURSIVE PropagateView(_, _)
PropagateView(node, view) ==
    CASE node.kind = "call" -> IF node.view = OwnView THEN At(node, view) ELSE node
      [] node.kind = "sequence" ->
            [node EXCEPT !.stages = [i \in DOMAIN @ |-> PropagateView(@[i], view)]]
      [] node.kind = "parallel" ->
            [node EXCEPT !.sequences = [i \in DOMAIN @ |-> PropagateView(@[i], view)]]

\* The body takes the role and, when it has them, the limit and the view of the call.
Substitute(call, body) ==
    LET placed == AsRole(body, call.role)
        limited == IF call.limit = NoLimit THEN placed ELSE ApplyOuterLimit(placed, call.limit)
    IN  IF call.view = OwnView THEN limited ELSE PropagateView(limited, call.view)

\* expand_aliases: aliases is a function from names to trees.  A merger and an
\* expander are never substituted.
RECURSIVE ExpandAliases(_, _)
ExpandAliases(node, aliases) ==
    CASE node.kind = "call" ->
            IF node.name \in DOMAIN aliases THEN Substitute(node, aliases[node.name]) ELSE node
      [] node.kind = "sequence" ->
            [node EXCEPT !.stages =
                [i \in DOMAIN @ |-> ExpandAliases(@[i], aliases)]]
      [] node.kind = "parallel" ->
            [node EXCEPT !.sequences =
                [i \in DOMAIN @ |-> ExpandAliases(@[i], aliases)]]
=============================================================================
