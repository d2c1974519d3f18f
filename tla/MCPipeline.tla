----------------------------- MODULE MCPipeline -----------------------------
(***************************************************************************)
(* Four documents; two search engines and the two that are composed of     *)
(* them; rerankers of texts and of bytes; relays; services that raise; two *)
(* mergers; an expander from the configuration, and one that registers     *)
(* itself; five aliases, some over others; and the pipelines of up to      *)
(* three stages over them.  One ranking behind a relay has a tie.          *)
(***************************************************************************)
EXTENDS PipelineMeaning

CONSTANTS Limits, Collections, FlakyLink, WithExpander

NoLimits == {NoLimit}
AllLimits == {NoLimit, 0, 2}

Item(d, s) == [doc |-> d, score |-> s]

MCServices ==
    ({"bm25", "dense", "flaky", "auto", "onestage", "fused", "far", "far_flaky", "far_auto"}
            \X {"search"})
        \union ({"mono", "flaky", "vlm", "far_mono"} \X {"score"})
        \union ({"RRF", "ScoreFusion"} \X {"fuse"})
        \union ({"expander", "splitter"} \X {"decompose_query"})

MCViewKinds == [news |-> [body |-> "text"], shots |-> [frames |-> "bytes", ocr |-> "text"]]
MCDefaultViews == [news |-> "body", shots |-> "frames"]
MCRerankers == [onestage |-> [upstream |-> "bm25", scorer |-> "mono"]]
MCFusions == [fused |-> <<"dense", "bm25">>]
MCRelayOf ==
    [far       |-> [service |-> "dense", link |-> "grpc"],
     far_flaky |-> [service |-> "flaky", link |-> FlakyLink],
     far_auto  |-> [service |-> "auto", link |-> "rest"],
     far_mono  |-> [service |-> "mono", link |-> "rest"]]

MCQueries == {"q", "s1", "s2", ""}

\* Nobody finds anything for the empty query.
WithEmpty(found) == found @@ ("" :> <<>>)

MCHits ==
    [bm25  |-> WithEmpty([q  |-> <<Item(3, 9), Item(2, 7), Item(1, 4)>>,
                          s1 |-> <<Item(4, 8), Item(1, 6)>>,
                          s2 |-> <<Item(3, 5)>>]),
     dense |-> WithEmpty([q  |-> <<Item(3, 6), Item(1, 5)>>,
                          s1 |-> <<Item(2, 7), Item(4, 3)>>,
                          s2 |-> <<Item(4, 4), Item(2, 4)>>]),
     auto  |-> WithEmpty([q  |-> <<Item(4, 2), Item(2, 1)>>, s1 |-> <<>>, s2 |-> <<>>])]

MCScore ==
    [mono |-> [q  |-> <<1, 5, 3, 2>>, s1 |-> <<4, 1, 2, 6>>, s2 |-> <<2, 2, 7, 1>>]
                    @@ ("" :> <<0, 0, 0, 0>>),
     vlm  |-> [q  |-> <<2, 1, 6, 3>>, s1 |-> <<1, 2, 3, 4>>, s2 |-> <<4, 3, 2, 1>>]
                    @@ ("" :> <<0, 0, 0, 0>>)]

MCSubQueries ==
    [name \in {"expander", "splitter"} |->
        WithEmpty([q |-> <<"s1", "s2">>, s1 |-> <<"s2">>, s2 |-> <<>>])]

MCAliasBodies ==
    [cascade |-> <<SystemCall("bm25", NoLimit), SystemCall("mono", 2)>>,
     both    |-> <<ParallelCallSequences(<<>>,
                       <<SystemCall("dense", 2), SystemCall("bm25", NoLimit)>>,
                       SystemCall("ScoreFusion", NoLimit))>>,
     twice   |-> <<SystemCall("mono", NoLimit), SystemCall("mono", 1)>>,
     deep    |-> <<SystemCall("cascade", NoLimit), SystemCall("twice", 2)>>,
     mixed   |-> <<SystemCall("twice", NoLimit), At(SystemCall("vlm", 2), "frames")>>]

Calls(names) == {SystemCall(n, l) : n \in names, l \in Limits}

\* far_flaky raises, or answers with nothing; cascade and the last one are sequences.
CallBranches ==
    {SeqRule(<<SystemCall("bm25", NoLimit)>>), SeqRule(<<SystemCall("far", 1)>>),
     SeqRule(<<SystemCall("far_flaky", NoLimit)>>)}

LongBranches ==
    {SeqRule(<<SystemCall("cascade", 1)>>),
     SeqRule(<<SystemCall("dense", NoLimit), SystemCall("mono", NoLimit)>>)}

\* A search service does not expand.
Expanders ==
    IF WithExpander
    THEN {<<>>, <<SystemCall("dense", NoLimit)>>, <<SystemCall("expander", NoLimit)>>}
            \union {<<c>> : c \in Calls({"splitter"})}
    ELSE {<<>>}

Fans(expanders, branches, mergers) ==
    {ParallelCallSequences(e, <<a, b>>, m) :
        e \in expanders, a \in branches, b \in branches, m \in mergers}

Mergers == Calls({"RRF"})

\* A fan-out in the branch of another one.
NestedFans ==
    {ParallelCallSequences(e, <<f, SystemCall("far", 1)>>, SystemCall("RRF", NoLimit)) :
        e \in {x \in Expanders : x = <<>> \/ x[1].limit = NoLimit},
        f \in Fans({<<>>}, CallBranches, {SystemCall("ScoreFusion", NoLimit)})}

FirstCalls ==
    Calls({"bm25", "far", "flaky", "mono", "onestage", "fused", "far_auto", "cascade", "both", "deep"})

LaterStages ==
    Calls({"mono", "far_mono", "flaky", "dense", "twice", "vlm"})
        \union {At(SystemCall("mono", NoLimit), "ocr"), At(SystemCall("vlm", 1), "body"),
                At(SystemCall("mixed", NoLimit), "ocr")}

\* Without an expander, the merger of a fan-out in a later stage gets the scores
\* of the stage before it.
LaterFans ==
    {ParallelCallSequences(e, <<SystemCall("mono", NoLimit), SystemCall("far_mono", 1)>>, m) :
        e \in Expanders, m \in Mergers}
        \union {ParallelCallSequences(<<SystemCall("splitter", l)>>,
                                      <<SystemCall("bm25", 1), SystemCall("far", NoLimit)>>, m) :
                    l \in Limits, m \in Mergers}

OneStage ==
    {<<a>> : a \in FirstCalls \union NestedFans \union Fans(Expanders, CallBranches, Mergers)
                    \union Fans({<<>>}, LongBranches, Mergers)
                    \union Fans(Expanders, CallBranches \union LongBranches,
                                {SystemCall("RRF", NoLimit)})}

TwoStages ==
    {<<a, b>> : a \in FirstCalls \union Fans({<<>>}, CallBranches \union LongBranches, Mergers),
                b \in LaterStages}
        \union {<<a, b>> : a \in Fans(Expanders, CallBranches, {SystemCall("RRF", NoLimit)}),
                           b \in LaterStages}
        \union {<<a, b>> : a \in Calls({"bm25"}), b \in LaterFans}

ThreeStages == {<<a, b, c>> : a \in Calls({"bm25", "both"}), b, c \in LaterStages}

Posted(pipelines, queries, collections) ==
    [stages : pipelines, query : queries, collection : collections]

MCRequests ==
    {[tree |-> Tree(r.stages)] ++ r :
        r \in Posted(OneStage, {"q"}, Collections)
                \union Posted(TwoStages, {"q"}, Collections \ {""})
                \union Posted(ThreeStages, {"q"}, Collections \ {"", "shots"})
                \union Posted({<<a>> : a \in Calls({"bm25"})}, {""}, {""})
                \union Posted({<<a, b>> : a \in Calls({"bm25"}), b \in LaterStages},
                              {"q"}, Collections \union {"lost"})}
=============================================================================
