---------------------------- MODULE MCResultPage ----------------------------
(***************************************************************************)
(* Three results on pages of two; a collection with keyframes, recordings, *)
(* transcripts kept as bytes and summaries kept as texts, and one of texts *)
(* only; every way of choosing the engine, the collection and the tab.     *)
(***************************************************************************)
EXTENDS ResultPage

MCARGS == [engine |-> "", collection |-> "", pipeline |-> "fused", frames |-> 2]

MCMediaPrefs == <<"keyframes">>
MCAlphabet == <<"asr", "audio", "bm25", "body", "dense", "keyframes", "news", "shots", "summary">>

MCAvail ==
    [search |-> {"bm25", "dense"},
     collection |-> [shots |-> [default |-> "audio",
                                views |-> [audio |-> "bytes", keyframes |-> "bytes",
                                           asr |-> "bytes", summary |-> "text"]],
                     news  |-> [default |-> "body", views |-> [body |-> "text"]]]]

Item(d, s) == [doc |-> d, score |-> s]

MCRankings ==
    [bm25  |-> <<Item("d2", 5), Item("d1", 7), Item("d3", 5)>>,
     dense |-> <<Item("d3", 1)>>,
     fused |-> <<>>]

Holding(type, n) == [kind |-> "bytes", type |-> type, n |-> n]
Words == [kind |-> "text", type |-> "text", n |-> 1]
AllWords == [d1 |-> Words, d2 |-> Words, d3 |-> Words]

MCContents ==
    [keyframes |-> [d1 |-> Holding("image", 4), d2 |-> Holding("image", 2), d3 |-> Holding("image", 0)],
     audio     |-> [d1 |-> Holding("binary", 1), d2 |-> Holding("video", 1), d3 |-> Holding("binary", 1)],
     asr       |-> [d1 |-> Holding("text", 1), d2 |-> Holding("text", 1), d3 |-> Holding("text", 0)],
     summary   |-> AllWords,
     body      |-> AllWords]

MCPageRequests ==
    [q : {"q"}, engine : {Unset, "dense", Custom}, collection : {Unset, "", "shots"},
     pipeline : {"", "bm25"}, tab : {"", "asr"}]
=============================================================================
