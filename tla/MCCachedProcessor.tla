-------------------------- MODULE MCCachedProcessor -------------------------
(***************************************************************************)
(* CachedProcessor over four requests: three search requests, two of them  *)
(* equal, and a fourth with another limit; as score requests the first two *)
(* carry different passages.                                               *)
(***************************************************************************)
EXTENDS CachedProcessor, CacheKeys

ItemOf ==
    [r \in Stored |->
        [query    |-> IF r = 3 THEN "q2" ELSE "q1",
         limit    |-> IF r = 4 THEN 20 ELSE 10,
         subset   |-> "",
         passages |-> IF r = 2 THEN <<"p2">> ELSE <<"p1">>]]

MCSearchAnswerOf == [r \in Stored |-> SearchAnswer(ItemOf[r])]
MCScoreAnswerOf == [r \in Stored |-> ScoreAnswer(ItemOf[r])]

\* The key of a processor that is built without one.
MCKeyOf == [r \in Stored |-> DefaultKey(ItemOf[r])]
MCKeys == {MCKeyOf[r] : r \in Stored}

\* The calls are for the first of two services, and are filed under the fields
\* of the second, which tell them apart as well.
Declared == << {"query", "limit"}, {"query", "limit", "subset"} >>
LoadedKeyOf == [r \in Stored |-> ConfiguredKey(Declared, 1, ItemOf[r])]
LoadedKeys == {LoadedKeyOf[r] : r \in Stored}

=============================================================================
