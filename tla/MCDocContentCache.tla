------------------------- MODULE MCDocContentCache --------------------------
(***************************************************************************)
(* Five calls over four keys: two overlapping calls for one content, one   *)
(* larger than the cap, and a text of the same document; ids that a view   *)
(* lacks.                                                                  *)
(***************************************************************************)
EXTENDS DocContentCache

MCBackend == [ocr |-> "text_jsonl", frames |-> "path_glob", audio |-> "tar"]
MCKeyFor ==
    [t \in Tasks |-> CASE t \in {1, 2} -> <<"frames", "d1">>
                       [] t = 3 -> <<"frames", "d2">>
                       [] t = 4 -> <<"audio", "d2">>
                       [] t = 5 -> <<"ocr", "d1">>]
MCParts ==
    [ocr |-> [d1 |-> 1, d2 |-> 0], frames |-> [d1 |-> 2, d2 |-> 1], audio |-> [d1 |-> 0, d2 |-> 1]]
MCBytes ==
    [ocr |-> [d1 |-> 0, d2 |-> 0], frames |-> [d1 |-> 3, d2 |-> 2], audio |-> [d1 |-> 0, d2 |-> 6]]
MCSites ==
    [relayed : {FALSE}, link : {"rest"}, default : {"ocr"}]
        \union [relayed : {TRUE}, link : {"grpc"}, default : {"ocr", "frames"}]
        \union [relayed : {TRUE}, link : {"rest"}, default : {"frames"}]

=============================================================================
