------------------------------ MODULE MCCaches ------------------------------
(***************************************************************************)
(* LRUCache on its own: neither keys nor values are told apart by the      *)
(* cache, and every checked property is a safety property, so both sets    *)
(* are symmetric.  RedisCache under cached_run: r1 and r2 ask the same, r3 *)
(* asks with a runtime argument.                                           *)
(***************************************************************************)
EXTENDS Caches, TLC

CONSTANTS r1, r2, r3

Symmetry == Permutations(Keys) \union Permutations(Stored)

Ask(kwargs) == [pipeline |-> "s>>rr",
                query |-> "q", collection |-> "c", kwargs |-> kwargs]

MCAsks == r1 :> Ask(<<>>) @@ r2 :> Ask(<<>>) @@ r3 :> Ask("rr" :> "deep")

MCKeys == {_cache_key(r) : r \in Runs}

=============================================================================
