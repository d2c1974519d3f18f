-------------------------- MODULE MCBatchProcessor --------------------------
(***************************************************************************)
(* BatchProcessor over BatchPairwiseScoreProcessor and an engine that      *)
(* scores pairs: the requests carry different queries and 0, 1 and 2       *)
(* passages, two of them equal, so that a reply to the wrong caller is     *)
(* never right by chance.                                                  *)
(***************************************************************************)
EXTENDS BatchProcessor, ProcessBatch

MCItemOf == [r \in Requests |-> CASE r = 1 -> [query |-> "q1", passages |-> <<>>]
                                  [] r = 2 -> [query |-> "q2", passages |-> <<"a">>]
                                  [] r = 3 -> [query |-> "q3", passages |-> <<"b", "a">>]]
MCItems == {MCItemOf[r] : r \in Requests}
MCValues == {ScoreResult(<<i>>, 1) : i \in MCItems}

=============================================================================
