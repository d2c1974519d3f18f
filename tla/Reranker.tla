------------------------------- MODULE Reranker -----------------------------
(***************************************************************************)
(* models/abstract.py, Reranker: a scoring engine that is a search engine  *)
(* as well, by scoring what an upstream engine found.  It reads the texts  *)
(* over REST, from the /content of its text_service.                       *)
(***************************************************************************)
EXTENDS Ranking

CONSTANTS
    rerank_multiplier,
    rerank_topk_max

ASSUME RerankerAssumption == rerank_multiplier \in Nat /\ rerank_topk_max \in Nat

UpstreamLimit(limit) ==
    IF limit * rerank_multiplier < rerank_topk_max
    THEN limit * rerank_multiplier ELSE rerank_topk_max

\* get_text asks once for every id, in no particular order, and returns the
\* texts by id: a function from the candidates.  One failure fails them all.
get_text(docids, Readable) == [d \in docids |-> d \in Readable]

\* Seeded fault: the scores, which are in the order of the texts, are zipped with
\* the candidates in another order.
ZippedWithSorted(candidates, scores) ==
    [i \in DOMAIN candidates |->
        [doc |-> Arranged(candidates, ById(candidates))[i].doc, score |-> scores[i]]]

Zipped(candidates, scores) ==
    [i \in DOMAIN candidates |-> [doc |-> candidates[i].doc, score |-> scores[i]]]

\* search_batch for one query.  candidates: what the upstream engine returned;
\* scored: the score of each text.
search_batch(candidates, limit, Readable, scored) ==
    LET all_text == get_text(Docs(candidates), Readable)
        raw_scores == [i \in DOMAIN candidates |-> scored[candidates[i].doc]]
    IN  IF \A d \in Docs(candidates) : all_text[d]
        THEN <<dict_topk(Zipped(candidates, raw_scores), limit)>>
        ELSE <<>>
=============================================================================
