------------------------------ MODULE Ranking -------------------------------
(***************************************************************************)
(* utils/__init__.py, dict_topk, and models/fusion.py.  A Dict[str, float] *)
(* of scores is the sequence of its [doc, score] items in insertion order: *)
(* the order matters to zip, to the stable sort and to the next stage.     *)
(***************************************************************************)
EXTENDS Integers, Sequences, FiniteSets

\* A rank reciprocal 1/r is counted in units of 1/Unit, exactly for r <= 6.
Unit == 60

Docs(scores) == {scores[i].doc : i \in DOMAIN scores}

\* The list s.  (TLC makes its items here, and not whenever one is looked at.)
Made(s) == SubSeq(s, 1, Len(s))

\* The elements of S in the order of a set of pairs.
ListBy(S, before) ==
    Made([r \in 1..Cardinality(S) |->
            CHOOSE x \in S : Cardinality({y \in S : <<y, x>> \in before}) = r - 1])

Arranged(s, before) ==
    LET order == ListBy(DOMAIN s, before)
    IN  Made([r \in DOMAIN s |-> s[order[r]]])

ById(s) == {p \in (DOMAIN s) \X (DOMAIN s) : s[p[1]].doc < s[p[2]].doc}

\* sorted(..., key=lambda x: -x[1]) is stable: ties keep their order.
Before(scores, i, j) ==
    \/ scores[i].score > scores[j].score
    \/ scores[i].score = scores[j].score /\ i < j

Sorted(scores) ==
    Arranged(scores, {p \in (DOMAIN scores) \X (DOMAIN scores) : Before(scores, p[1], p[2])})

Truncated(s, n) == SubSeq(s, 1, IF n < Len(s) THEN n ELSE Len(s))

\* Seeded fault: the cut is made before the sort.
CutThenSort(scores, k) == Sorted(Truncated(scores, k))

dict_topk(scores, k) == Truncated(Sorted(scores), k)

-----------------------------------------------------------------------------
\* The keys of the fused dict, in the order in which the rankings show them.
Shown(rankings) == UNION {{<<n, i>> : i \in DOMAIN rankings[n]} : n \in DOMAIN rankings}

DocAt(rankings, p) == rankings[p[1]][p[2]].doc

Earlier(p, q) ==
    \/ p[1] < q[1]
    \/ p[1] = q[1] /\ p[2] < q[2]

FirstShown(rankings) ==
    {p \in Shown(rankings) :
        ~ \E q \in Shown(rankings) : Earlier(q, p) /\ DocAt(rankings, q) = DocAt(rankings, p)}

\* fused[docid] += ..., ranking by ranking; a dict has a document once.
Total(rankings, worth, doc) ==
    LET places(n) == {i \in DOMAIN rankings[n] : rankings[n][i].doc = doc}
        sum[n \in 0..Len(rankings)] ==
            IF n = 0 THEN 0
            ELSE sum[n - 1] + (IF places(n) = {} THEN 0 ELSE worth[n][CHOOSE i \in places(n) : TRUE])
    IN  sum[Len(rankings)]

Fuse(rankings, worth) ==
    LET firsts == FirstShown(rankings)
        order == ListBy(firsts, {p \in firsts \X firsts : Earlier(p[1], p[2])})
        doc(r) == DocAt(rankings, order[r])
    IN  Made([r \in 1..Cardinality(firsts) |->
                [doc |-> doc(r), score |-> Total(rankings, worth, doc(r))]])

rrf(rankings) ==
    LET ranked == Made([n \in DOMAIN rankings |-> Sorted(rankings[n])])
    IN  Fuse(ranked, [n \in DOMAIN ranked |-> [i \in DOMAIN ranked[n] |-> Unit \div i]])

score_fusion(rankings) ==
    Fuse(rankings, [n \in DOMAIN rankings |-> [i \in DOMAIN rankings[n] |-> rankings[n][i].score]])
=============================================================================
