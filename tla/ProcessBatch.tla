---------------------------- MODULE ProcessBatch ----------------------------
(***************************************************************************)
(* What the subclasses of BatchProcessor do with a batch: how a list of    *)
(* request dicts becomes the arguments of one engine call, and how the     *)
(* engine's answer is cut into one result per request.                     *)
(***************************************************************************)
EXTENDS Naturals, Sequences, SequencesExt

-----------------------------------------------------------------------------
\* BatchPairwiseScoreProcessor: the passages of all requests in one flat list,
\* sum(passages, []), with the number that belongs to each request.
FlatPassages(items) == FlattenSeq([i \in DOMAIN items |-> items[i].passages])
CandidateLength(items) == [i \in DOMAIN items |-> Len(items[i].passages)]

\* score_batch: every query repeated once per candidate, zipped with the flat
\* passages, and scored pair by pair.  The score of a pair is the pair.
ExpandedQueries(items) ==
    FlattenSeq([i \in DOMAIN items |-> [j \in 1..CandidateLength(items)[i] |-> items[i].query]])

AllScores(items) ==
    [j \in DOMAIN FlatPassages(items) |-> <<ExpandedQueries(items)[j], FlatPassages(items)[j]>>]

\* Seeded fault: start counts requests instead of passages.
SliceByRequest(items, i) == i - 1

\* score_batch's regrouping: the slice [start, start + l) of the flat scores.
SliceStart(items, i) == FoldLeft(+, 0, SubSeq(CandidateLength(items), 1, i - 1))

\* A slice of a Python list ends at the end of the list.
Slice(s, from, to) == SubSeq(s, from + 1, IF to < Len(s) THEN to ELSE Len(s))

ScoreResult(items, i) ==
    Slice(AllScores(items), SliceStart(items, i),
          SliceStart(items, i) + CandidateLength(items)[i])
=============================================================================
