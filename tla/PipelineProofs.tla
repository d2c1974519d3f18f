--------------------------- MODULE PipelineProofs ---------------------------
(***************************************************************************)
(* Pipeline, for every set of requests, trees, services and engines.       *)
(*                                                                         *)
(* The lists first: what a sort, a cut and a fusion return.  Then one      *)
(* call: what RunCall returns, and what a limit does to it.  Then the      *)
(* frames, whose inductive invariant (IInv) says that every frame has      *)
(* well-formed arguments, that a call has returned what RunCall makes of   *)
(* its arguments, and in which order the calls of one frame are made.      *)
(***************************************************************************)
EXTENDS Pipeline, SequenceTheorems, FiniteSetTheorems, WellFoundedInduction, TLAPS

LEMMA LeastNumber ==
    ASSUME NEW T, T \subseteq Nat, T # {}
    PROVE  \E x \in T : \A y \in T : x <= y
<1>1. PICK x \in T : \A y \in T : <<y, x>> \notin OpToRel(<, Nat)
  BY NatLessThanWellFounded, WFMin
<1>2. \A y \in T : ~(y < x)
  BY <1>1 DEF OpToRel
<1> QED  BY <1>2

\* A function on 1..n is a list, and Made leaves it as it is.
LEMMA MadeFrom ==
    ASSUME NEW f, NEW n \in Nat, DOMAIN f = 1..n, f = [i \in 1..n |-> f[i]]
    PROVE  Made(f) = f /\ Len(f) = n /\ f \in Seq({f[i] : i \in 1..n})
<1> DEFINE X == {f[i] : i \in 1..n}
<1>1. \A i \in 1..n : f[i] \in X
  OBVIOUS
<1> HIDE DEF X
<1>2. [i \in 1..n |-> f[i]] \in Seq(X)
  BY <1>1, IsASeq
<1>3. f \in Seq(X) /\ Len(f) = n
  BY <1>2, LenProperties
<1>4. SubSeq(f, 1, n) = f
  BY <1>3
<1> QED  BY <1>3, <1>4 DEF Made, X

LEMMA ListIn ==
    ASSUME NEW X, NEW f, NEW n \in Nat, DOMAIN f = 1..n, f = [i \in 1..n |-> f[i]],
           \A i \in 1..n : f[i] \in X
    PROVE  Made(f) = f /\ Len(f) = n /\ f \in Seq(X)
<1> DEFINE Y == {f[i] : i \in 1..n}
<1>1. Made(f) = f /\ Len(f) = n /\ f \in Seq(Y)
  BY MadeFrom
<1>2. Y \subseteq X
  OBVIOUS
<1> HIDE DEF Y
<1> QED  BY <1>1, <1>2, SeqMonotonic

-----------------------------------------------------------------------------
Orders(before, S) ==
    /\ \A x \in S : <<x, x>> \notin before
    /\ \A x, y, z \in S : <<x, y>> \in before /\ <<y, z>> \in before => <<x, z>> \in before
    /\ \A x, y \in S : x # y => <<x, y>> \in before \/ <<y, x>> \in before

\* How many come before x.
Rank(x, S, before) == Cardinality({y \in S : <<y, x>> \in before})

LEMMA RankGrows ==
    ASSUME NEW S, IsFiniteSet(S), NEW before, Orders(before, S),
           NEW x \in S, NEW y \in S, <<x, y>> \in before
    PROVE  Rank(x, S, before) < Rank(y, S, before)
<1> DEFINE below(z) == {w \in S : <<w, z>> \in before}
<1>1. below(x) \subseteq below(y) /\ x \in below(y) /\ x \notin below(x)
  BY DEF Orders
<1>2. below(y) \subseteq S
  OBVIOUS
<1> HIDE DEF below
<1>3. IsFiniteSet(below(y))
  BY <1>2, FS_Subset
<1>4. /\ Cardinality(below(x)) <= Cardinality(below(y))
      /\ Cardinality(below(y)) = Cardinality(below(x)) => below(y) = below(x)
      /\ IsFiniteSet(below(x))
  BY <1>1, <1>3, FS_Subset
<1>5. Cardinality(below(x)) \in Nat /\ Cardinality(below(y)) \in Nat
  BY <1>3, <1>4, FS_CardinalityType
<1>6. Cardinality(below(x)) < Cardinality(below(y))
  BY <1>1, <1>4, <1>5
<1> QED  BY <1>6 DEF Rank, below

LEMMA RankRange ==
    ASSUME NEW S, IsFiniteSet(S), NEW before, Orders(before, S), NEW x \in S
    PROVE  Rank(x, S, before) \in 0..(Cardinality(S) - 1)
<1> DEFINE below == {w \in S : <<w, x>> \in before}
<1>1. below \subseteq S /\ x \notin below
  BY DEF Orders
<1> HIDE DEF below
<1>2. /\ Cardinality(below) <= Cardinality(S) /\ IsFiniteSet(below)
      /\ Cardinality(S) = Cardinality(below) => S = below
  BY <1>1, FS_Subset
<1>3. Cardinality(below) \in Nat /\ Cardinality(S) \in Nat
  BY <1>2, FS_CardinalityType
<1>4. Cardinality(below) \in 0..(Cardinality(S) - 1)
  BY <1>1, <1>2, <1>3
<1> QED  BY <1>4 DEF Rank, below

\* Every place in the order is taken.
LEMMA RankTaken ==
    ASSUME NEW S, IsFiniteSet(S), NEW before, Orders(before, S),
           NEW r \in 1..Cardinality(S)
    PROVE  \E x \in S : Rank(x, S, before) = r - 1
<1> DEFINE n == Cardinality(S)
           T == 0..(n - 1)
           f == [x \in S |-> Rank(x, S, before)]
<1>1. n \in Nat
  BY FS_CardinalityType
<1>2. IsFiniteSet(T) /\ Cardinality(T) = n
  <2> HIDE DEF n
  <2>1. 0 \in Int /\ n - 1 \in Int
    BY <1>1
  <2>2. IsFiniteSet(T) /\ Cardinality(T) = IF 0 > n - 1 THEN 0 ELSE (n - 1) - 0 + 1
    BY <2>1, FS_Interval
  <2> QED  BY <1>1, <2>2
<1>3. f \in [S -> T]
  BY RankRange
<1>4. \A x, y \in S : f[x] = f[y] => x = y
  <2> TAKE x, y \in S
  <2>1. CASE <<x, y>> \in before
    <3>1. Rank(x, S, before) < Rank(y, S, before)
      BY <2>1, RankGrows
    <3> QED  BY <1>1, <3>1, RankRange
  <2>2. CASE <<y, x>> \in before
    <3>1. Rank(y, S, before) < Rank(x, S, before)
      BY <2>2, RankGrows
    <3> QED  BY <1>1, <3>1, RankRange
  <2> QED  BY <2>1, <2>2 DEF Orders
<1> HIDE DEF f, T
<1>5. f \in Injection(S, T)
  BY <1>3, <1>4 DEF Injection, IsInjective
<1>6. f \in Surjection(S, T)
  BY <1>2, <1>5, FS_Injection
<1>7. r - 1 \in T
  BY <1>1 DEF T
<1>8. \E x \in S : f[x] = r - 1
  BY <1>6, <1>7 DEF Surjection
<1> QED  BY <1>8 DEF f

\* ListBy enumerates the set, every element once, in the order given.
Enumerates(list, S, before) ==
    /\ list \in Seq(S) /\ Len(list) = Cardinality(S)
    /\ \A i, j \in 1..Len(list) : i < j => <<list[i], list[j]>> \in before
    /\ \A i, j \in 1..Len(list) : list[i] = list[j] => i = j
    /\ \A x \in S : \E i \in 1..Len(list) : list[i] = x

LEMMA ListByEnumerates ==
    ASSUME NEW S, IsFiniteSet(S), NEW before, Orders(before, S)
    PROVE  Enumerates(ListBy(S, before), S, before)
<1> DEFINE n == Cardinality(S)
           at(r) == CHOOSE x \in S : Cardinality({y \in S : <<y, x>> \in before}) = r - 1
           f == [r \in 1..n |-> at(r)]
<1>1. n \in Nat
  BY FS_CardinalityType
<1>2. \A r \in 1..n : f[r] \in S /\ Rank(f[r], S, before) = r - 1
  <2> TAKE r \in 1..n
  <2>1. \E x \in S : Cardinality({y \in S : <<y, x>> \in before}) = r - 1
    BY RankTaken DEF Rank
  <2> QED  BY <2>1 DEF Rank
<1>3. ListBy(S, before) = Made(f)
  BY DEF ListBy
<1> HIDE DEF at, n
<1>9. DOMAIN f = 1..n /\ f = [r \in 1..n |-> f[r]]
  OBVIOUS
<1> HIDE DEF f
<1>4. Made(f) = f /\ Len(f) = n /\ f \in Seq({f[r] : r \in 1..n})
  BY <1>1, <1>9, MadeFrom
<1>5. f \in Seq(S)
  BY <1>2, <1>4, SeqMonotonic
<1>6. \A i, j \in 1..n : i < j => <<f[i], f[j]>> \in before
  <2> TAKE i, j \in 1..n
  <2> HAVE i < j
  <2>1. f[i] # f[j]
    BY <1>1, <1>2
  <2>2. CASE <<f[j], f[i]>> \in before
    <3>1. Rank(f[j], S, before) < Rank(f[i], S, before)
      BY <1>2, <2>2, RankGrows
    <3> QED  BY <1>1, <1>2, <3>1
  <2> QED  BY <1>2, <2>1, <2>2 DEF Orders
<1>7. \A i, j \in 1..n : f[i] = f[j] => i = j
  <2> TAKE i, j \in 1..n
  <2> HAVE f[i] = f[j]
  <2>1. i - 1 = j - 1
    BY <1>2
  <2> QED  BY <1>1, <2>1
<1>8. \A x \in S : \E i \in 1..n : f[i] = x
  <2> TAKE x \in S
  <2>1. Rank(x, S, before) \in 0..(n - 1)
    BY RankRange DEF n
  <2> DEFINE i == Rank(x, S, before) + 1
  <2>2. i \in 1..n /\ i - 1 = Rank(x, S, before)
    BY <1>1, <2>1
  <2> HIDE DEF i
  <2>3. f[i] \in S /\ Rank(f[i], S, before) = Rank(x, S, before)
    BY <1>2, <2>2
  <2>4. f[i] = x
    <3>1. CASE <<f[i], x>> \in before
      BY <1>1, <2>1, <2>3, <3>1, RankGrows
    <3>2. CASE <<x, f[i]>> \in before
      BY <1>1, <2>1, <2>3, <3>2, RankGrows
    <3> QED  BY <2>3, <3>1, <3>2 DEF Orders
  <2> QED  BY <2>2, <2>4
<1> QED  BY <1>3, <1>4, <1>5, <1>6, <1>7, <1>8 DEF Enumerates, n

\* t has the items of s, each in one place.
Permutes(t, s) ==
    \E o \in [1..Len(s) -> 1..Len(s)] :
        /\ t = [i \in 1..Len(s) |-> s[o[i]]]
        /\ \A i, j \in 1..Len(s) : o[i] = o[j] => i = j
        /\ \A k \in 1..Len(s) : \E i \in 1..Len(s) : o[i] = k

LEMMA ArrangedFacts ==
    ASSUME NEW X, NEW s \in Seq(X), NEW before, Orders(before, 1..Len(s))
    PROVE  LET t == Arranged(s, before)
           IN  \E o \in [1..Len(s) -> 1..Len(s)] :
                   /\ t = [i \in 1..Len(s) |-> s[o[i]]]
                   /\ \A i, j \in 1..Len(s) : o[i] = o[j] => i = j
                   /\ \A k \in 1..Len(s) : \E i \in 1..Len(s) : o[i] = k
                   /\ \A i, j \in 1..Len(s) : i < j => <<o[i], o[j]>> \in before
<1> DEFINE n == Len(s)
           o == ListBy(1..n, before)
           f == [i \in 1..n |-> s[o[i]]]
<1>1. n \in Nat /\ DOMAIN s = 1..n
  BY LenProperties
<1>2. IsFiniteSet(1..n) /\ Cardinality(1..n) = n
  <2> HIDE DEF n
  <2>1. IsFiniteSet(1..n) /\ Cardinality(1..n) = IF 1 > n THEN 0 ELSE n - 1 + 1
    BY <1>1, FS_Interval
  <2> QED  BY <1>1, <2>1
<1>3. Enumerates(o, 1..n, before)
  BY <1>2, ListByEnumerates
<1> HIDE DEF o, n
<1>4. o \in Seq(1..n) /\ Len(o) = n
  BY <1>2, <1>3 DEF Enumerates
<1>5. o \in [1..n -> 1..n]
  BY <1>4, LenProperties
<1>6. DOMAIN f = 1..n /\ f = [i \in 1..n |-> f[i]]
  OBVIOUS
<1>7. Arranged(s, before) = Made(f)
  BY <1>1 DEF Arranged, o
<1> HIDE DEF f
<1>8. Arranged(s, before) = f
  BY <1>1, <1>6, <1>7, MadeFrom
<1>9. /\ Arranged(s, before) = [i \in 1..n |-> s[o[i]]]
      /\ \A i, j \in 1..n : o[i] = o[j] => i = j
      /\ \A k \in 1..n : \E i \in 1..n : o[i] = k
      /\ \A i, j \in 1..n : i < j => <<o[i], o[j]>> \in before
  BY <1>3, <1>4, <1>8 DEF Enumerates, f
<1> QED  BY <1>5, <1>9 DEF n

LEMMA PermutesFacts ==
    ASSUME NEW X, NEW s \in Seq(X), NEW t, Permutes(t, s)
    PROVE  t \in Seq(X) /\ Len(t) = Len(s) /\ Items(t) = Items(s)
<1> DEFINE n == Len(s)
<1>1. n \in Nat /\ DOMAIN s = 1..n /\ \A i \in 1..n : s[i] \in X
  BY LenProperties, ElementOfSeq
<1>2. PICK o \in [1..n -> 1..n] :
          /\ t = [i \in 1..n |-> s[o[i]]]
          /\ \A k \in 1..n : \E i \in 1..n : o[i] = k
  BY DEF Permutes
<1>3. DOMAIN t = 1..n /\ t = [i \in 1..n |-> t[i]] /\ \A i \in 1..n : t[i] = s[o[i]]
  BY <1>2
<1>4. \A i \in 1..n : t[i] \in X
  BY <1>1, <1>2, <1>3
<1>5. t \in Seq({t[i] : i \in 1..n}) /\ Len(t) = n
  BY <1>1, <1>3, MadeFrom
<1>6. t \in Seq(X)
  BY <1>4, <1>5, SeqMonotonic
<1>7. Items(t) = Items(s)
  <2>1. \A i \in 1..n : \E k \in 1..n : t[i] = s[k]
    BY <1>2, <1>3
  <2>2. \A k \in 1..n : \E i \in 1..n : s[k] = t[i]
    BY <1>2, <1>3
  <2> HIDE DEF n
  <2> QED  BY <1>1, <1>3, <2>1, <2>2 DEF Items
<1> QED  BY <1>5, <1>6, <1>7

LEMMA DocsOfItems == ASSUME NEW s PROVE Docs(s) = {e.doc : e \in Items(s)}
BY DEF Docs, Items

LEMMA RankingFacts ==
    ASSUME NEW s \in Rankings
    PROVE  /\ s \in Seq([doc : Int, score : Int]) /\ Len(s) \in Nat /\ DOMAIN s = 1..Len(s)
           /\ \A i \in 1..Len(s) : s[i].doc \in Int /\ s[i].score \in Int
           /\ \A i, j \in 1..Len(s) : s[i].doc = s[j].doc => i = j
<1>1. s \in Seq([doc : Int, score : Int]) /\ \A i, j \in DOMAIN s : s[i].doc = s[j].doc => i = j
  BY DEF Rankings
<1>2. Len(s) \in Nat /\ DOMAIN s = 1..Len(s) /\ \A i \in 1..Len(s) : s[i] \in [doc : Int, score : Int]
  BY <1>1, LenProperties, ElementOfSeq
<1> QED  BY <1>1, <1>2

LEMMA EmptyRanking == <<>> \in Rankings
<1>1. <<>> \in Seq([doc : Int, score : Int]) /\ DOMAIN <<>> = {}
  BY EmptySeq
<1> QED  BY <1>1 DEF Rankings

LEMMA PermutesRanking ==
    ASSUME NEW s \in Rankings, NEW t, Permutes(t, s)
    PROVE  t \in Rankings /\ Len(t) = Len(s) /\ Items(t) = Items(s) /\ Docs(t) = Docs(s)
<1> DEFINE n == Len(s)
<1>1. /\ s \in Seq([doc : Int, score : Int]) /\ n \in Nat /\ DOMAIN s = 1..n
      /\ \A i, j \in 1..n : s[i].doc = s[j].doc => i = j
  BY RankingFacts
<1>2. t \in Seq([doc : Int, score : Int]) /\ Len(t) = n /\ Items(t) = Items(s)
  BY <1>1, PermutesFacts
<1>3. DOMAIN t = 1..n
  BY <1>2, LenProperties
<1>4. PICK o \in [1..n -> 1..n] :
          t = [i \in 1..n |-> s[o[i]]] /\ \A i, j \in 1..n : o[i] = o[j] => i = j
  BY DEF Permutes
<1>5. \A i, j \in 1..n : t[i].doc = t[j].doc => i = j
  BY <1>1, <1>4, ZenonT(60)
<1>6. t \in Rankings
  BY <1>2, <1>3, <1>5 DEF Rankings
<1> QED  BY <1>2, <1>6, DocsOfItems

-----------------------------------------------------------------------------
LEMMA SortedFacts ==
    ASSUME NEW s \in Rankings
    PROVE  Permutes(Sorted(s), s) /\ BestFirst(Sorted(s)) /\ Sorted(s) \in Rankings
<1> DEFINE n == Len(s)
           before == {p \in (1..n) \X (1..n) : Before(s, p[1], p[2])}
<1>1. /\ s \in Seq([doc : Int, score : Int]) /\ n \in Nat /\ DOMAIN s = 1..n
      /\ \A i \in 1..n : s[i].score \in Int
  BY RankingFacts
<1>2. \A i, j \in 1..n : <<i, j>> \in before <=> Before(s, i, j)
  OBVIOUS
<1>3. Sorted(s) = Arranged(s, before)
  BY <1>1 DEF Sorted
<1> HIDE DEF before, n
<1>4. Orders(before, 1..n)
  <2>1. \A i \in 1..n : <<i, i>> \notin before
    BY <1>1, <1>2 DEF Before
  <2>2. ASSUME NEW i \in 1..n, NEW j \in 1..n, NEW k \in 1..n, Before(s, i, j), Before(s, j, k)
        PROVE  Before(s, i, k)
    BY <1>1, <2>2 DEF Before
  <2>3. \A i, j \in 1..n : i # j => Before(s, i, j) \/ Before(s, j, i)
    BY <1>1 DEF Before
  <2> QED  BY <1>2, <2>1, <2>2, <2>3 DEF Orders
<1>5. PICK o \in [1..n -> 1..n] :
          /\ Sorted(s) = [i \in 1..n |-> s[o[i]]]
          /\ \A i, j \in 1..n : o[i] = o[j] => i = j
          /\ \A k \in 1..n : \E i \in 1..n : o[i] = k
          /\ \A i, j \in 1..n : i < j => <<o[i], o[j]>> \in before
  BY <1>1, <1>3, <1>4, ArrangedFacts DEF n
<1>6. Permutes(Sorted(s), s)
  BY <1>5 DEF Permutes, n
<1>7. BestFirst(Sorted(s))
  <2> DEFINE t == Sorted(s)
  <2>1. DOMAIN t = 1..n /\ \A i \in 1..n : t[i] = s[o[i]]
    BY <1>5
  <2>2. SUFFICES ASSUME NEW i \in 1..n, NEW j \in 1..n, i < j PROVE t[i].score >= t[j].score
    BY <2>1 DEF BestFirst
  <2>3. Before(s, o[i], o[j])
    BY <1>2, <1>5, <2>2
  <2>4. o[i] \in 1..n /\ o[j] \in 1..n
    OBVIOUS
  <2>5. s[o[i]].score \in Int /\ s[o[j]].score \in Int
    BY <1>1, <2>4
  <2>6. s[o[i]].score >= s[o[j]].score
    BY <2>3, <2>5 DEF Before
  <2> QED  BY <2>1, <2>6
<1> QED  BY <1>6, <1>7, PermutesRanking

LEMMA TruncatedFacts ==
    ASSUME NEW X, NEW s \in Seq(X), NEW k \in Nat
    PROVE  LET t == Truncated(s, k)
               n == IF k < Len(s) THEN k ELSE Len(s)
           IN  /\ n \in Nat /\ n <= Len(s) /\ n <= k
               /\ t \in Seq(X) /\ Len(t) = n /\ DOMAIN t = 1..n
               /\ \A i \in 1..n : t[i] = s[i]
<1> DEFINE n == IF k < Len(s) THEN k ELSE Len(s)
           t == SubSeq(s, 1, n)
<1>1. Len(s) \in Nat /\ \A i \in 1..Len(s) : s[i] \in X
  BY LenProperties, ElementOfSeq
<1>2. n \in Nat /\ n <= Len(s) /\ n <= k
  BY <1>1
<1>3. t = Truncated(s, k)
  BY DEF Truncated
<1> HIDE DEF n
<1>4. \A i \in 1..n : s[i] \in X
  BY <1>1, <1>2
<1>5. t \in Seq(X) /\ Len(t) = (IF 1 <= n THEN n - 1 + 1 ELSE 0)
      /\ \A i \in 1..n - 1 + 1 : t[i] = s[1 + i - 1]
  BY <1>2, <1>4, SubSeqProperties
<1> HIDE DEF t
<1>6. Len(t) = n /\ \A i \in 1..n : t[i] = s[i]
  BY <1>2, <1>5
<1>7. DOMAIN t = 1..n
  BY <1>5, <1>6, LenProperties
<1> QED  BY <1>2, <1>3, <1>5, <1>6, <1>7 DEF n

LEMMA TruncatedRanking ==
    ASSUME NEW s \in Rankings, NEW k \in Nat
    PROVE  /\ Truncated(s, k) \in Rankings
           /\ Docs(Truncated(s, k)) \subseteq Docs(s)
           /\ BestFirst(s) => BestFirst(Truncated(s, k))
<1> DEFINE t == Truncated(s, k)
           n == IF k < Len(s) THEN k ELSE Len(s)
<1>1. /\ s \in Seq([doc : Int, score : Int]) /\ Len(s) \in Nat /\ DOMAIN s = 1..Len(s)
      /\ \A i, j \in 1..Len(s) : s[i].doc = s[j].doc => i = j
  BY RankingFacts
<1>2. /\ n \in Nat /\ n <= Len(s)
      /\ t \in Seq([doc : Int, score : Int]) /\ DOMAIN t = 1..n /\ \A i \in 1..n : t[i] = s[i]
  BY <1>1, TruncatedFacts
<1> HIDE DEF n, t
<1>3. t \in Rankings
  BY <1>1, <1>2 DEF Rankings
<1>4. Docs(t) \subseteq Docs(s)
  BY <1>1, <1>2 DEF Docs
<1>5. BestFirst(s) => BestFirst(t)
  BY <1>1, <1>2 DEF BestFirst
<1> QED  BY <1>3, <1>4, <1>5 DEF t

\* A list of k documents or more has k documents kept.
LEMMA TopkFacts ==
    ASSUME NEW s \in Rankings, NEW k \in Nat
    PROVE  /\ dict_topk(s, k) \in Rankings
           /\ HoldsTheBest(dict_topk(s, k), k, s)
<1> DEFINE t == Sorted(s)
           kept == dict_topk(s, k)
           n == IF k < Len(s) THEN k ELSE Len(s)
<1>1. Permutes(t, s) /\ BestFirst(t) /\ t \in Rankings
  BY SortedFacts
<1>2. Len(t) = Len(s) /\ Items(t) = Items(s)
  BY <1>1, PermutesRanking
<1>3. /\ t \in Seq([doc : Int, score : Int]) /\ Len(t) \in Nat /\ DOMAIN t = 1..Len(t)
      /\ \A i \in 1..Len(t) : t[i].score \in Int
  BY <1>1, RankingFacts
<1>4. kept = Truncated(t, k)
  BY DEF dict_topk
<1> HIDE DEF kept, t
<1>5. /\ n \in Nat /\ n <= Len(t)
      /\ Len(kept) = n /\ DOMAIN kept = 1..n /\ \A i \in 1..n : kept[i] = t[i]
  BY <1>2, <1>3, <1>4, TruncatedFacts, ZenonT(60)
<1>6. kept \in Rankings /\ BestFirst(kept)
  BY <1>1, <1>4, TruncatedRanking
<1> HIDE DEF n
<1>7. Items(kept) \subseteq Items(s)
  <2>1. \A i \in 1..n : i \in 1..Len(t) /\ kept[i] = t[i]
    BY <1>3, <1>5
  <2>2. Items(kept) \subseteq Items(t)
    BY <1>3, <1>5, <2>1 DEF Items
  <2> QED  BY <1>2, <2>2
<1>8. \A e \in Items(s) \ Items(kept), i \in DOMAIN kept : e.score <= kept[i].score
  <2> TAKE e \in Items(s) \ Items(kept), i \in DOMAIN kept
  <2>1. PICK j \in 1..Len(t) : e = t[j]
    BY <1>2, <1>3 DEF Items
  <2>2. ~(j \in 1..n)
    BY <1>5, <2>1 DEF Items
  <2>3. i \in 1..Len(t) /\ i < j
    BY <1>3, <1>5, <2>1, <2>2
  <2>4. t[i].score >= t[j].score
    BY <1>1, <1>3, <2>3 DEF BestFirst
  <2> QED  BY <1>3, <1>5, <2>1, <2>3, <2>4
<1> QED  BY <1>5, <1>6, <1>7, <1>8 DEF HoldsTheBest, n, kept

LEMMA DocsCount ==
    ASSUME NEW s \in Rankings
    PROVE  IsFiniteSet(Docs(s)) /\ Cardinality(Docs(s)) = Len(s)
<1> DEFINE n == Len(s)
           f == [i \in 1..n |-> s[i].doc]
<1>1. n \in Nat /\ DOMAIN s = 1..n /\ \A i, j \in 1..n : s[i].doc = s[j].doc => i = j
  BY RankingFacts
<1>2. Docs(s) = {f[i] : i \in 1..n}
  BY <1>1 DEF Docs
<1>3. f \in [1..n -> Docs(s)] /\ \A i, j \in 1..n : f[i] = f[j] => i = j
  BY <1>1, <1>2
<1> HIDE DEF f, n
<1>4. f \in Bijection(1..n, Docs(s))
  BY <1>2, <1>3 DEF Bijection, Injection, IsInjective, Surjection
<1>5. ExistsBijection(1..n, Docs(s))
  BY <1>4 DEF ExistsBijection
<1>6. Cardinality(Docs(s)) = n /\ IsFiniteSet(Docs(s))
  BY <1>1, <1>5, FS_CountingElements, FS_NatBijection
<1> QED  BY <1>6 DEF n

LEMMA TopkKeepsOrFills ==
    ASSUME NEW s \in Rankings, NEW k \in Nat
    PROVE  LET t == dict_topk(s, k)
           IN  /\ Docs(t) \subseteq Docs(s)
               /\ Docs(t) = Docs(s) \/ Cardinality(Docs(t)) = k
<1> DEFINE t == dict_topk(s, k)
<1>1. t \in Rankings /\ Len(t) = (IF k < Len(s) THEN k ELSE Len(s)) /\ Items(t) \subseteq Items(s)
  BY TopkFacts DEF HoldsTheBest
<1> HIDE DEF t
<1>2. Docs(t) \subseteq Docs(s)
  BY <1>1, DocsOfItems
<1>3. IsFiniteSet(Docs(s)) /\ Cardinality(Docs(s)) = Len(s) /\ Cardinality(Docs(t)) = Len(t)
  BY <1>1, DocsCount
<1>4. CASE k < Len(s)
  BY <1>1, <1>2, <1>3, <1>4 DEF t
<1>5. CASE ~(k < Len(s))
  <2>1. Docs(t) = Docs(s)
    BY <1>1, <1>2, <1>3, <1>5, FS_Subset
  <2> QED  BY <2>1 DEF t
<1> QED  BY <1>4, <1>5

\* The best k of what a search found, whether k or more were asked for.
LEMMA CutFirst ==
    ASSUME NEW all \in Rankings, BestFirst(all), NEW k \in Nat, NEW m \in Nat, k <= m,
           NEW a \in Rankings, Items(a) = Items(Truncated(all, k)), Len(a) = Len(Truncated(all, k)),
           NEW b \in Rankings, Items(b) = Items(Truncated(all, m)), Len(b) = Len(Truncated(all, m))
    PROVE  HoldsTheBest(dict_topk(a, k), k, b)
<1> DEFINE kept == dict_topk(a, k)
           nk == IF k < Len(all) THEN k ELSE Len(all)
           nm == IF m < Len(all) THEN m ELSE Len(all)
           cutk == Truncated(all, k)
           cutm == Truncated(all, m)
<1>1. /\ all \in Seq([doc : Int, score : Int]) /\ Len(all) \in Nat /\ DOMAIN all = 1..Len(all)
      /\ \A i \in 1..Len(all) : all[i].score \in Int
  BY RankingFacts
<1>2. /\ nk \in Nat /\ nk <= Len(all) /\ nk <= k
      /\ Len(cutk) = nk /\ DOMAIN cutk = 1..nk /\ \A i \in 1..nk : cutk[i] = all[i]
  BY <1>1, TruncatedFacts, ZenonT(60)
<1>3. /\ nm \in Nat /\ nm <= Len(all)
      /\ Len(cutm) = nm /\ DOMAIN cutm = 1..nm /\ \A i \in 1..nm : cutm[i] = all[i]
  BY <1>1, TruncatedFacts, ZenonT(60)
<1>4. kept \in Rankings /\ HoldsTheBest(kept, k, a)
  BY TopkFacts
<1> HIDE DEF kept, cutk, cutm
<1>5. /\ Len(kept) = (IF k < nk THEN k ELSE nk) /\ Items(kept) \subseteq Items(cutk)
      /\ BestFirst(kept)
  BY <1>2, <1>4 DEF HoldsTheBest, cutk
<1>6. Len(kept) = IF k < Len(b) THEN k ELSE Len(b)
  BY <1>1, <1>2, <1>3, <1>5 DEF cutm
<1>7. nk <= nm
  BY <1>1
<1> HIDE DEF nk, nm
<1>8. Items(cutk) \subseteq Items(cutm)
  BY <1>2, <1>3, <1>7 DEF Items
<1>9. \A e \in Items(b) \ Items(kept), i \in DOMAIN kept : e.score <= kept[i].score
  <2> TAKE e \in Items(b) \ Items(kept), i \in DOMAIN kept
  <2>1. PICK x \in 1..nk : kept[i] = all[x]
    <3>1. kept[i] \in Items(cutk)
      BY <1>5 DEF Items
    <3> QED  BY <1>2, <3>1 DEF Items
  <2>2. PICK y \in 1..nm : e = all[y]
    <3>1. e \in Items(cutm)
      BY DEF cutm
    <3> QED  BY <1>3, <3>1 DEF Items
  <2>3. CASE y > nk
    <3>1. x \in 1..Len(all) /\ y \in 1..Len(all) /\ x < y
      BY <1>1, <1>2, <1>3, <2>3
    <3>2. all[x].score >= all[y].score
      BY <1>1, <3>1 DEF BestFirst
    <3> QED  BY <1>1, <2>1, <2>2, <3>1, <3>2
  <2>4. CASE y <= nk
    <3>1. e \in Items(a)
      <4>1. y \in 1..nk /\ e = cutk[y]
        BY <1>2, <1>3, <2>2, <2>4
      <4>2. e \in Items(cutk)
        BY <1>2, <4>1 DEF Items
      <4> QED  BY <4>2 DEF cutk
    <3> QED  BY <1>4, <3>1 DEF HoldsTheBest
  <2> QED  BY <1>2, <1>3, <2>3, <2>4
<1>10. Items(kept) \subseteq Items(b)
  BY <1>5, <1>8 DEF cutm
<1> QED  BY <1>5, <1>6, <1>9, <1>10 DEF HoldsTheBest, kept

-----------------------------------------------------------------------------
(***************************************************************************)
(* Fuse.  The totals are numbers: the partial sums of any list of numbers  *)
(* exist, so that the recursive function in Total is one.                  *)
(***************************************************************************)
Sums(w, g) == g[0] = 0 /\ \A n \in 1..Len(w) : g[n] = g[n - 1] + w[n]

LEMMA SumsExist ==
    ASSUME NEW w \in Seq(Int)
    PROVE  \E g \in [0..Len(w) -> Int] : Sums(w, g)
<1> DEFINE Up(n) == \E g \in [0..n -> Int] :
                        g[0] = 0 /\ \A i \in 1..n : g[i] = g[i - 1] + w[i]
           Bad == {n \in 0..Len(w) : ~Up(n)}
<1>1. Len(w) \in Nat /\ \A i \in 1..Len(w) : w[i] \in Int
  BY ElementOfSeq, LenProperties
<1>2. Bad = {}
  <2>1. SUFFICES ASSUME Bad # {} PROVE FALSE
    OBVIOUS
  <2>2. Bad \subseteq Nat
    BY <1>1
  <2>3. PICK n \in Bad : \A m \in Bad : n <= m
    BY <2>1, <2>2, LeastNumber
  <2>4. n \in 0..Len(w) /\ ~Up(n)
    OBVIOUS
  <2>5. n # 0
    <3>1. Up(0)
      <4> WITNESS [i \in 0..0 |-> 0] \in [0..0 -> Int]
      <4> QED  OBVIOUS
    <3> QED  BY <2>4, <3>1
  <2>6. n - 1 \in 0..Len(w) /\ n \in 1..Len(w) /\ n \in Nat
    BY <1>1, <2>4, <2>5
  <2>7. Up(n - 1)
    <3> HIDE DEF Up
    <3>1. n - 1 \notin Bad
      <4> HIDE DEF Bad
      <4> QED  BY <2>3, <2>6
    <3> QED  BY <2>6, <3>1
  <2>8. PICK g \in [0..n - 1 -> Int] :
            g[0] = 0 /\ \A i \in 1..n - 1 : g[i] = g[i - 1] + w[i]
    BY <2>7
  <2> DEFINE h == [i \in 0..n |-> IF i = n THEN g[n - 1] + w[n] ELSE g[i]]
  <2>9. h \in [0..n -> Int]
    BY <1>1, <2>6, <2>8
  <2>10. h[0] = 0
    BY <2>5, <2>6, <2>8
  <2>11. \A i \in 1..n : h[i] = h[i - 1] + w[i]
    BY <1>1, <2>6, <2>8
  <2>12. Up(n)
    BY <2>9, <2>10, <2>11
  <2> QED  BY <2>4, <2>12
<1>3. Up(Len(w))
  <2> HIDE DEF Up
  <2> QED  BY <1>1, <1>2
<1> QED  BY <1>3 DEF Sums

\* A function that adds up numbers as it goes adds up to a number.
LEMMA SumsAreNumbers ==
    ASSUME NEW w \in Seq(Int), NEW g, Sums(w, g)
    PROVE  g[Len(w)] \in Int
<1>1. PICK h \in [0..Len(w) -> Int] : Sums(w, h)
  BY SumsExist
<1> DEFINE Bad == {n \in 0..Len(w) : g[n] # h[n]}
<1>2. Len(w) \in Nat
  BY LenProperties
<1>3. Bad = {}
  <2>1. SUFFICES ASSUME Bad # {} PROVE FALSE
    OBVIOUS
  <2>2. Bad \subseteq Nat
    BY <1>2
  <2>3. PICK n \in Bad : \A m \in Bad : n <= m
    BY <2>1, <2>2, LeastNumber
  <2>4. n \in 1..Len(w)
    BY <1>1, <1>2 DEF Sums
  <2>5. n - 1 \in 0..Len(w) /\ n - 1 \notin Bad
    BY <1>2, <2>3, <2>4
  <2>6. g[n] = g[n - 1] + w[n] /\ h[n] = h[n - 1] + w[n]
    BY <1>1, <2>4 DEF Sums
  <2> QED  BY <2>5, <2>6
<1>4. Len(w) \in 0..Len(w)
  BY <1>2
<1> QED  BY <1>1, <1>3, <1>4

Worths(rankings, worth) ==
    \A n \in 1..Len(rankings) : \A i \in DOMAIN rankings[n] : worth[n][i] \in Int

LEMMA TotalIsNumber ==
    ASSUME NEW rankings \in Seq(Rankings), NEW worth, Worths(rankings, worth), NEW doc
    PROVE  Total(rankings, worth, doc) \in Int
<1> DEFINE N == Len(rankings)
           places(n) == {i \in DOMAIN rankings[n] : rankings[n][i].doc = doc}
           share(n) == IF places(n) = {} THEN 0 ELSE worth[n][CHOOSE i \in places(n) : TRUE]
           w == [n \in 1..N |-> share(n)]
           F(f) == [n \in 0..N |-> IF n = 0 THEN 0 ELSE f[n - 1] + share(n)]
           s == CHOOSE f : f = F(f)
<1>1. N \in Nat
  BY LenProperties
<1>2. \A n \in 1..N : share(n) \in Int
  <2> TAKE n \in 1..N
  <2>1. CASE places(n) = {}
    BY <2>1
  <2>2. CASE places(n) # {}
    <3>1. (CHOOSE i \in places(n) : TRUE) \in places(n)
      BY <2>2
    <3>2. (CHOOSE i \in places(n) : TRUE) \in DOMAIN rankings[n]
      BY <3>1
    <3> QED  BY <2>2, <3>2 DEF Worths
  <2> QED  BY <2>1, <2>2
<1>3. Total(rankings, worth, doc) = s[N]
  BY DEF Total
<1> HIDE DEF share, N
<1>4. w \in Seq(Int) /\ Len(w) = N /\ \A n \in 1..N : w[n] = share(n)
  <2>1. w \in Seq(Int)
    BY <1>1, <1>2, IsASeq
  <2> QED  BY <1>1, <2>1, LenProperties
<1>5. PICK h \in [0..N -> Int] : Sums(w, h)
  BY <1>4, SumsExist
<1> HIDE DEF w
<1>6. h = F(h)
  BY <1>1, <1>4, <1>5 DEF Sums
<1>7. s = F(s)
  BY <1>6
<1> HIDE DEF s
<1>8. Sums(w, s)
  BY <1>1, <1>4, <1>7 DEF Sums
<1>9. s[Len(w)] \in Int
  BY <1>4, <1>8, SumsAreNumbers
<1> QED  BY <1>3, <1>4, <1>9

LEMMA ShownFinite ==
    ASSUME NEW rankings \in Seq(Rankings)
    PROVE  IsFiniteSet(Shown(rankings))
<1> DEFINE N == Len(rankings)
           row(n) == {<<n, i>> : i \in DOMAIN rankings[n]}
           rows == {row(n) : n \in 1..N}
<1>1. N \in Nat /\ DOMAIN rankings = 1..N /\ \A n \in 1..N : rankings[n] \in Rankings
  BY LenProperties, ElementOfSeq
<1>2. \A n \in 1..N : IsFiniteSet(row(n))
  <2> TAKE n \in 1..N
  <2> DEFINE m == Len(rankings[n])
  <2>1. m \in Nat /\ DOMAIN rankings[n] = 1..m
    BY <1>1, RankingFacts
  <2> HIDE DEF m
  <2>2. IsFiniteSet(1..m)
    BY <2>1, FS_Interval
  <2>5. IsFiniteSet({n})
    BY FS_Singleton
  <2>3. IsFiniteSet({n} \X (1..m))
    BY <2>2, <2>5, FS_Product
  <2>4. row(n) \subseteq {n} \X (1..m)
    BY <2>1
  <2> HIDE DEF row
  <2> QED  BY <2>3, <2>4, FS_Subset
<1>3. IsFiniteSet(rows)
  <2>1. IsFiniteSet(1..N)
    BY <1>1, FS_Interval
  <2> DEFINE f == [n \in 1..N |-> row(n)]
  <2>2. f \in Surjection(1..N, rows)
    <3> HIDE DEF row
    <3> QED  BY DEF Surjection
  <2> HIDE DEF f, rows
  <2> QED  BY <2>1, <2>2, FS_Surjection
<1>4. Shown(rankings) = UNION rows
  BY <1>1 DEF Shown
<1>5. \A r \in rows : IsFiniteSet(r)
  BY <1>2
<1> HIDE DEF rows
<1> QED  BY <1>3, <1>4, <1>5, FS_UNION

LEMMA FuseFacts ==
    ASSUME NEW rankings \in Seq(Rankings), NEW worth, Worths(rankings, worth)
    PROVE  Fuse(rankings, worth) \in Rankings
<1> DEFINE firsts == FirstShown(rankings)
           before == {p \in firsts \X firsts : Earlier(p[1], p[2])}
           order == ListBy(firsts, before)
           item(r) == [doc |-> DocAt(rankings, order[r]),
                       score |-> Total(rankings, worth, DocAt(rankings, order[r]))]
           n == Cardinality(firsts)
           f == [r \in 1..n |-> item(r)]
<1>1. DOMAIN rankings = 1..Len(rankings) /\ \A k \in 1..Len(rankings) : rankings[k] \in Rankings
  BY LenProperties, ElementOfSeq
<1>2. \A p \in Shown(rankings) :
          /\ p = <<p[1], p[2]>> /\ p[1] \in Int /\ p[2] \in Int
          /\ DocAt(rankings, p) \in Int
  <2> TAKE p \in Shown(rankings)
  <2>1. PICK k \in 1..Len(rankings) : \E i \in DOMAIN rankings[k] : p = <<k, i>>
    BY <1>1 DEF Shown
  <2>2. PICK i \in DOMAIN rankings[k] : p = <<k, i>>
    BY <2>1
  <2>3. rankings[k] \in Rankings
    BY <1>1
  <2>4. i \in 1..Len(rankings[k]) /\ Len(rankings[k]) \in Nat /\ rankings[k][i].doc \in Int
    BY <2>3, RankingFacts
  <2> QED  BY <2>2, <2>4, LenProperties DEF DocAt
<1>3. firsts \subseteq Shown(rankings)
  BY DEF FirstShown
<1>4. \A p, q \in firsts : Earlier(p, q) => DocAt(rankings, p) # DocAt(rankings, q)
  BY <1>3 DEF FirstShown
<1>5. IsFiniteSet(firsts)
  BY <1>3, ShownFinite, FS_Subset
<1> HIDE DEF firsts
<1>6. \A p, q \in firsts : <<p, q>> \in before <=> Earlier(p, q)
  OBVIOUS
<1> HIDE DEF before
<1>7. Orders(before, firsts)
  <2>1. \A p \in firsts : ~Earlier(p, p)
    BY <1>2, <1>3 DEF Earlier
  <2>2. ASSUME NEW p \in firsts, NEW q \in firsts, NEW r \in firsts, Earlier(p, q), Earlier(q, r)
        PROVE  Earlier(p, r)
    <3>1. /\ p[1] \in Int /\ p[2] \in Int /\ q[1] \in Int
          /\ q[2] \in Int /\ r[1] \in Int /\ r[2] \in Int
      BY <1>2, <1>3
    <3> QED  BY <2>2, <3>1 DEF Earlier
  <2>3. ASSUME NEW p \in firsts, NEW q \in firsts, p # q
        PROVE  Earlier(p, q) \/ Earlier(q, p)
    <3>1. p = <<p[1], p[2]>> /\ q = <<q[1], q[2]>>
      BY <1>2, <1>3
    <3>2. p[1] \in Int /\ p[2] \in Int /\ q[1] \in Int /\ q[2] \in Int
      BY <1>2, <1>3
    <3>3. p[1] # q[1] \/ p[2] # q[2]
      BY <2>3, <3>1
    <3> QED  BY <3>2, <3>3 DEF Earlier
  <2> QED  BY <1>6, <2>1, <2>2, <2>3 DEF Orders
<1>8. Enumerates(order, firsts, before)
  BY <1>5, <1>7, ListByEnumerates
<1>9. n \in Nat
  BY <1>5, FS_CardinalityType
<1> HIDE DEF order
<1>10. Fuse(rankings, worth) = Made(f)
  BY DEF Fuse, firsts, before, order
<1> HIDE DEF n
<1>11. Len(order) = n /\ \A r \in 1..n : order[r] \in firsts
  <2>1. order \in Seq(firsts) /\ Len(order) = n
    BY <1>8 DEF Enumerates, n
  <2> QED  BY <2>1, ElementOfSeq
<1>12. \A r \in 1..n : item(r) \in [doc : Int, score : Int]
  BY <1>2, <1>3, <1>11, TotalIsNumber
<1>13. \A r, t \in 1..n : item(r).doc = item(t).doc => r = t
  <2> TAKE r, t \in 1..n
  <2> HAVE item(r).doc = item(t).doc
  <2>1. DocAt(rankings, order[r]) = DocAt(rankings, order[t])
    OBVIOUS
  <2>2. order[r] \in firsts /\ order[t] \in firsts
    BY <1>11
  <2>3. ~Earlier(order[r], order[t]) /\ ~Earlier(order[t], order[r])
    BY <1>4, <2>1, <2>2
  <2>4. ~(r < t) /\ ~(t < r)
    BY <1>6, <1>8, <1>11, <2>2, <2>3 DEF Enumerates
  <2> QED  BY <1>9, <2>4
<1> HIDE DEF item
<1>14. DOMAIN f = 1..n /\ f = [r \in 1..n |-> f[r]] /\ \A r \in 1..n : f[r] = item(r)
  OBVIOUS
<1> HIDE DEF f
<1>15. Made(f) = f /\ Len(f) = n /\ f \in Seq({f[r] : r \in 1..n})
  BY <1>9, <1>14, MadeFrom
<1>16. f \in Seq([doc : Int, score : Int])
  <2>1. {f[r] : r \in 1..n} \subseteq [doc : Int, score : Int]
    BY <1>12, <1>14
  <2> QED  BY <1>15, <2>1, SeqMonotonic
<1>17. \A r, t \in DOMAIN f : f[r].doc = f[t].doc => r = t
  BY <1>13, <1>14
<1>18. f \in Rankings
  BY <1>16, <1>17 DEF Rankings
<1> QED  BY <1>10, <1>15, <1>18

LEMMA FusedRankings ==
    ASSUME NEW rankings \in Seq(Rankings)
    PROVE  rrf(rankings) \in Rankings /\ score_fusion(rankings) \in Rankings
<1> DEFINE N == Len(rankings)
           f == [n \in 1..N |-> Sorted(rankings[n])]
           one == [n \in DOMAIN f |-> [i \in DOMAIN f[n] |-> Unit \div i]]
           own == [n \in DOMAIN rankings |-> [i \in DOMAIN rankings[n] |-> rankings[n][i].score]]
<1>1. N \in Nat /\ DOMAIN rankings = 1..N /\ \A n \in 1..N : rankings[n] \in Rankings
  BY LenProperties, ElementOfSeq
<1>2. rrf(rankings) = Fuse(Made([n \in DOMAIN rankings |-> Sorted(rankings[n])]),
          [n \in DOMAIN Made([n \in DOMAIN rankings |-> Sorted(rankings[n])]) |->
              [i \in DOMAIN Made([m \in DOMAIN rankings |-> Sorted(rankings[m])])[n] |-> Unit \div i]])
  BY DEF rrf
<1>3. \A n \in 1..N : Sorted(rankings[n]) \in Rankings
  BY <1>1, SortedFacts
<1>4. DOMAIN f = 1..N /\ f = [n \in 1..N |-> f[n]] /\ \A n \in 1..N : f[n] \in Rankings
  BY <1>3
<1>5. rrf(rankings) = Fuse(Made(f), [n \in DOMAIN Made(f) |-> [i \in DOMAIN Made(f)[n] |-> Unit \div i]])
  BY <1>1, <1>2
<1> HIDE DEF f, N
<1>6. Made(f) = f /\ Len(f) = N /\ f \in Seq({f[n] : n \in 1..N})
  BY <1>1, <1>4, MadeFrom
<1>7. f \in Seq(Rankings)
  BY <1>4, <1>6, SeqMonotonic
<1>8. Worths(f, one)
  <2> SUFFICES ASSUME NEW n \in 1..Len(f), NEW i \in DOMAIN f[n] PROVE one[n][i] \in Int
    BY DEF Worths
  <2>1. f[n] \in Rankings
    BY <1>4, <1>6
  <2>2. i \in 1..Len(f[n]) /\ Len(f[n]) \in Nat
    BY <2>1, RankingFacts
  <2>3. one[n][i] = Unit \div i
    BY <1>4, <1>6
  <2>4. i \in Nat /\ i > 0
    BY <2>2
  <2> QED  BY <2>3, <2>4 DEF Unit
<1>9. Worths(rankings, own)
  <2> SUFFICES ASSUME NEW n \in 1..Len(rankings), NEW i \in DOMAIN rankings[n]
               PROVE  own[n][i] \in Int
    BY DEF Worths
  <2>1. rankings[n] \in Rankings
    BY <1>1 DEF N
  <2>2. rankings[n][i].score \in Int
    BY <2>1, RankingFacts
  <2> QED  BY <1>1, <2>2 DEF N
<1>10. rrf(rankings) \in Rankings
  BY <1>5, <1>6, <1>7, <1>8, FuseFacts
<1>11. score_fusion(rankings) \in Rankings
  BY <1>9, FuseFacts DEF score_fusion
<1> QED  BY <1>10, <1>11

-----------------------------------------------------------------------------
(***************************************************************************)
(* One call.  The dicts that travel from stage to stage are WellFormed;    *)
(* the one that a merger is given may have the rankings of the branches    *)
(* as its "scores".                                                        *)
(***************************************************************************)
Fields == {"query", "scores", "queries", "expanded_queries"}

DictOf == [is : {"dict"}, of : Rankings]
ListsOf == [is : {"list"}, of : Seq(Rankings)]

DictWith(d, scores) ==
    /\ DOMAIN d \subseteq Fields
    /\ "query" \in DOMAIN d => d["query"] \in Queries
    /\ "scores" \in DOMAIN d => d["scores"] \in scores
    /\ "queries" \in DOMAIN d => d["queries"] \in Seq(Queries)

WellFormed(d) == DictWith(d, DictOf)

MergerDict(d) == DictWith(d, DictOf \union ListsOf) /\ "scores" \in DOMAIN d

IsRaise(ret) == Raised(ret) /\ ret = Raise(ret.raised)

Outcome(ret, promised) == IsRaise(ret) \/ (WellFormed(ret) /\ promised \in DOMAIN ret)

IsCall(call) ==
    /\ DOMAIN call = {"kind", "name", "limit", "view", "role"}
    /\ call.limit \in Nat \union {NoLimit} /\ call.role \in DOMAIN _role_to_service

LEMMA PlusFacts ==
    ASSUME NEW a, NEW b
    PROVE  /\ DOMAIN (a ++ b) = DOMAIN a \union DOMAIN b
           /\ \A f \in DOMAIN a : (a ++ b)[f] = a[f]
           /\ \A f \in DOMAIN b : f \notin DOMAIN a => (a ++ b)[f] = b[f]
BY DEF ++

LEMMA RaiseFacts == ASSUME NEW c PROVE IsRaise(Raise(c)) /\ Raised(Raise(c)) /\ DOMAIN Raise(c) = {"raised"}
BY DEF IsRaise, Raised, Raise

LEMMA WellFormedNotRaised ==
    ASSUME NEW d, WellFormed(d)
    PROVE  ~Raised(d) /\ "status" \notin DOMAIN d /\ "limit" \notin DOMAIN d
BY DEF WellFormed, DictWith, Fields, Raised

\* What a stage is asked, and for how many.
Asked(query, last) == Field(last, "query", query)
Wanted(call) == IF call.limit = NoLimit THEN 1000 ELSE call.limit

LEMMA PayloadFacts ==
    ASSUME NEW call, NEW query, NEW last, "limit" \notin DOMAIN last
    PROVE  LET p == Payload(call, query, last)
           IN  /\ "query" \in DOMAIN p /\ p["query"] = Asked(query, last)
               /\ "limit" \in DOMAIN p <=> call.limit # NoLimit
               /\ call.limit # NoLimit => p["limit"] = call.limit
               /\ "scores" \in DOMAIN last => "scores" \in DOMAIN p /\ p["scores"] = last["scores"]
<1> DEFINE a == IF call.limit = NoLimit THEN <<>> ELSE [limit |-> call.limit]
           b == [query |-> query]
           p == Payload(call, query, last)
<1>1. /\ DOMAIN a = (IF call.limit = NoLimit THEN {} ELSE {"limit"})
      /\ call.limit # NoLimit => a["limit"] = call.limit
  <2>1. DOMAIN <<>> = {}
    OBVIOUS
  <2> QED  BY <2>1
<1>2. DOMAIN b = {"query"} /\ b["query"] = query
  OBVIOUS
<1>3. p = a ++ (last ++ b)
  BY DEF Payload
<1> HIDE DEF a, b, p
<1>4. /\ DOMAIN p = DOMAIN a \union (DOMAIN last \union DOMAIN b)
      /\ \A f \in DOMAIN a : p[f] = a[f]
      /\ \A f \in DOMAIN last \union DOMAIN b : f \notin DOMAIN a => p[f] = (last ++ b)[f]
      /\ \A f \in DOMAIN last : (last ++ b)[f] = last[f]
      /\ \A f \in DOMAIN b : f \notin DOMAIN last => (last ++ b)[f] = b[f]
  <2> DEFINE c == last ++ b
  <2>1. /\ DOMAIN c = DOMAIN last \union DOMAIN b
        /\ \A f \in DOMAIN last : c[f] = last[f]
        /\ \A f \in DOMAIN b : f \notin DOMAIN last => c[f] = b[f]
    BY PlusFacts
  <2> HIDE DEF c
  <2>2. /\ DOMAIN (a ++ c) = DOMAIN a \union DOMAIN c
        /\ \A f \in DOMAIN a : (a ++ c)[f] = a[f]
        /\ \A f \in DOMAIN c : f \notin DOMAIN a => (a ++ c)[f] = c[f]
    BY PlusFacts
  <2> QED  BY <1>3, <2>1, <2>2 DEF c
<1>5. "query" \in DOMAIN p /\ p["query"] = Asked(query, last)
  <2>1. "query" \notin DOMAIN a
    BY <1>1
  <2>2. CASE "query" \in DOMAIN last
    BY <1>2, <1>4, <2>1, <2>2 DEF Asked, Field
  <2>3. CASE "query" \notin DOMAIN last
    BY <1>2, <1>4, <2>1, <2>3 DEF Asked, Field
  <2> QED  BY <2>2, <2>3
<1>6. "limit" \in DOMAIN p <=> call.limit # NoLimit
  BY <1>1, <1>2, <1>4
<1>7. call.limit # NoLimit => p["limit"] = call.limit
  BY <1>1, <1>4
<1>8. "scores" \in DOMAIN last => "scores" \in DOMAIN p /\ p["scores"] = last["scores"]
  BY <1>1, <1>4
<1> QED  BY <1>5, <1>6, <1>7, <1>8 DEF p

LEMMA SearchPayloadIs ==
    ASSUME NEW call, NEW query, NEW last, "limit" \notin DOMAIN last
    PROVE  SearchPayload(Payload(call, query, last)) =
               [query |-> Asked(query, last), limit |-> Wanted(call)]
<1> DEFINE p == Payload(call, query, last)
           a == Taken(p, {"query", "limit"})
           b == [limit |-> 1000]
           r == [query |-> Asked(query, last), limit |-> Wanted(call)]
<1>1. /\ "query" \in DOMAIN p /\ p["query"] = Asked(query, last)
      /\ "limit" \in DOMAIN p <=> call.limit # NoLimit
      /\ call.limit # NoLimit => p["limit"] = call.limit
  BY PayloadFacts
<1> HIDE DEF p
<1>2. /\ DOMAIN a = DOMAIN p \intersect {"query", "limit"}
      /\ \A f \in DOMAIN a : a[f] = p[f]
  BY DEF Taken
<1>3. DOMAIN b = {"limit"} /\ b["limit"] = 1000
  OBVIOUS
<1>4. SearchPayload(p) = a ++ b
  BY DEF SearchPayload
<1> HIDE DEF a, b
<1>5. /\ a ++ b = [f \in DOMAIN a \union DOMAIN b |-> IF f \in DOMAIN a THEN a[f] ELSE b[f]]
      /\ DOMAIN a \union DOMAIN b = {"query", "limit"}
  BY <1>1, <1>2, <1>3 DEF ++
<1>6. r = [f \in {"query", "limit"} |-> IF f \in DOMAIN a THEN a[f] ELSE b[f]]
  BY <1>1, <1>2, <1>3 DEF Wanted
<1> QED  BY <1>4, <1>5, <1>6 DEF p

-----------------------------------------------------------------------------
\* s again, its items in some order.
Same(t, s) == t \in Rankings /\ Len(t) = Len(s) /\ Items(t) = Items(s)

LEMMA AsMapFacts ==
    ASSUME NEW s \in Rankings
    PROVE  \E t : AsMap(Dict(s)) = Dict(t) /\ Same(t, s)
<1> DEFINE n == Len(s)
           t == Arranged(s, ById(s))
<1>1. /\ s \in Seq([doc : Int, score : Int]) /\ n \in Nat /\ DOMAIN s = 1..n
      /\ \A i \in 1..n : s[i].doc \in Int
      /\ \A i, j \in 1..n : s[i].doc = s[j].doc => i = j
  BY RankingFacts
<1>2. \A i, j \in 1..n : <<i, j>> \in ById(s) <=> s[i].doc < s[j].doc
  BY <1>1 DEF ById
<1> HIDE DEF n
<1>3. Orders(ById(s), 1..n)
  <2>1. \A i \in 1..n : <<i, i>> \notin ById(s)
    BY <1>1, <1>2, SMTT(60)
  <2>2. ASSUME NEW i \in 1..n, NEW j \in 1..n, NEW k \in 1..n,
               s[i].doc < s[j].doc, s[j].doc < s[k].doc
        PROVE  s[i].doc < s[k].doc
    <3>1. s[i].doc \in Int /\ s[j].doc \in Int /\ s[k].doc \in Int
      BY <1>1
    <3> QED  BY <2>2, <3>1
  <2>3. ASSUME NEW i \in 1..n, NEW j \in 1..n, i # j
        PROVE  s[i].doc < s[j].doc \/ s[j].doc < s[i].doc
    <3>1. s[i].doc \in Int /\ s[j].doc \in Int /\ s[i].doc # s[j].doc
      BY <1>1, <2>3
    <3> QED  BY <3>1
  <2> QED  BY <1>2, <2>1, <2>2, <2>3 DEF Orders
<1>4. Permutes(t, s)
  <2>1. PICK o \in [1..n -> 1..n] :
            /\ t = [i \in 1..n |-> s[o[i]]]
            /\ \A i, j \in 1..n : o[i] = o[j] => i = j
            /\ \A k \in 1..n : \E i \in 1..n : o[i] = k
    <3> DEFINE before == ById(s)
    <3>1. s \in Seq([doc : Int, score : Int]) /\ Orders(before, 1..Len(s))
      BY <1>1, <1>3 DEF n
    <3> HIDE DEF before
    <3>2. \E o \in [1..Len(s) -> 1..Len(s)] :
              /\ Arranged(s, before) = [i \in 1..Len(s) |-> s[o[i]]]
              /\ \A i, j \in 1..Len(s) : o[i] = o[j] => i = j
              /\ \A k \in 1..Len(s) : \E i \in 1..Len(s) : o[i] = k
              /\ \A i, j \in 1..Len(s) : i < j => <<o[i], o[j]>> \in before
      BY <3>1, ArrangedFacts
    <3> QED  BY <3>2 DEF n, before
  <2> QED  BY <2>1 DEF Permutes, n
<1>5. Same(t, s)
  BY <1>4, PermutesRanking DEF Same
<1>6. AsMap(Dict(s)) = Dict(t)
  BY DEF AsMap, Dict
<1> QED  BY <1>5, <1>6

LEMMA RankedFacts ==
    ASSUME NEW name, IsRanker(name), NEW q \in Queries, NEW k \in Nat
    PROVE  LET s == Truncated(Hits[name][q], k)
           IN  Ranked(name, q, k) = Dict(s) /\ s \in Rankings /\ BestFirst(Hits[name][q])
<1>1. Hits[name][q] \in Rankings /\ BestFirst(Hits[name][q])
  BY DEF IsRanker
<1> QED  BY <1>1, TruncatedRanking DEF Ranked

LEMMA DictFacts == ASSUME NEW s PROVE Dict(s).of = s /\ Dict(s).is = "dict" /\ (s \in Rankings => Dict(s) \in DictOf)
BY DEF Dict, DictOf

\* What a Reranker that searches finds among the hits of its upstream engine.
FoundBy(engine, q, k, kept) ==
    \E z \in Rankings :
        /\ kept = dict_topk(z, k)
        /\ Docs(z) = Docs(Ranked(engine.upstream, q, UpstreamLimit(k)).of)
        /\ \A e \in Items(z) : e.score = Score[engine.scorer][q][e.doc]

LEMMA RerankedSearchFacts ==
    ASSUME NEW engine, IsRanker(engine.upstream), IsScorer(engine.scorer),
           NEW q \in Queries, NEW k \in Nat
    PROVE  \/ RerankedSearch(engine, q, k) = Raise("RuntimeError")
           \/ \E kept \in Rankings :
                  /\ RerankedSearch(engine, q, k) = [scores |-> Dict(kept)]
                  /\ FoundBy(engine, q, k, kept)
<1> DEFINE found == Ranked(engine.upstream, q, UpstreamLimit(k)).of
           scored == Score[engine.scorer][q]
           raw == [i \in DOMAIN found |-> scored[found[i].doc]]
           z == Zipped(found, raw)
           n == Len(found)
<1>1. UpstreamLimit(k) \in Nat
  BY RerankerAssumption DEF UpstreamLimit
<1>2. found \in Rankings
  BY <1>1, RankedFacts, DictFacts
<1>3. /\ n \in Nat /\ DOMAIN found = 1..n
      /\ \A i \in 1..n : found[i].doc \in Int
      /\ \A i, j \in 1..n : found[i].doc = found[j].doc => i = j
  BY <1>2, RankingFacts
<1>4. RerankedSearch(engine, q, k) =
          OrRaise(IF \A d \in Docs(found) : [e \in Docs(found) |-> e \in Readable][d]
                  THEN <<dict_topk(z, k)>> ELSE <<>>)
  BY DEF RerankedSearch, search_batch, get_text
<1> HIDE DEF found, n
<1>5. CASE \A d \in Docs(found) : d \in Readable
  <2>1. \A i \in 1..n : found[i].doc \in Readable
    BY <1>3, <1>5 DEF Docs
  <2>2. \A i \in 1..n : raw[i] = scored[found[i].doc] /\ raw[i] \in Int
    BY <1>3, <2>1 DEF IsScorer
  <2> HIDE DEF raw, scored
  <2>3. /\ DOMAIN z = 1..n /\ z = [i \in 1..n |-> z[i]]
        /\ \A i \in 1..n : z[i] = [doc |-> found[i].doc, score |-> raw[i]]
    BY <1>3 DEF Zipped
  <2> HIDE DEF z
  <2>4. \A i \in 1..n : z[i] \in [doc : Int, score : Int]
    BY <1>3, <2>2, <2>3
  <2>6. z \in Seq([doc : Int, score : Int])
    BY <1>3, <2>3, <2>4, ListIn
  <2>7. \A i, j \in DOMAIN z : z[i].doc = z[j].doc => i = j
    BY <1>3, <2>3
  <2>8. z \in Rankings
    BY <2>6, <2>7 DEF Rankings
  <2>9. Docs(z) = Docs(found)
    BY <1>3, <2>3 DEF Docs
  <2>10. \A e \in Items(z) : e.score = scored[e.doc]
    BY <2>2, <2>3 DEF Items
  <2> DEFINE kept == dict_topk(z, k)
  <2>11. kept \in Rankings
    BY <2>8, TopkFacts
  <2>12. FoundBy(engine, q, k, kept)
    BY <2>8, <2>9, <2>10 DEF FoundBy, found, scored
  <2>13. RerankedSearch(engine, q, k) = OrRaise(<<kept>>)
    BY <1>4, <1>5
  <2> HIDE DEF kept
  <2>14. OrRaise(<<kept>>) = [scores |-> Dict(kept)]
    BY DEF OrRaise
  <2> QED  BY <2>11, <2>12, <2>13, <2>14
<1>6. CASE ~ \A d \in Docs(found) : d \in Readable
  <2>1. RerankedSearch(engine, q, k) = OrRaise(<<>>)
    BY <1>4, <1>6
  <2> QED  BY <2>1 DEF OrRaise
<1> QED  BY <1>5, <1>6

LEMMA FusedSearchFacts ==
    ASSUME NEW upstream \in Seq(STRING), \A i \in DOMAIN upstream : IsRanker(upstream[i]),
           NEW q \in Queries, NEW k \in Nat
    PROVE  \E s \in Rankings : FusedSearch(upstream, q, k) = Dict(s)
<1> DEFINE rankings == [i \in DOMAIN upstream |-> Ranked(upstream[i], q, k).of]
           n == Len(upstream)
<1>1. n \in Nat /\ DOMAIN upstream = 1..n
  BY LenProperties
<1>2. \A i \in 1..n : Ranked(upstream[i], q, k).of \in Rankings
  BY <1>1, RankedFacts, DictFacts
<1> HIDE DEF n
<1>3. /\ DOMAIN rankings = 1..n /\ rankings = [i \in 1..n |-> rankings[i]]
      /\ \A i \in 1..n : rankings[i] \in Rankings
  BY <1>1, <1>2
<1>4. FusedSearch(upstream, q, k) = Dict(dict_topk(rrf(rankings), k))
  BY DEF FusedSearch
<1> HIDE DEF rankings
<1>5. rankings \in Seq(Rankings)
  BY <1>1, <1>3, ListIn
<1>6. dict_topk(rrf(rankings), k) \in Rankings
  BY <1>5, FusedRankings, TopkFacts
<1> QED  BY <1>4, <1>6

\* An engine raises, or finds a ranking.
LEMMA EngineSearchFacts ==
    ASSUME NEW name, Searches(name), NEW q \in Queries, NEW k \in Nat
    PROVE  LET ret == EngineSearch(name, q, k)
           IN  /\ ret = Raise("RuntimeError") \/ \E s \in Rankings : ret = [scores |-> Dict(s)]
               /\ name \in Failing => ret = Raise("RuntimeError")
               /\ name \notin Failing \union DOMAIN Rerankers \union DOMAIN Fusions =>
                      /\ ret = [scores |-> Dict(Truncated(Hits[name][q], k))]
                      /\ IsRanker(name)
               /\ name \in DOMAIN Rerankers /\ ret # Raise("RuntimeError") =>
                      \E kept \in Rankings :
                          ret = [scores |-> Dict(kept)] /\ FoundBy(Rerankers[name], q, k, kept)
<1> DEFINE ret == EngineSearch(name, q, k)
<1>1. CASE name \in Failing
  <2>1. ret = Raise("RuntimeError")
    BY <1>1 DEF EngineSearch
  <2> HIDE DEF ret
  <2> QED  BY <1>1, <2>1 DEF ret
<1>2. CASE name \notin Failing /\ name \in DOMAIN Rerankers
  <2>1. ret = RerankedSearch(Rerankers[name], q, k)
    BY <1>2 DEF EngineSearch
  <2>2. IsRanker(Rerankers[name].upstream) /\ IsScorer(Rerankers[name].scorer)
    BY <1>2 DEF Searches
  <2>3. \/ ret = Raise("RuntimeError")
        \/ \E kept \in Rankings :
               ret = [scores |-> Dict(kept)] /\ FoundBy(Rerankers[name], q, k, kept)
    BY <2>1, <2>2, RerankedSearchFacts
  <2> HIDE DEF ret
  <2> QED  BY <1>2, <2>3 DEF ret
<1>3. CASE name \notin Failing \union DOMAIN Rerankers /\ name \in DOMAIN Fusions
  <2>1. ret = [scores |-> FusedSearch(Fusions[name], q, k)]
    BY <1>3 DEF EngineSearch
  <2>2. Fusions[name] \in Seq(STRING) /\ \A i \in DOMAIN Fusions[name] : IsRanker(Fusions[name][i])
    BY <1>3 DEF Searches
  <2>3. \E s \in Rankings : ret = [scores |-> Dict(s)]
    BY <2>1, <2>2, FusedSearchFacts
  <2> HIDE DEF ret
  <2> QED  BY <1>3, <2>3 DEF ret
<1>4. CASE name \notin Failing \union DOMAIN Rerankers \union DOMAIN Fusions
  <2>1. ret = [scores |-> Ranked(name, q, k)] /\ IsRanker(name)
    BY <1>4 DEF EngineSearch, Searches
  <2>2. ret = [scores |-> Dict(Truncated(Hits[name][q], k))] /\ Truncated(Hits[name][q], k) \in Rankings
    BY <2>1, RankedFacts
  <2> HIDE DEF ret
  <2> QED  BY <1>4, <2>1, <2>2 DEF ret
<1> QED  BY <1>1, <1>2, <1>3, <1>4

-----------------------------------------------------------------------------
(***************************************************************************)
(* What the service behind a name answers, here or through a relay.        *)
(***************************************************************************)
AskedFor(q, k) == [query |-> q, limit |-> k]

\* A relay over REST gets no query from an auto-registered service, and raises.
Muted(name) ==
    name \in DOMAIN RelayOf /\ RelayOf[name].link = "rest" /\ Worker(name) \in AutoRegistered

\* An answer with the ranking s, which may have been through a map.
Found(a, q, s) ==
    /\ DOMAIN a \subseteq {"query", "scores"} /\ "scores" \in DOMAIN a
    /\ "query" \in DOMAIN a => a["query"] = q
    /\ \E t \in Rankings : a["scores"] = Dict(t) /\ Same(t, s)

\* What a search that raised is answered with.
LostAnswer(name, q) ==
    IF name \notin DOMAIN RelayOf
    THEN IF name \in AutoRegistered THEN Raise("RuntimeError") ELSE [error |-> "RuntimeError"]
    ELSE IF Worker(name) \in AutoRegistered THEN Raise("RoutirClientError")
         ELSE IF RelayOf[name].link = "rest" THEN Raise("RuntimeError")
              ELSE [query |-> q, scores |-> AsMap(Dict(<<>>))]

LEMMA RelayCases ==
    ASSUME NEW asked, NEW reply, NEW nothing
    PROVE  /\ ~Replied(reply) => Relay(asked, reply, nothing) = Raise("RoutirClientError")
           /\ Replied(reply) /\ ~("query" \in DOMAIN reply /\ reply.query = asked.query) =>
                  Relay(asked, reply, nothing) = Raise("RuntimeError")
           /\ Replied(reply) /\ "query" \in DOMAIN reply /\ reply.query = asked.query =>
                  Relay(asked, reply, nothing) =
                      [query |-> asked.query, scores |-> Field(reply, "scores", nothing)]
BY DEF Relay

LEMMA RaisedOverLinks ==
    ASSUME NEW link, NEW asked
    PROVE  /\ ~Replied(SearchOver(link, asked, Raise("RuntimeError")))
           /\ ~Replied(ScoreOver(link, asked, Raise("RuntimeError")))
<1>1. Raised(Raise("RuntimeError")) /\ Raise("RuntimeError").raised = "RuntimeError"
  BY DEF Raised, Raise
<1>2. RestSearch(Raise("RuntimeError")) = Failure /\ RestScore("text", Raise("RuntimeError")) = Failure
  BY <1>1 DEF RestSearch, RestScore, RestRaised
<1>3. /\ GrpcSearch(asked, Raise("RuntimeError")) = Failure
      /\ GrpcScore(asked, Raise("RuntimeError")) = Failure
  BY <1>1 DEF GrpcSearch, GrpcScore, GrpcRaised
<1>4. ~Replied(Failure)
  BY DEF Replied, Failure
<1> QED  BY <1>2, <1>3, <1>4 DEF SearchOver, ScoreOver

LEMMA SearchFound ==
    ASSUME NEW name, NEW q, NEW k, name \in DOMAIN RelayOf => RelayOf[name].link \in {"rest", "grpc"},
           NEW s \in Rankings, EngineSearch(Worker(name), q, k) = [scores |-> Dict(s)]
    PROVE  LET a == Search(name, AskedFor(q, k))
           IN  IF Muted(name) THEN a = Raise("RuntimeError") ELSE Found(a, q, s)
<1> DEFINE w == Worker(name)
           asked == AskedFor(q, k)
           e == [scores |-> Dict(s)]
           ret == SearchAnswer(w, asked)
           a == Search(name, asked)
<1>1. asked.query = q /\ asked.limit = k
  BY DEF AskedFor
<1>2. ret = Answered(w, q, e)
  BY <1>1 DEF SearchAnswer
<1>3. ~Raised(e) /\ DOMAIN e = {"scores"} /\ e["scores"] = Dict(s)
  BY DEF Raised
<1> HIDE DEF e
<1>4. ret = IF w \in AutoRegistered THEN e ELSE [query |-> q] ++ e
  BY <1>2, <1>3 DEF Answered
<1>5. /\ DOMAIN ret = (IF w \in AutoRegistered THEN {"scores"} ELSE {"query", "scores"})
      /\ ret["scores"] = Dict(s)
      /\ w \notin AutoRegistered => ret["query"] = q
  <2>1. CASE w \in AutoRegistered
    BY <1>3, <1>4, <2>1
  <2>2. CASE w \notin AutoRegistered
    <3> DEFINE b == [query |-> q]
    <3>1. DOMAIN b = {"query"} /\ b["query"] = q
      OBVIOUS
    <3> HIDE DEF b
    <3>2. /\ DOMAIN (b ++ e) = DOMAIN b \union DOMAIN e
          /\ \A f \in DOMAIN b : (b ++ e)[f] = b[f]
          /\ \A f \in DOMAIN e : f \notin DOMAIN b => (b ++ e)[f] = e[f]
      BY PlusFacts
    <3>3. ret = b ++ e
      BY <1>4, <2>2 DEF b
    <3> HIDE DEF ret
    <3> QED  BY <1>3, <2>2, <3>1, <3>2, <3>3
  <2> QED  BY <2>1, <2>2
<1>6. ~Raised(ret)
  BY <1>5 DEF Raised
<1>7. a = SearchThrough(name, asked, ret)
  BY DEF Search
<1>8. Same(s, s)
  BY DEF Same
<1>9. PICK t : AsMap(Dict(s)) = Dict(t) /\ Same(t, s)
  BY AsMapFacts
<1>10. t \in Rankings
  BY <1>9 DEF Same
<1> HIDE DEF a, ret, asked, w
<1>11. CASE name \notin DOMAIN RelayOf
  <2>1. a = ret /\ ~Muted(name)
    BY <1>7, <1>11 DEF SearchThrough, Muted
  <2> QED  BY <1>5, <1>8, <2>1 DEF Found, a, asked
<1>12. CASE name \in DOMAIN RelayOf /\ RelayOf[name].link = "rest"
  <2> DEFINE reply == RestSearch(ret)
  <2>1. reply = [ret EXCEPT !.scores = AsMap(@)]
    BY <1>5, <1>6 DEF RestSearch
  <2>2. DOMAIN reply = DOMAIN ret /\ reply["scores"] = Dict(t)
        /\ \A f \in DOMAIN ret : f # "scores" => reply[f] = ret[f]
    BY <1>5, <1>9, <2>1
  <2>3. a = Relay(asked, reply, Dict(<<>>))
    BY <1>7, <1>12 DEF SearchThrough, SearchOver
  <2> HIDE DEF reply
  <2>4. Replied(reply) /\ ("query" \in DOMAIN reply <=> w \notin AutoRegistered)
    BY <1>5, <2>2 DEF Replied
  <2>5. CASE w \in AutoRegistered
    <3>1. a = Raise("RuntimeError")
      BY <2>3, <2>4, <2>5, RelayCases
    <3> QED  BY <1>12, <2>5, <3>1 DEF Muted, w, a, asked
  <2>6. CASE w \notin AutoRegistered
    <3>1. reply["query"] = q
      BY <1>5, <2>2, <2>6
    <3>2. a = [query |-> q, scores |-> Field(reply, "scores", Dict(<<>>))]
      BY <1>1, <2>3, <2>4, <2>6, <3>1, RelayCases
    <3>3. Field(reply, "scores", Dict(<<>>)) = Dict(t)
      BY <1>5, <2>2 DEF Field
    <3>4. a = [query |-> q, scores |-> Dict(t)]
      BY <3>2, <3>3
    <3>5. Found(a, q, s)
      BY <1>9, <1>10, <3>4 DEF Found
    <3> QED  BY <1>12, <2>6, <3>5 DEF Muted, w, a, asked
  <2> QED  BY <2>5, <2>6
<1>13. CASE name \in DOMAIN RelayOf /\ RelayOf[name].link = "grpc"
  <2> DEFINE reply == GrpcSearch(asked, ret)
  <2>1. reply = [query |-> Field(ret, "query", q), scores |-> AsMap(Field(ret, "scores", Dict(<<>>)))]
    BY <1>1, <1>6 DEF GrpcSearch
  <2>2. Field(ret, "query", q) = q /\ Field(ret, "scores", Dict(<<>>)) = Dict(s)
    BY <1>5 DEF Field
  <2>3. reply = [query |-> q, scores |-> Dict(t)]
    BY <1>9, <2>1, <2>2
  <2>4. a = Relay(asked, reply, Dict(<<>>))
    BY <1>7, <1>13 DEF SearchThrough, SearchOver
  <2> HIDE DEF reply
  <2>5. Replied(reply) /\ "query" \in DOMAIN reply /\ reply.query = q
        /\ Field(reply, "scores", Dict(<<>>)) = Dict(t)
    BY <2>3 DEF Replied, Field
  <2>6. a = [query |-> q, scores |-> Dict(t)]
    BY <1>1, <2>4, <2>5, RelayCases
  <2>7. Found(a, q, s)
    BY <1>9, <1>10, <2>6 DEF Found
  <2> QED  BY <1>13, <2>7 DEF Muted, a, asked
<1> QED  BY <1>11, <1>12, <1>13 DEF a, asked

LEMMA SearchLost ==
    ASSUME NEW name, NEW q, NEW k, name \in DOMAIN RelayOf => RelayOf[name].link \in {"rest", "grpc"},
           EngineSearch(Worker(name), q, k) = Raise("RuntimeError")
    PROVE  Search(name, AskedFor(q, k)) = LostAnswer(name, q)
<1> DEFINE w == Worker(name)
           asked == AskedFor(q, k)
           error == [error |-> "RuntimeError"]
           ret == SearchAnswer(w, asked)
           a == Search(name, asked)
<1>1. asked.query = q /\ asked.limit = k
  BY DEF AskedFor
<1>2. ret = Answered(w, q, Raise("RuntimeError"))
  BY <1>1 DEF SearchAnswer
<1>3. ret = IF w \in AutoRegistered THEN Raise("RuntimeError") ELSE error
  BY <1>2 DEF Answered, Raised, Raise
<1>4. a = SearchThrough(name, asked, ret)
  BY DEF Search
<1>5. ~Raised(error) /\ "scores" \notin DOMAIN error /\ Replied(error) /\ "query" \notin DOMAIN error
  BY DEF Raised, Replied
<1> HIDE DEF a, ret, asked, error
<1>6. CASE name \notin DOMAIN RelayOf
  <2>1. w = name
    BY <1>6 DEF Worker
  <2>2. a = ret
    BY <1>4, <1>6 DEF SearchThrough
  <2> QED  BY <1>3, <1>6, <2>1, <2>2 DEF LostAnswer, error, a, asked
<1>7. CASE name \in DOMAIN RelayOf /\ w \in AutoRegistered
  <2>1. ret = Raise("RuntimeError")
    BY <1>3, <1>7
  <2>2. a = Relay(asked, SearchOver(RelayOf[name].link, asked, ret), Dict(<<>>))
    BY <1>4, <1>7 DEF SearchThrough
  <2>3. a = Raise("RoutirClientError")
    BY <2>1, <2>2, RaisedOverLinks, RelayCases
  <2> QED  BY <1>7, <2>3 DEF LostAnswer, w, a, asked
<1>8. CASE name \in DOMAIN RelayOf /\ w \notin AutoRegistered /\ RelayOf[name].link = "rest"
  <2>1. ret = error
    BY <1>3, <1>8
  <2>2. a = Relay(asked, RestSearch(error), Dict(<<>>))
    BY <1>4, <1>8, <2>1 DEF SearchThrough, SearchOver
  <2>3. RestSearch(error) = error
    BY <1>5 DEF RestSearch
  <2>4. a = Raise("RuntimeError")
    BY <1>5, <2>2, <2>3, RelayCases
  <2> QED  BY <1>8, <2>4 DEF LostAnswer, w, a, asked
<1>9. CASE name \in DOMAIN RelayOf /\ w \notin AutoRegistered /\ RelayOf[name].link = "grpc"
  <2> DEFINE reply == GrpcSearch(asked, error)
  <2>1. ret = error
    BY <1>3, <1>9
  <2>2. a = Relay(asked, reply, Dict(<<>>))
    BY <1>4, <1>9, <2>1 DEF SearchThrough, SearchOver
  <2>3. reply = [query |-> Field(error, "query", q), scores |-> AsMap(Field(error, "scores", Dict(<<>>)))]
    BY <1>1, <1>5 DEF GrpcSearch
  <2>4. reply = [query |-> q, scores |-> AsMap(Dict(<<>>))]
    BY <1>5, <2>3 DEF Field
  <2> HIDE DEF reply
  <2>5. Replied(reply) /\ "query" \in DOMAIN reply /\ reply.query = q
        /\ Field(reply, "scores", Dict(<<>>)) = AsMap(Dict(<<>>))
    BY <2>4 DEF Replied, Field
  <2>6. a = [query |-> q, scores |-> AsMap(Dict(<<>>))]
    BY <1>1, <2>2, <2>5, RelayCases
  <2> QED  BY <1>9, <2>6 DEF LostAnswer, w, a, asked
<1> QED  BY <1>6, <1>7, <1>8, <1>9

LEMMA ScoresFacts ==
    ASSUME NEW name, name \in DOMAIN RelayOf => RelayOf[name].link \in {"rest", "grpc"},
           NEW q \in Queries, NEW P \in Seq(Readable),
           Worker(name) \in Failing \/ IsScorer(Worker(name))
    PROVE  LET a == Scores(name, [query |-> q, passages |-> P])
           IN  \/ IsRaise(a)
               \/ a = [error |-> "RuntimeError"]
               \/ \E list \in Seq(Int) :
                      /\ a = [query |-> q, scores |-> list]
                      /\ Len(list) = Len(P) \/ (LostFailure(name) /\ list = <<>>)
<1> DEFINE w == Worker(name)
           asked == [query |-> q, passages |-> P]
           error == [error |-> "RuntimeError"]
           ret == ScoreAnswer(w, asked)
           list == [i \in DOMAIN P |-> Score[w][q][P[i]]]
           n == Len(P)
           a == Scores(name, asked)
<1>1. asked.query = q /\ asked.passages = P
  OBVIOUS
<1>2. n \in Nat /\ DOMAIN P = 1..n /\ \A i \in 1..n : P[i] \in Readable
  BY LenProperties, ElementOfSeq
<1>3. a = ScoreThrough(name, asked, ret)
  BY DEF Scores
<1>4. ret = IF w \in Failing THEN error ELSE [query |-> q, scores |-> list]
  BY <1>1 DEF ScoreAnswer
<1>5. ASSUME w \notin Failing
      PROVE  list \in Seq(Int) /\ Len(list) = n
  <2>1. \A i \in 1..n : Score[w][q][P[i]] \in Int
    BY <1>2, <1>5 DEF IsScorer
  <2> HIDE DEF n
  <2>2. DOMAIN list = 1..n /\ list = [i \in 1..n |-> list[i]] /\ \A i \in 1..n : list[i] \in Int
    BY <1>2, <2>1
  <2> HIDE DEF list
  <2> QED  BY <1>2, <2>2, ListIn
<1>6. ~Raised(error) /\ "scores" \notin DOMAIN error /\ Replied(error) /\ "query" \notin DOMAIN error
  BY DEF Raised, Replied
<1>7. <<>> \in Seq(Int)
  OBVIOUS
<1> HIDE DEF a, ret, asked, error, list, n
<1>8. CASE name \notin DOMAIN RelayOf
  <2>1. a = ret
    BY <1>3, <1>8 DEF ScoreThrough
  <2> QED  BY <1>4, <1>5, <2>1 DEF a, asked, error, n
<1>9. CASE name \in DOMAIN RelayOf /\ RelayOf[name].link = "rest"
  <2>1. ~Raised(ret)
    BY <1>4, <1>6 DEF Raised
  <2>2. RestScore("text", ret) = ret
    BY <2>1 DEF RestScore
  <2>3. a = Relay(asked, ret, <<>>)
    BY <1>3, <1>9, <2>2 DEF ScoreThrough, ScoreOver
  <2>4. CASE w \in Failing
    <3>1. a = Raise("RuntimeError")
      BY <1>4, <1>6, <2>3, <2>4, RelayCases
    <3> QED  BY <3>1, RaiseFacts DEF a, asked
  <2>5. CASE w \notin Failing
    <3>1. ret = [query |-> q, scores |-> list]
      BY <1>4, <2>5
    <3>2. Replied(ret) /\ "query" \in DOMAIN ret /\ ret.query = q /\ Field(ret, "scores", <<>>) = list
      BY <3>1 DEF Replied, Field
    <3>3. a = [query |-> q, scores |-> list]
      BY <1>1, <2>3, <3>2, RelayCases
    <3> QED  BY <1>5, <2>5, <3>3 DEF a, asked, n
  <2> QED  BY <2>4, <2>5
<1>10. CASE name \in DOMAIN RelayOf /\ RelayOf[name].link = "grpc"
  <2> DEFINE reply == GrpcScore(asked, ret)
  <2>1. ~Raised(ret)
    BY <1>4, <1>6 DEF Raised
  <2>2. reply = [query |-> Field(ret, "query", q), scores |-> Field(ret, "scores", <<>>)]
    BY <1>1, <2>1 DEF GrpcScore
  <2>3. a = Relay(asked, reply, <<>>)
    BY <1>3, <1>10 DEF ScoreThrough, ScoreOver
  <2> HIDE DEF reply
  <2>4. Field(ret, "query", q) = q
    BY <1>4, <1>6 DEF Field
  <2>5. Replied(reply) /\ "query" \in DOMAIN reply /\ reply.query = q
        /\ Field(reply, "scores", <<>>) = Field(ret, "scores", <<>>)
    BY <2>2, <2>4 DEF Replied, Field
  <2>6. a = [query |-> q, scores |-> Field(ret, "scores", <<>>)]
    BY <1>1, <2>3, <2>5, RelayCases
  <2>7. CASE w \in Failing
    <3>1. Field(ret, "scores", <<>>) = <<>>
      BY <1>4, <1>6, <2>7 DEF Field
    <3>2. LostFailure(name)
      BY <1>10, <2>7 DEF LostFailure, w, Worker
    <3> QED  BY <1>7, <2>6, <3>1, <3>2 DEF a, asked
  <2>8. CASE w \notin Failing
    <3>1. Field(ret, "scores", <<>>) = list
      BY <1>4, <2>8 DEF Field
    <3> QED  BY <1>5, <2>6, <2>8, <3>1 DEF a, asked, n
  <2> QED  BY <2>7, <2>8
<1> QED  BY <1>8, <1>9, <1>10

LEMMA PassagesFacts ==
    ASSUME NEW n \in Nat, NEW c \in Seq(Int), Len(c) = n, \A i, j \in 1..n : c[i] = c[j] => i = j,
           \A i \in 1..n : c[i] \in Readable
    PROVE  PassagesOf(c) \in Seq(Readable) /\ Len(PassagesOf(c)) = n
<1> DEFINE before == {p \in (1..n) \X (1..n) : c[p[1]] < c[p[2]]}
<1>1. DOMAIN c = 1..n /\ \A i \in 1..n : c[i] \in Int
  BY LenProperties, ElementOfSeq
<1>2. \A i, j \in 1..n : <<i, j>> \in before <=> c[i] < c[j]
  OBVIOUS
<1>3. PassagesOf(c) = Arranged(c, before)
  BY <1>1 DEF PassagesOf
<1> HIDE DEF before
<1>4. Orders(before, 1..n)
  <2>1. \A i \in 1..n : <<i, i>> \notin before
    BY <1>1, <1>2
  <2>2. ASSUME NEW i \in 1..n, NEW j \in 1..n, NEW k \in 1..n, c[i] < c[j], c[j] < c[k]
        PROVE  c[i] < c[k]
    BY <1>1, <2>2
  <2>3. ASSUME NEW i \in 1..n, NEW j \in 1..n, i # j
        PROVE  c[i] < c[j] \/ c[j] < c[i]
    <3>1. c[i] \in Int /\ c[j] \in Int /\ c[i] # c[j]
      BY <1>1, <2>3
    <3> QED  BY <3>1
  <2> QED  BY <1>2, <2>1, <2>2, <2>3 DEF Orders
<1>5. c \in Seq(Readable)
  <2>1. c = [i \in 1..n |-> c[i]]
    BY <1>1
  <2> QED  BY <1>1, <2>1, ListIn
<1>6. PICK o \in [1..Len(c) -> 1..Len(c)] :
          /\ PassagesOf(c) = [i \in 1..Len(c) |-> c[o[i]]]
          /\ \A i, j \in 1..Len(c) : o[i] = o[j] => i = j
          /\ \A k \in 1..Len(c) : \E i \in 1..Len(c) : o[i] = k
          /\ \A i, j \in 1..Len(c) : i < j => <<o[i], o[j]>> \in before
  BY <1>3, <1>4, ArrangedFacts
<1>7. Permutes(PassagesOf(c), c)
  BY <1>6 DEF Permutes
<1> QED  BY <1>5, <1>7, PermutesFacts

\* What a stage that reranks is answered: it does not depend on the limit.
RerankOf(name, q, candidates) ==
    IF \A i \in DOMAIN candidates : candidates[i] \in Readable
    THEN Rescored(candidates, Scores(name, [query |-> q, passages |-> PassagesOf(candidates)]))
    ELSE Raise("RuntimeError")

LEMMA RerankIs ==
    ASSUME NEW call, NEW query, NEW last, "limit" \notin DOMAIN last, NEW candidates
    PROVE  Rerank(call, Payload(call, query, last), candidates) =
               RerankOf(call.name, Asked(query, last), candidates)
<1> DEFINE p == Payload(call, query, last)
           a == [passages |-> PassagesOf(candidates)]
           r == [query |-> Asked(query, last), passages |-> PassagesOf(candidates)]
           names == {"query", "passages"}
<1>1. "query" \in DOMAIN p /\ p["query"] = Asked(query, last)
  BY PayloadFacts
<1> HIDE DEF p
<1>2. DOMAIN a = {"passages"} /\ a["passages"] = PassagesOf(candidates)
  OBVIOUS
<1> DEFINE b == a ++ p
<1>3. Rerank(call, p, candidates) =
          IF \A i \in DOMAIN candidates : candidates[i] \in Readable
          THEN Rescored(candidates, Scores(call.name, ScorePayload(b)))
          ELSE Raise("RuntimeError")
  BY DEF Rerank
<1> HIDE DEF a
<1>4. /\ DOMAIN b = DOMAIN a \union DOMAIN p
      /\ \A f \in DOMAIN a : b[f] = a[f]
      /\ \A f \in DOMAIN p : f \notin DOMAIN a => b[f] = p[f]
  BY PlusFacts
<1> HIDE DEF b
<1>5. "query" \in DOMAIN b /\ "passages" \in DOMAIN b /\ b["query"] = Asked(query, last)
      /\ b["passages"] = PassagesOf(candidates)
  BY <1>1, <1>2, <1>4
<1>6. ScorePayload(b) = [f \in names |-> b[f]]
  <2>1. DOMAIN b \intersect names = names
    BY <1>5
  <2> QED  BY <2>1 DEF ScorePayload, Taken
<1>7. r = [f \in names |-> b[f]]
  BY <1>5
<1>8. ScorePayload(b) = r
  BY <1>6, <1>7
<1> HIDE DEF r
<1>9. Rerank(call, p, candidates) =
          IF \A i \in DOMAIN candidates : candidates[i] \in Readable
          THEN Rescored(candidates, Scores(call.name, r)) ELSE Raise("RuntimeError")
  BY <1>3, <1>8
<1> QED  BY <1>9 DEF RerankOf, p, r

LEMMA RerankOfFacts ==
    ASSUME NEW name, name \in DOMAIN RelayOf => RelayOf[name].link \in {"rest", "grpc"},
           NEW q \in Queries, Worker(name) \in Failing \/ IsScorer(Worker(name)),
           NEW last, NEW s \in Rankings, last["scores"] = Dict(s)
    PROVE  LET a == RerankOf(name, q, Candidates(last))
           IN  \/ IsRaise(a)
               \/ a = [error |-> "RuntimeError"]
               \/ \E z \in Rankings :
                      /\ a = [query |-> q, scores |-> Dict(z)]
                      /\ Docs(z) = Docs(s) \/ LostFailure(name)
<1> DEFINE c == Candidates(last)
           n == Len(s)
           asked == [query |-> q, passages |-> PassagesOf(c)]
           ret == Scores(name, asked)
           a == RerankOf(name, q, c)
<1>1. /\ n \in Nat /\ DOMAIN s = 1..n /\ \A i \in 1..n : s[i].doc \in Int
      /\ \A i, j \in 1..n : s[i].doc = s[j].doc => i = j
  BY RankingFacts
<1>2. c = [i \in DOMAIN s |-> s[i].doc]
  BY DictFacts DEF Candidates
<1> HIDE DEF n
<1>3. DOMAIN c = 1..n /\ c = [i \in 1..n |-> c[i]] /\ \A i \in 1..n : c[i] = s[i].doc
  BY <1>1, <1>2
<1> HIDE DEF c
<1>4. c \in Seq(Int) /\ Len(c) = n
  <2>1. \A i \in 1..n : c[i] \in Int
    BY <1>1, <1>3
  <2> QED  BY <1>1, <1>3, <2>1, ListIn
<1>5. a = IF \A i \in 1..n : c[i] \in Readable THEN Rescored(c, ret) ELSE Raise("RuntimeError")
  BY <1>3 DEF RerankOf
<1> HIDE DEF a, ret
<1>6. CASE ~ \A i \in 1..n : c[i] \in Readable
  <2>1. IsRaise(a)
    BY <1>5, <1>6, RaiseFacts
  <2> QED  BY <2>1 DEF a, c
<1>7. CASE \A i \in 1..n : c[i] \in Readable
  <2>1. PassagesOf(c) \in Seq(Readable) /\ Len(PassagesOf(c)) = n
    BY <1>1, <1>3, <1>4, <1>7, PassagesFacts, SMTT(60)
  <2>2. a = Rescored(c, ret)
    BY <1>5, <1>7
  <2>3. \/ IsRaise(ret)
        \/ ret = [error |-> "RuntimeError"]
        \/ \E list \in Seq(Int) :
               /\ ret = [query |-> q, scores |-> list]
               /\ Len(list) = n \/ (LostFailure(name) /\ list = <<>>)
    BY <2>1, ScoresFacts DEF ret
  <2>4. CASE IsRaise(ret)
    <3>1. Raised(ret)
      BY <2>4, RaiseFacts DEF IsRaise
    <3>2. a = ret
      BY <2>2, <3>1 DEF Rescored
    <3> QED  BY <2>4, <3>2 DEF a, c
  <2>5. CASE ret = [error |-> "RuntimeError"]
    <3>1. a = ret
      BY <2>2, <2>5 DEF Rescored
    <3> QED  BY <2>5, <3>1 DEF a, c
  <2>6. CASE \E list \in Seq(Int) :
               /\ ret = [query |-> q, scores |-> list]
               /\ Len(list) = n \/ (LostFailure(name) /\ list = <<>>)
    <3>1. PICK list \in Seq(Int) :
               /\ ret = [query |-> q, scores |-> list]
               /\ Len(list) = n \/ (LostFailure(name) /\ list = <<>>)
      BY <2>6
    <3> DEFINE m == Len(list)
               z == [i \in DOMAIN list |-> [doc |-> c[i], score |-> list[i]]]
    <3>2. m \in Nat /\ DOMAIN list = 1..m /\ \A i \in 1..m : list[i] \in Int
      BY LenProperties, ElementOfSeq
    <3>3. m <= n /\ (m = n \/ LostFailure(name))
      BY <1>1, <3>1
    <3>4. a = [query |-> q, scores |-> Dict(z)]
      <4>1. ~Raised(ret) /\ "scores" \in DOMAIN ret /\ ret["scores"] = list
        BY <3>1 DEF Raised
      <4>2. a = [ret EXCEPT !.scores = Dict([i \in DOMAIN @ |-> [doc |-> c[i], score |-> @[i]]])]
        BY <2>2, <4>1 DEF Rescored
      <4>3. a = [ret EXCEPT !.scores = Dict(z)]
        BY <4>1, <4>2
      <4> HIDE DEF z
      <4> QED  BY <3>1, <4>3
    <3> HIDE DEF m
    <3>5. /\ DOMAIN z = 1..m /\ z = [i \in 1..m |-> z[i]]
          /\ \A i \in 1..m : z[i].doc = s[i].doc /\ z[i] = [doc |-> c[i], score |-> list[i]]
      BY <1>1, <1>3, <3>2, <3>3
    <3> HIDE DEF z
    <3>6. \A i \in 1..m : i \in 1..n
      BY <1>1, <3>2, <3>3
    <3>7. \A i \in 1..m : z[i] \in [doc : Int, score : Int]
      <4> TAKE i \in 1..m
      <4>1. c[i] \in Int /\ list[i] \in Int
        BY <1>1, <1>3, <3>2, <3>6
      <4> QED  BY <3>5, <4>1
    <3>8. z \in Seq([doc : Int, score : Int])
      BY <3>2, <3>5, <3>7, ListIn
    <3>9. \A i, j \in DOMAIN z : z[i].doc = z[j].doc => i = j
      BY <1>1, <3>5, <3>6
    <3>10. z \in Rankings
      BY <3>8, <3>9 DEF Rankings
    <3>11. Docs(z) = Docs(s) \/ LostFailure(name)
      <4>1. CASE m = n
        BY <1>1, <3>5, <4>1 DEF Docs
      <4> QED  BY <3>3, <4>1
    <3> QED  BY <3>4, <3>10, <3>11 DEF a, c
  <2> QED  BY <2>3, <2>4, <2>5, <2>6
<1> QED  BY <1>6, <1>7

-----------------------------------------------------------------------------
(***************************************************************************)
(* What a service answers to a stage, and what run makes of it.            *)
(***************************************************************************)
\* A service raises, answers with an error, or with the field it promised.
Answers(a, promised) ==
    \/ IsRaise(a)
    \/ a = [error |-> "RuntimeError"]
    \/ WellFormed(a) /\ promised \in DOMAIN a

LEMMA CheckedFacts ==
    ASSUME NEW call, NEW a, Answers(a, Promised(call.role))
    PROVE  /\ Outcome(Checked(call, a), Promised(call.role))
           /\ ~Raised(Checked(call, a)) => Checked(call, a) = a /\ WellFormed(a)
<1>1. CASE IsRaise(a)
  <2>1. Raised(a)
    BY <1>1, RaiseFacts DEF IsRaise
  <2> QED  BY <1>1, <2>1 DEF Checked, Outcome
<1>2. CASE a = [error |-> "RuntimeError"]
  <2>1. ~Raised(a) /\ Promised(call.role) \notin DOMAIN a
    BY <1>2 DEF Raised, Promised
  <2>2. Checked(call, a) = Raise("RuntimeError")
    BY <2>1 DEF Checked
  <2> QED  BY <2>2, RaiseFacts DEF Outcome
<1>3. CASE WellFormed(a) /\ Promised(call.role) \in DOMAIN a
  BY <1>3 DEF Checked, Outcome
<1> QED  BY <1>1, <1>2, <1>3 DEF Answers

LEMMA DictOfFacts == ASSUME NEW x \in DictOf PROVE x.of \in Rankings /\ x.is = "dict" /\ x = Dict(x.of)
BY DEF DictOf, Dict

LEMMA FoundWellFormed ==
    ASSUME NEW a, NEW q \in Queries, NEW s, Found(a, q, s)
    PROVE  WellFormed(a) /\ "scores" \in DOMAIN a
<1>1. a["scores"] \in DictOf
  BY DictFacts DEF Found
<1> QED  BY <1>1 DEF Found, WellFormed, DictWith, Fields

LEMMA LostFacts ==
    ASSUME NEW name, NEW q \in Queries
    PROVE  Answers(LostAnswer(name, q), "scores")
<1>1. PICK t : AsMap(Dict(<<>>)) = Dict(t) /\ Same(t, <<>>)
  BY AsMapFacts, EmptyRanking
<1>2. Dict(t) \in DictOf
  BY <1>1, DictFacts DEF Same
<1> DEFINE a == [query |-> q, scores |-> Dict(t)]
<1>3. WellFormed(a) /\ "scores" \in DOMAIN a
  BY <1>2 DEF WellFormed, DictWith, Fields
<1> HIDE DEF a
<1>4. Answers(a, "scores")
  BY <1>3 DEF Answers
<1>5. LostAnswer(name, q) \in {Raise("RuntimeError"), Raise("RoutirClientError"),
                               [error |-> "RuntimeError"], a}
  BY <1>1 DEF LostAnswer, a
<1> QED  BY <1>4, <1>5, RaiseFacts DEF Answers

LEMMA AskedFacts ==
    ASSUME NEW query \in Queries, NEW last, NEW scores, DictWith(last, scores)
    PROVE  Asked(query, last) \in Queries /\ "limit" \notin DOMAIN last
BY DEF Asked, Field, DictWith, Fields

LEMMA RelayLinks ==
    ASSUME NEW name
    PROVE  name \in DOMAIN RelayOf => RelayOf[name].link \in {"rest", "grpc"}
BY EngineAssumption

LEMMA WantedFacts == ASSUME NEW call, IsCall(call) PROVE Wanted(call) \in Nat
BY DEF IsCall, Wanted, NoLimit

\* A search: what was found, or lost, for as many as were wanted.
LEMMA SearchStage ==
    ASSUME NEW call, IsCall(call), HasService(call), call.role = "search",
           NEW query \in Queries, NEW last, WellFormed(last)
    PROVE  LET q == Asked(query, last)
               k == Wanted(call)
               w == Worker(call.name)
               a == Search(call.name, AskedFor(q, k))
           IN  /\ Submit(call, Payload(call, query, last), last) = Checked(call, a)
               /\ Searches(w) /\ q \in Queries /\ k \in Nat
               /\ \/ EngineSearch(w, q, k) = Raise("RuntimeError") /\ a = LostAnswer(call.name, q)
                  \/ \E s \in Rankings :
                         /\ EngineSearch(w, q, k) = [scores |-> Dict(s)]
                         /\ IF Muted(call.name) THEN a = Raise("RuntimeError") ELSE Found(a, q, s)
<1> DEFINE q == Asked(query, last)
           k == Wanted(call)
           w == Worker(call.name)
           a == Search(call.name, AskedFor(q, k))
           payload == Payload(call, query, last)
<1>1. q \in Queries /\ k \in Nat /\ "limit" \notin DOMAIN last
  BY AskedFacts, WantedFacts DEF WellFormed
<1>2. SearchPayload(payload) = AskedFor(q, k)
  BY <1>1, SearchPayloadIs DEF AskedFor
<1> HIDE DEF payload
<1>3. Submit(call, payload, last) = Checked(call, a)
  BY <1>2 DEF Submit, Served
<1>4. Searches(w)
  <2>1. <<call.name, "search">> \in Services
    BY DEF HasService, _role_to_service
  <2> QED  BY <2>1, EngineAssumption
<1>5. EngineSearch(w, q, k) = Raise("RuntimeError")
      \/ \E s \in Rankings : EngineSearch(w, q, k) = [scores |-> Dict(s)]
  BY <1>1, <1>4, EngineSearchFacts
<1> HIDE DEF q, k
<1>6. CASE EngineSearch(w, q, k) = Raise("RuntimeError")
  <2>1. a = LostAnswer(call.name, q)
    BY <1>6, SearchLost, RelayLinks
  <2> QED  BY <1>1, <1>3, <1>4, <1>6, <2>1 DEF q, k, payload
<1>7. CASE \E s \in Rankings : EngineSearch(w, q, k) = [scores |-> Dict(s)]
  <2>1. PICK s \in Rankings : EngineSearch(w, q, k) = [scores |-> Dict(s)]
    BY <1>7
  <2>2. IF Muted(call.name) THEN a = Raise("RuntimeError") ELSE Found(a, q, s)
    BY <2>1, SearchFound, RelayLinks
  <2> QED  BY <1>1, <1>3, <1>4, <2>1, <2>2 DEF q, k, payload
<1> QED  BY <1>5, <1>6, <1>7

LEMMA MergeFacts ==
    ASSUME NEW call, NEW payload, payload["scores"] \in DictOf \union ListsOf
    PROVE  Answers(Merge(call, payload), "scores")
<1> DEFINE x == payload["scores"]
<1>1. ASSUME NEW s \in Rankings, Merge(call, payload) = [scores |-> Dict(s)]
      PROVE  Answers(Merge(call, payload), "scores")
  <2> DEFINE a == Merge(call, payload)
  <2>1. DOMAIN a = {"scores"} /\ a["scores"] \in DictOf
    BY <1>1, DictFacts
  <2> QED  BY <2>1 DEF Answers, WellFormed, DictWith, Fields
<1>2. CASE x \in ListsOf
  <2>1. x.is = "list" /\ x.of \in Seq(Rankings)
    BY <1>2 DEF ListsOf
  <2>2. Merge(call, payload) = [scores |-> Dict(Fused(call, x.of))]
    BY <2>1 DEF Merge
  <2>3. Fused(call, x.of) \in Rankings
    BY <2>1, FusedRankings DEF Fused
  <2> QED  BY <1>1, <2>2, <2>3
<1>3. CASE x \in DictOf
  <2>1. x.is = "dict"
    BY <1>3, DictOfFacts
  <2>2. CASE x.of = <<>>
    <3>1. Merge(call, payload) = [scores |-> Dict(<<>>)]
      BY <2>1, <2>2 DEF Merge
    <3> QED  BY <1>1, <3>1, EmptyRanking
  <2>3. CASE x.of # <<>>
    <3>1. Merge(call, payload) = Raise("AttributeError")
      BY <2>1, <2>3 DEF Merge
    <3> QED  BY <3>1, RaiseFacts DEF Answers
  <2> QED  BY <2>2, <2>3
<1> QED  BY <1>2, <1>3

LEMMA ExpandFacts ==
    ASSUME NEW call, NEW payload, payload["query"] \in Queries,
           <<call.name, "decompose_query">> \in Services
    PROVE  Answers(Expand(call, payload), "queries")
<1> DEFINE q == payload["query"]
           a == Expand(call, payload)
           b == [queries |-> SubQueries[call.name][q]]
           c == IF call.name \in AutoRegistered THEN <<>> ELSE [query |-> q]
<1>1. CASE call.name \in Failing
  <2>1. a = Answered(call.name, q, Raise("RuntimeError"))
    BY <1>1 DEF Expand
  <2>2. a = Raise("RuntimeError") \/ a = [error |-> "RuntimeError"]
    BY <2>1, RaiseFacts DEF Answered, Raise
  <2> QED  BY <2>2, RaiseFacts DEF Answers
<1>2. CASE call.name \notin Failing
  <2>1. SubQueries[call.name][q] \in Seq(Queries)
    BY <1>2, EngineAssumption
  <2>2. a = c ++ b
    <3>1. a = Answered(call.name, q, b)
      BY <1>2 DEF Expand
    <3>2. DOMAIN b = {"queries"} /\ ~Raised(b)
      BY DEF Raised
    <3>3. CASE call.name \in AutoRegistered
      <4>1. a = b /\ c = <<>>
        BY <3>1, <3>3 DEF Answered
      <4>2. DOMAIN <<>> = {} /\ b = [f \in DOMAIN b |-> b[f]]
        OBVIOUS
      <4> QED  BY <4>1, <4>2 DEF ++
    <3>4. CASE call.name \notin AutoRegistered
      BY <3>1, <3>2, <3>4 DEF Answered
    <3> QED  BY <3>3, <3>4
  <2>3. DOMAIN b = {"queries"} /\ b["queries"] \in Seq(Queries)
    BY <2>1
  <2>4. DOMAIN c \subseteq {"query"} /\ ("query" \in DOMAIN c => c["query"] = q)
    <3>1. DOMAIN <<>> = {}
      OBVIOUS
    <3> QED  BY <3>1
  <2> HIDE DEF a, b, c
  <2>5. /\ DOMAIN (c ++ b) = DOMAIN c \union DOMAIN b
        /\ \A f \in DOMAIN c : (c ++ b)[f] = c[f]
        /\ \A f \in DOMAIN b : f \notin DOMAIN c => (c ++ b)[f] = b[f]
    BY PlusFacts
  <2>6. /\ DOMAIN a \subseteq {"query", "queries"} /\ "queries" \in DOMAIN a
        /\ a["queries"] \in Seq(Queries)
        /\ "query" \in DOMAIN a => a["query"] = q
    BY <2>2, <2>3, <2>4, <2>5
  <2>7. WellFormed(a)
    BY <2>6 DEF WellFormed, DictWith, Fields
  <2> QED  BY <2>6, <2>7 DEF Answers, a
<1> QED  BY <1>1, <1>2

\* A merger is handed the rankings of the branches, any other stage a dict.
Handable(call, last) == IF call.role = "merger" THEN MergerDict(last) ELSE WellFormed(last)

LEMMA ScoresInPayload ==
    ASSUME NEW call, NEW query, NEW last, "limit" \notin DOMAIN last, "scores" \in DOMAIN last
    PROVE  Payload(call, query, last)["scores"] = last["scores"]
BY PayloadFacts

LEMMA RerankStage ==
    ASSUME NEW call, IsCall(call), HasService(call), call.role = "rerank",
           NEW query \in Queries, NEW last, WellFormed(last)
    PROVE  LET q == Asked(query, last)
               a == RerankOf(call.name, q, Candidates(last))
               ret == Submit(call, Payload(call, query, last), last)
           IN  IF "scores" \in DOMAIN last
               THEN /\ ret = Checked(call, a)
                    /\ Answers(a, "scores")
                    /\ WellFormed(a) =>
                          \/ Docs(a["scores"].of) = Docs(last["scores"].of)
                          \/ LostFailure(call.name)
               ELSE ret = Raise("KeyError")
<1> DEFINE q == Asked(query, last)
           c == Candidates(last)
           a == RerankOf(call.name, q, c)
           payload == Payload(call, query, last)
           s == last["scores"].of
<1>1. q \in Queries /\ "limit" \notin DOMAIN last
  BY AskedFacts DEF WellFormed
<1>2. Rerank(call, payload, c) = a
  BY <1>1, RerankIs
<1> HIDE DEF payload
<1>3. Served(call, payload, last) =
          IF "scores" \in DOMAIN last THEN Rerank(call, payload, c) ELSE Raise("KeyError")
  BY DEF Served
<1>4. CASE "scores" \notin DOMAIN last
  <2>1. Submit(call, payload, last) = Checked(call, Raise("KeyError"))
    BY <1>3, <1>4 DEF Submit
  <2>2. Checked(call, Raise("KeyError")) = Raise("KeyError")
    BY RaiseFacts DEF Checked
  <2> QED  BY <1>4, <2>1, <2>2 DEF payload
<1>5. CASE "scores" \in DOMAIN last
  <2>1. last["scores"] \in DictOf
    BY <1>5 DEF WellFormed, DictWith
  <2>2. s \in Rankings /\ last["scores"] = Dict(s)
    BY <2>1, DictOfFacts
  <2>3. Worker(call.name) \in Failing \/ IsScorer(Worker(call.name))
    <3>1. <<call.name, "score">> \in Services
      BY DEF HasService, _role_to_service
    <3> QED  BY <3>1, EngineAssumption
  <2> HIDE DEF s, q
  <2>4. \/ IsRaise(a)
        \/ a = [error |-> "RuntimeError"]
        \/ \E z \in Rankings :
               /\ a = [query |-> q, scores |-> Dict(z)]
               /\ Docs(z) = Docs(s) \/ LostFailure(call.name)
    BY <1>1, <2>2, <2>3, RelayLinks, RerankOfFacts
  <2>5. Submit(call, payload, last) = Checked(call, a)
    BY <1>2, <1>3, <1>5 DEF Submit
  <2>6. Answers(a, "scores") /\ (WellFormed(a) => Docs(a["scores"].of) = Docs(s) \/ LostFailure(call.name))
    <3> HIDE DEF a
    <3>1. CASE IsRaise(a)
      <4>1. Raised(a)
        BY <3>1, RaiseFacts DEF IsRaise
      <4> QED  BY <3>1, <4>1, WellFormedNotRaised DEF Answers
    <3>2. CASE a = [error |-> "RuntimeError"]
      <4>1. ~WellFormed(a)
        BY <3>2 DEF WellFormed, DictWith, Fields
      <4> QED  BY <3>2, <4>1 DEF Answers
    <3>3. CASE \E z \in Rankings :
                   /\ a = [query |-> q, scores |-> Dict(z)]
                   /\ Docs(z) = Docs(s) \/ LostFailure(call.name)
      <4>1. PICK z \in Rankings :
                   /\ a = [query |-> q, scores |-> Dict(z)]
                   /\ Docs(z) = Docs(s) \/ LostFailure(call.name)
        BY <3>3
      <4>2. DOMAIN a = {"query", "scores"} /\ a["query"] = q /\ a["scores"] = Dict(z)
        BY <4>1
      <4>3. Dict(z) \in DictOf /\ Dict(z).of = z
        BY DictFacts
      <4>4. WellFormed(a)
        BY <1>1, <4>2, <4>3 DEF WellFormed, DictWith, Fields
      <4> QED  BY <4>1, <4>2, <4>3, <4>4 DEF Answers
    <3> QED  BY <2>4, <3>1, <3>2, <3>3
  <2> QED  BY <1>5, <2>5, <2>6 DEF payload, s, q
<1> QED  BY <1>4, <1>5

LEMMA SubmitFacts ==
    ASSUME NEW call, IsCall(call), HasService(call), NEW query \in Queries, NEW last, Handable(call, last)
    PROVE  Outcome(Submit(call, Payload(call, query, last), last), Promised(call.role))
<1> DEFINE payload == Payload(call, query, last)
           ret == Submit(call, payload, last)
<1>1. call.role \in {"search", "rerank", "expander", "merger"}
  BY DEF IsCall, _role_to_service
<1>2. CASE call.role = "search"
  <2> DEFINE a == Search(call.name, AskedFor(Asked(query, last), Wanted(call)))
             q == Asked(query, last)
  <2>1. WellFormed(last)
    BY <1>2 DEF Handable
  <2>2. /\ ret = Checked(call, a) /\ q \in Queries
        /\ \/ a = LostAnswer(call.name, q)
           \/ \E s \in Rankings : IF Muted(call.name) THEN a = Raise("RuntimeError") ELSE Found(a, q, s)
    BY <1>2, <2>1, SearchStage
  <2> HIDE DEF a, ret
  <2>3. Answers(a, "scores")
    <3>1. CASE a = LostAnswer(call.name, q)
      BY <2>2, <3>1, LostFacts
    <3>2. CASE a = Raise("RuntimeError")
      BY <3>2, RaiseFacts DEF Answers
    <3>3. CASE \E s \in Rankings : Found(a, q, s)
      BY <2>2, <3>3, FoundWellFormed DEF Answers
    <3> QED  BY <2>2, <3>1, <3>2, <3>3
  <2>4. Promised(call.role) = "scores"
    BY <1>2 DEF Promised
  <2>5. Outcome(Checked(call, a), Promised(call.role))
    BY <2>3, <2>4, CheckedFacts
  <2> QED  BY <2>2, <2>5 DEF ret
<1>3. CASE call.role = "merger"
  <2> DEFINE a == Merge(call, payload)
  <2>1. MergerDict(last)
    BY <1>3 DEF Handable
  <2>2. "limit" \notin DOMAIN last /\ "scores" \in DOMAIN last /\ last["scores"] \in DictOf \union ListsOf
    BY <2>1 DEF MergerDict, DictWith, Fields
  <2>3. payload["scores"] \in DictOf \union ListsOf
    BY <2>2, ScoresInPayload
  <2>4. Answers(a, "scores")
    BY <2>3, MergeFacts
  <2>5. ret = Checked(call, a)
    BY <1>3 DEF Submit, Served
  <2>6. Promised(call.role) = "scores"
    BY <1>3 DEF Promised
  <2> HIDE DEF a, ret
  <2>7. Outcome(Checked(call, a), Promised(call.role))
    BY <2>4, <2>6, CheckedFacts
  <2> QED  BY <2>5, <2>7 DEF ret
<1>4. CASE call.role = "expander"
  <2> DEFINE a == Expand(call, payload)
  <2>1. WellFormed(last)
    BY <1>4 DEF Handable
  <2>2. payload["query"] \in Queries
    BY <2>1, AskedFacts, PayloadFacts DEF WellFormed
  <2>3. <<call.name, "decompose_query">> \in Services
    BY <1>4 DEF HasService, _role_to_service
  <2>4. Answers(a, "queries")
    BY <2>2, <2>3, ExpandFacts
  <2>5. ret = Checked(call, a)
    BY <1>4 DEF Submit, Served
  <2>6. Promised(call.role) = "queries"
    BY <1>4 DEF Promised
  <2> HIDE DEF a, ret
  <2>7. Outcome(Checked(call, a), Promised(call.role))
    BY <2>4, <2>6, CheckedFacts
  <2> QED  BY <2>5, <2>7 DEF ret
<1>5. CASE call.role = "rerank"
  <2> DEFINE a == RerankOf(call.name, Asked(query, last), Candidates(last))
  <2>1. WellFormed(last)
    BY <1>5 DEF Handable
  <2>2. IF "scores" \in DOMAIN last
        THEN ret = Checked(call, a) /\ Answers(a, "scores")
        ELSE ret = Raise("KeyError")
    BY <1>5, <2>1, RerankStage
  <2>3. Promised(call.role) = "scores"
    BY <1>5 DEF Promised
  <2> HIDE DEF a, ret
  <2>4. CASE "scores" \in DOMAIN last
    <3>1. Outcome(Checked(call, a), Promised(call.role))
      BY <2>2, <2>3, <2>4, CheckedFacts
    <3> QED  BY <2>2, <2>4, <3>1 DEF ret
  <2>5. CASE "scores" \notin DOMAIN last
    BY <2>2, <2>5, RaiseFacts DEF Outcome, ret
  <2> QED  BY <2>4, <2>5
<1> QED  BY <1>1, <1>2, <1>3, <1>4, <1>5

LEMMA ApplyLimitFacts ==
    ASSUME NEW call, IsCall(call), NEW ret, Outcome(ret, Promised(call.role))
    PROVE  LET out == ApplyLimit(call, ret)
           IN  /\ Outcome(out, Promised(call.role))
               /\ Raised(ret) => out = ret
               /\ call.limit = NoLimit => out = ret
               /\ call.limit # NoLimit /\ ~Raised(ret) /\ call.role # "expander" =>
                      out["scores"] = Dict(dict_topk(ret["scores"].of, call.limit))
               /\ ~Raised(out) => ~Raised(ret)
<1> DEFINE out == ApplyLimit(call, ret)
<1>1. CASE IsRaise(ret)
  <2>1. Raised(ret) /\ "scores" \notin DOMAIN ret /\ "queries" \notin DOMAIN ret
    BY <1>1, RaiseFacts DEF IsRaise
  <2>2. out = ret
    BY <2>1 DEF ApplyLimit
  <2> HIDE DEF out
  <2> QED  BY <1>1, <2>1, <2>2 DEF out
<1>2. CASE call.limit = NoLimit /\ ~IsRaise(ret)
  <2>1. out = ret
    BY <1>2 DEF ApplyLimit
  <2> HIDE DEF out
  <2> QED  BY <1>2, <2>1 DEF out
<1>3. CASE call.limit # NoLimit /\ ~IsRaise(ret) /\ "scores" \in DOMAIN ret
  <2> DEFINE x == Dict(dict_topk(ret["scores"].of, call.limit))
  <2>1. WellFormed(ret) /\ Promised(call.role) \in DOMAIN ret
    BY <1>3 DEF Outcome
  <2>2. call.limit \in Nat
    BY <1>3 DEF IsCall
  <2>3. ret["scores"].of \in Rankings
    BY <1>3, <2>1, DictOfFacts DEF WellFormed, DictWith
  <2>4. dict_topk(ret["scores"].of, call.limit) \in Rankings
    BY <2>2, <2>3, TopkFacts
  <2>5. x \in DictOf
    BY <2>4, DictFacts
  <2>6. out = [ret EXCEPT !["scores"] = x]
    BY <1>3 DEF ApplyLimit
  <2> HIDE DEF x, out
  <2>7. DOMAIN out = DOMAIN ret /\ out["scores"] = x /\ \A f \in DOMAIN ret : f # "scores" => out[f] = ret[f]
    BY <1>3, <2>6
  <2>8. WellFormed(out)
    BY <2>1, <2>5, <2>7 DEF WellFormed, DictWith
  <2>9. ~Raised(out) /\ ~Raised(ret)
    BY <2>1, <2>8, WellFormedNotRaised
  <2> QED  BY <1>3, <2>1, <2>7, <2>8, <2>9 DEF Outcome, out, x
<1>4. CASE call.limit # NoLimit /\ ~IsRaise(ret) /\ "scores" \notin DOMAIN ret
  <2> DEFINE x == Truncated(ret["queries"], call.limit)
  <2>1. WellFormed(ret) /\ Promised(call.role) \in DOMAIN ret
    BY <1>4 DEF Outcome
  <2>2. call.limit \in Nat
    BY <1>4 DEF IsCall
  <2>3. call.role = "expander" /\ "queries" \in DOMAIN ret
    BY <1>4, <2>1 DEF Promised
  <2>4. ret["queries"] \in Seq(Queries)
    BY <2>1, <2>3 DEF WellFormed, DictWith
  <2>5. x \in Seq(Queries)
    BY <2>2, <2>4, TruncatedFacts
  <2>6. out = [ret EXCEPT !["queries"] = x]
    BY <1>4, <2>3 DEF ApplyLimit
  <2> HIDE DEF x, out
  <2>7. DOMAIN out = DOMAIN ret /\ out["queries"] = x /\ \A f \in DOMAIN ret : f # "queries" => out[f] = ret[f]
    BY <2>3, <2>6
  <2>8. WellFormed(out)
    BY <2>1, <2>5, <2>7 DEF WellFormed, DictWith
  <2>9. ~Raised(out) /\ ~Raised(ret)
    BY <2>1, <2>8, WellFormedNotRaised
  <2> QED  BY <1>4, <2>1, <2>3, <2>7, <2>8, <2>9 DEF Outcome, out
<1> QED  BY <1>1, <1>2, <1>3, <1>4

LEMMA RunCallFacts ==
    ASSUME NEW call, IsCall(call), HasService(call), NEW query \in Queries, NEW last, Handable(call, last)
    PROVE  LET base == Submit(call, Payload(call, query, last), last)
               ret == RunCall(call, query, last)
           IN  /\ Outcome(ret, Promised(call.role)) /\ Outcome(base, Promised(call.role))
               /\ call.limit = NoLimit => ret = base
               /\ ~Raised(ret) => ~Raised(base)
               /\ ~Raised(ret) /\ call.role # "expander" =>
                      /\ base["scores"].of \in Rankings /\ ret["scores"].of \in Rankings
                      /\ call.limit # NoLimit =>
                            ret["scores"].of = dict_topk(base["scores"].of, call.limit)
<1> DEFINE base == Submit(call, Payload(call, query, last), last)
           ret == RunCall(call, query, last)
<1>1. Outcome(base, Promised(call.role))
  BY SubmitFacts
<1>2. ret = ApplyLimit(call, base)
  BY DEF RunCall
<1> HIDE DEF base, ret
<1>3. /\ Outcome(ret, Promised(call.role))
      /\ call.limit = NoLimit => ret = base
      /\ call.limit # NoLimit /\ ~Raised(base) /\ call.role # "expander" =>
             ret["scores"] = Dict(dict_topk(base["scores"].of, call.limit))
      /\ ~Raised(ret) => ~Raised(base)
  BY <1>1, <1>2, ApplyLimitFacts
<1>4. ASSUME ~Raised(ret), call.role # "expander"
      PROVE  /\ base["scores"].of \in Rankings /\ ret["scores"].of \in Rankings
             /\ call.limit # NoLimit => ret["scores"].of = dict_topk(base["scores"].of, call.limit)
  <2>1. Promised(call.role) = "scores"
    BY <1>4 DEF Promised
  <2>2. /\ WellFormed(ret) /\ "scores" \in DOMAIN ret
        /\ WellFormed(base) /\ "scores" \in DOMAIN base
    BY <1>1, <1>3, <1>4, <2>1, RaiseFacts DEF Outcome, IsRaise
  <2>3. base["scores"].of \in Rankings /\ ret["scores"].of \in Rankings
    BY <2>2, DictOfFacts DEF WellFormed, DictWith
  <2> QED  BY <1>3, <1>4, <2>3, DictFacts
<1> QED  BY <1>1, <1>3, <1>4 DEF base, ret

LEMMA ReturnedIsNoRaise == ASSUME NEW ret, ~Raised(ret) PROVE \A class : ret # Raise(class)
BY RaiseFacts

LEMMA DifferentRaises == ASSUME NEW c, NEW d, c # d PROVE Raise(c) # Raise(d)
<1>1. Raise(c).raised = c /\ Raise(d).raised = d
  BY DEF Raise
<1> QED  BY <1>1

LEMMA RelayRaises ==
    ASSUME NEW asked, NEW reply, NEW nothing
    PROVE  Relay(asked, reply, nothing) # Raise("KeyError")
<1>1. Raise("RoutirClientError") # Raise("KeyError") /\ Raise("RuntimeError") # Raise("KeyError")
  BY DifferentRaises
<1>2. ~Raised([query |-> asked.query, scores |-> Field(reply, "scores", nothing)])
  BY DEF Raised
<1>3. [query |-> asked.query, scores |-> Field(reply, "scores", nothing)] # Raise("KeyError")
  BY <1>2, ReturnedIsNoRaise
<1> QED  BY <1>1, <1>3, RelayCases

LEMMA AnsweredRaises ==
    ASSUME NEW name, NEW q, NEW ret, ret = Raise("RuntimeError") \/ ~Raised(ret)
    PROVE  Answered(name, q, ret) # Raise("KeyError")
<1>1. ret # Raise("KeyError")
  BY DifferentRaises, ReturnedIsNoRaise
<1>2. [error |-> ret.raised] # Raise("KeyError")
  <2>1. ~Raised([error |-> ret.raised])
    BY DEF Raised
  <2> QED  BY <2>1, ReturnedIsNoRaise
<1>3. ASSUME ~Raised(ret) PROVE [query |-> q] ++ ret # Raise("KeyError")
  <2> DEFINE a == [query |-> q]
             both == a ++ ret
  <2>1. DOMAIN a = {"query"}
    OBVIOUS
  <2> HIDE DEF a
  <2>2. DOMAIN both = DOMAIN a \union DOMAIN ret
    BY PlusFacts
  <2> HIDE DEF both
  <2>3. ~Raised(both)
    BY <1>3, <2>1, <2>2 DEF Raised
  <2>4. both # Raise("KeyError")
    BY <2>3, ReturnedIsNoRaise
  <2> QED  BY <2>4 DEF both, a
<1>4. CASE name \in AutoRegistered
  BY <1>1, <1>4 DEF Answered
<1>5. CASE name \notin AutoRegistered /\ Raised(ret)
  BY <1>2, <1>5 DEF Answered
<1>6. CASE name \notin AutoRegistered /\ ~Raised(ret)
  BY <1>3, <1>6 DEF Answered
<1> QED  BY <1>4, <1>5, <1>6

LEMMA RerankFindsItsWay ==
    ASSUME NEW call, NEW payload, NEW candidates
    PROVE  Rerank(call, payload, candidates) # Raise("KeyError")
<1> DEFINE asked == ScorePayload([passages |-> PassagesOf(candidates)] ++ payload)
           reply == ScoreAnswer(Worker(call.name), asked)
           scored == Scores(call.name, asked)
           rescored == Rescored(candidates, scored)
<1>1. scored # Raise("KeyError")
  <2>1. CASE call.name \in DOMAIN RelayOf
    BY <2>1, RelayRaises DEF Scores, ScoreThrough
  <2>2. CASE call.name \notin DOMAIN RelayOf
    <3>1. scored = reply
      BY <2>2 DEF Scores, ScoreThrough
    <3>2. ~Raised(reply)
      BY DEF ScoreAnswer, Raised
    <3> HIDE DEF reply, scored
    <3> QED  BY <3>1, <3>2, ReturnedIsNoRaise
  <2> QED  BY <2>1, <2>2
<1> HIDE DEF asked, scored
<1>2. rescored # Raise("KeyError")
  <2>1. CASE Raised(scored) \/ "scores" \notin DOMAIN scored
    BY <1>1, <2>1 DEF Rescored
  <2>2. CASE ~Raised(scored) /\ "scores" \in DOMAIN scored
    <3>1. DOMAIN rescored = DOMAIN scored
      BY <2>2 DEF Rescored
    <3>2. ~Raised(rescored)
      BY <2>2, <3>1 DEF Raised
    <3> HIDE DEF rescored
    <3> QED  BY <3>2, ReturnedIsNoRaise
  <2> QED  BY <2>1, <2>2
<1>3. Raise("RuntimeError") # Raise("KeyError")
  BY DifferentRaises
<1> HIDE DEF rescored
<1>4. \/ Rerank(call, payload, candidates) = rescored
      \/ Rerank(call, payload, candidates) = Raise("RuntimeError")
  BY DEF Rerank, rescored, scored, asked
<1> QED  BY <1>2, <1>3, <1>4

\* A call raises what its service or its relay raises, or RuntimeError.
LEMMA SearchFindsItsWay ==
    ASSUME NEW name, NEW asked
    PROVE  Search(name, asked) # Raise("KeyError")
<1> DEFINE ret == Search(name, asked)
<1>1. CASE name \in DOMAIN RelayOf
  BY <1>1, RelayRaises DEF Search, SearchThrough
<1>2. CASE name \notin DOMAIN RelayOf
  <2> DEFINE found == EngineSearch(Worker(name), asked.query, asked.limit)
  <2>1. ret = Answered(Worker(name), asked.query, found)
    BY <1>2 DEF Search, SearchThrough, SearchAnswer
  <2>2. found = Raise("RuntimeError") \/ ~Raised(found)
    BY RaiseFacts DEF EngineSearch, RerankedSearch, OrRaise, Raised
  <2> HIDE DEF found
  <2> QED  BY <2>1, <2>2, AnsweredRaises
<1> QED  BY <1>1, <1>2

LEMMA RunCallFindsItsWay ==
    ASSUME NEW call, IsCall(call), HasService(call), NEW query \in Queries, NEW last, Handable(call, last),
           call.role = "rerank" => "scores" \in DOMAIN last
    PROVE  RunCall(call, query, last) # Raise("KeyError")
<1> DEFINE payload == Payload(call, query, last)
           served == Served(call, payload, last)
           base == Submit(call, payload, last)
           ret == RunCall(call, query, last)
<1>1. served # Raise("KeyError")
  <2>1. CASE call.role = "search"
    BY <2>1, SearchFindsItsWay DEF Served
  <2>2. CASE call.role = "merger"
    <3>1. served = Merge(call, payload)
      BY <2>2 DEF Served
    <3>2. Raise("AttributeError") # Raise("KeyError")
      BY DifferentRaises
    <3>3. \A x : [scores |-> x] # Raise("KeyError")
      BY ReturnedIsNoRaise DEF Raised
    <3> QED  BY <3>1, <3>2, <3>3 DEF Merge
  <2>3. CASE call.role = "expander"
    <3> DEFINE found == IF call.name \in Failing THEN Raise("RuntimeError")
                        ELSE [queries |-> SubQueries[call.name][payload.query]]
    <3>1. served = Answered(call.name, payload.query, found)
      BY <2>3 DEF Served, Expand
    <3>2. found = Raise("RuntimeError") \/ ~Raised(found)
      BY DEF Raised
    <3> HIDE DEF found
    <3> QED  BY <3>1, <3>2, AnsweredRaises
  <2>4. CASE call.role = "rerank"
    <3>1. served = Rerank(call, payload, Candidates(last))
      BY <2>4 DEF Served
    <3> QED  BY <3>1, RerankFindsItsWay
  <2> QED  BY <2>1, <2>2, <2>3, <2>4 DEF IsCall, _role_to_service
<1>2. base = Checked(call, served)
  BY DEF Submit
<1>3. ret = ApplyLimit(call, base)
  BY DEF RunCall
<1> HIDE DEF served, base, ret
<1>4. base # Raise("KeyError")
  BY <1>1, <1>2, DifferentRaises DEF Checked
<1>5. Outcome(base, Promised(call.role)) /\ Outcome(ret, Promised(call.role))
  BY RunCallFacts DEF base, ret, payload
<1>6. CASE Raised(base)
  <2>1. DOMAIN base = {"raised"}
    BY <1>5, <1>6, WellFormedNotRaised, RaiseFacts DEF Outcome, IsRaise
  <2>2. ret = base
    BY <1>3, <2>1 DEF ApplyLimit
  <2> QED  BY <1>4, <2>2 DEF ret
<1>7. CASE ~Raised(base)
  <2>1. DOMAIN ret = DOMAIN base
    BY <1>3 DEF ApplyLimit
  <2>2. ~Raised(ret)
    BY <1>7, <2>1 DEF Raised
  <2> QED  BY <2>2, ReturnedIsNoRaise DEF ret
<1> QED  BY <1>6, <1>7 DEF ret

-----------------------------------------------------------------------------
(***************************************************************************)
(* What a limit does to a call.                                            *)
(***************************************************************************)
Freed(call) == [call EXCEPT !.limit = NoLimit]

LEMMA FreedFacts ==
    ASSUME NEW call, IsCall(call)
    PROVE  LET c == Freed(call)
           IN  /\ IsCall(c) /\ c.limit = NoLimit /\ c.name = call.name /\ c.role = call.role
               /\ HasService(call) => HasService(c)
               /\ \A last : Handable(call, last) => Handable(c, last)
               /\ \A a : Checked(c, a) = Checked(call, a)
<1> DEFINE c == Freed(call)
<1>1. /\ DOMAIN c = DOMAIN call /\ c.limit = NoLimit /\ c.name = call.name /\ c.role = call.role
      /\ NoLimit \in Nat \union {NoLimit}
  BY DEF IsCall, Freed
<1> HIDE DEF c
<1>2. IsCall(c)
  BY <1>1 DEF IsCall
<1>3. HasService(call) => HasService(c)
  BY <1>1 DEF HasService
<1>4. \A last : Handable(call, last) => Handable(c, last)
  BY <1>1 DEF Handable
<1>5. \A a : Checked(c, a) = Checked(call, a)
  BY <1>1 DEF Checked
<1> QED  BY <1>1, <1>2, <1>3, <1>4, <1>5 DEF c

LEMMA LimitFacts == ASSUME NEW k \in 0..1000 PROVE k # NoLimit /\ k \in Nat /\ k <= 1000
BY DEF NoLimit

\* Mergers and rerankers answer alike with and without a limit.
LEMMA SubmitWithoutLimit ==
    ASSUME NEW call, IsCall(call), HasService(call), call.role \in {"merger", "rerank"},
           NEW query \in Queries, NEW last, Handable(call, last)
    PROVE  Submit(Freed(call), Payload(Freed(call), query, last), last) =
               Submit(call, Payload(call, query, last), last)
<1> DEFINE c == Freed(call)
           p == Payload(call, query, last)
           r == Payload(c, query, last)
<1>1. /\ IsCall(c) /\ c.name = call.name /\ c.role = call.role /\ HasService(c)
      /\ \A a : Checked(c, a) = Checked(call, a)
      /\ Handable(c, last)
  BY FreedFacts
<1> HIDE DEF c
<1>2. CASE call.role = "merger"
  <2>1. "limit" \notin DOMAIN last /\ "scores" \in DOMAIN last
    BY <1>2 DEF Handable, MergerDict, DictWith, Fields
  <2>2. p["scores"] = last["scores"] /\ r["scores"] = last["scores"]
    BY <2>1, ScoresInPayload
  <2> HIDE DEF p, r
  <2>3. Merge(c, r) = Merge(call, p)
    <3>1. \A x : Fused(c, x) = Fused(call, x)
      BY <1>1 DEF Fused
    <3> QED  BY <2>2, <3>1 DEF Merge
  <2>4. Submit(call, p, last) = Checked(call, Merge(call, p))
    BY <1>2 DEF Submit, Served
  <2>5. Submit(c, r, last) = Checked(c, Merge(c, r))
    BY <1>1, <1>2 DEF Submit, Served
  <2> QED  BY <1>1, <2>3, <2>4, <2>5 DEF p, r, c
<1>3. CASE call.role = "rerank"
  <2> DEFINE a == RerankOf(call.name, Asked(query, last), Candidates(last))
             x == Submit(call, p, last)
             y == Submit(c, r, last)
  <2>1. WellFormed(last)
    BY <1>3 DEF Handable
  <2>2. IF "scores" \in DOMAIN last THEN x = Checked(call, a) ELSE x = Raise("KeyError")
    BY <1>3, <2>1, RerankStage
  <2>3. IF "scores" \in DOMAIN last THEN y = Checked(c, a) ELSE y = Raise("KeyError")
    BY <1>1, <1>3, <2>1, RerankStage
  <2> HIDE DEF a, x, y
  <2>4. x = y
    BY <1>1, <2>2, <2>3
  <2> QED  BY <2>4 DEF x, y, c
<1> QED  BY <1>2, <1>3

\* The limit then takes the best of what was answered.
LEMMA SameAnswerKeepsTheBest ==
    ASSUME NEW call, IsCall(call), HasService(call), call.role # "expander", call.limit \in 0..1000,
           NEW query \in Queries, NEW last, Handable(call, last),
           ~Raised(RunCall(call, query, last)),
           Submit(Freed(call), Payload(Freed(call), query, last), last) =
               Submit(call, Payload(call, query, last), last)
    PROVE  LET free == RunCall(Freed(call), query, last)
           IN  /\ ~Raised(free)
               /\ HoldsTheBest(RunCall(call, query, last)["scores"].of, call.limit, free["scores"].of)
<1> DEFINE c == Freed(call)
           free == RunCall(c, query, last)
           ret == RunCall(call, query, last)
           base == Submit(call, Payload(call, query, last), last)
<1>1. IsCall(c) /\ c.limit = NoLimit /\ HasService(c) /\ Handable(c, last)
  BY FreedFacts
<1>2. free = Submit(c, Payload(c, query, last), last)
  BY <1>1, RunCallFacts
<1>3. free = base
  BY <1>2
<1>4. call.limit # NoLimit /\ call.limit \in Nat
  BY LimitFacts, SMTT(60)
<1>5. /\ ~Raised(base) /\ base["scores"].of \in Rankings
      /\ ret["scores"].of = dict_topk(base["scores"].of, call.limit)
  BY <1>4, RunCallFacts
<1> HIDE DEF ret, base, free
<1>6. HoldsTheBest(ret["scores"].of, call.limit, base["scores"].of)
  BY <1>4, <1>5, TopkFacts
<1> QED  BY <1>3, <1>5, <1>6 DEF ret, free, c

LEMMA SearchKeepsTheBest ==
    ASSUME NEW call, IsCall(call), HasService(call), call.role = "search", call.limit \in 0..1000,
           ~Composed(call.name), Worker(call.name) \notin Failing,
           NEW query \in Queries, NEW last, Handable(call, last),
           ~Raised(RunCall(call, query, last))
    PROVE  LET free == RunCall(Freed(call), query, last)
           IN  /\ ~Raised(free)
               /\ HoldsTheBest(RunCall(call, query, last)["scores"].of, call.limit, free["scores"].of)
<1> DEFINE c == Freed(call)
           free == RunCall(c, query, last)
           ret == RunCall(call, query, last)
           base == Submit(call, Payload(call, query, last), last)
           w == Worker(call.name)
           q == Asked(query, last)
           k == call.limit
           a == Search(call.name, AskedFor(q, k))
           b == Search(call.name, AskedFor(q, 1000))
           all == Hits[w][q]
<1>1. /\ IsCall(c) /\ c.limit = NoLimit /\ HasService(c) /\ Handable(c, last)
      /\ c.name = call.name /\ c.role = call.role
      /\ \A x : Checked(c, x) = Checked(call, x)
  BY FreedFacts
<1>2. k # NoLimit /\ k \in Nat /\ k <= 1000 /\ WellFormed(last)
  <2>1. WellFormed(last)
    BY DEF Handable
  <2>2. call.limit # NoLimit /\ call.limit \in Nat /\ call.limit <= 1000
    BY LimitFacts, SMTT(60)
  <2> QED  BY <2>1, <2>2
<1>3. Wanted(call) = k /\ Wanted(c) = 1000
  BY <1>1, <1>2 DEF Wanted
<1>4. /\ base = Checked(call, a) /\ Searches(w) /\ q \in Queries
      /\ \/ EngineSearch(w, q, k) = Raise("RuntimeError")
         \/ \E s \in Rankings :
                /\ EngineSearch(w, q, k) = [scores |-> Dict(s)]
                /\ IF Muted(call.name) THEN a = Raise("RuntimeError") ELSE Found(a, q, s)
  BY <1>2, <1>3, SearchStage
<1>5. /\ Submit(c, Payload(c, query, last), last) = Checked(c, b)
      /\ \/ EngineSearch(w, q, 1000) = Raise("RuntimeError")
         \/ \E s \in Rankings :
                /\ EngineSearch(w, q, 1000) = [scores |-> Dict(s)]
                /\ IF Muted(call.name) THEN b = Raise("RuntimeError") ELSE Found(b, q, s)
  BY <1>1, <1>2, <1>3, SearchStage
<1>6. /\ w \notin Failing \union DOMAIN Rerankers \union DOMAIN Fusions
      /\ IsRanker(w)
      /\ EngineSearch(w, q, k) = [scores |-> Dict(Truncated(all, k))]
      /\ EngineSearch(w, q, 1000) = [scores |-> Dict(Truncated(all, 1000))]
  <2>1. w \notin Failing \union DOMAIN Rerankers \union DOMAIN Fusions
    BY DEF Composed
  <2>2. 1000 \in Nat
    OBVIOUS
  <2> QED  BY <1>2, <1>4, <2>1, <2>2, EngineSearchFacts
<1>7. all \in Rankings /\ BestFirst(all)
  BY <1>4, <1>6 DEF IsRanker
<1>8. \A x, y : [scores |-> Dict(x)] = [scores |-> Dict(y)] => x = y
  <2> TAKE x, y
  <2> HAVE [scores |-> Dict(x)] = [scores |-> Dict(y)]
  <2>1. Dict(x) = Dict(y)
    OBVIOUS
  <2> QED  BY <2>1, DictFacts
<1>9. \A x : [scores |-> Dict(x)] # Raise("RuntimeError")
  <2> TAKE x
  <2>1. DOMAIN [scores |-> Dict(x)] = {"scores"} /\ DOMAIN Raise("RuntimeError") = {"raised"}
    BY RaiseFacts
  <2> QED  BY <2>1
<1>10. ~Raised(base) /\ ret["scores"].of = dict_topk(base["scores"].of, k)
  BY <1>2, RunCallFacts
<1>11. free = Checked(call, b)
  <2>1. free = Submit(c, Payload(c, query, last), last)
    BY <1>1, RunCallFacts
  <2> QED  BY <1>1, <1>5, <2>1
<1> HIDE DEF free, ret, base, a, b, all, w, q
<1>12. /\ IF Muted(call.name) THEN a = Raise("RuntimeError") ELSE Found(a, q, Truncated(all, k))
       /\ IF Muted(call.name) THEN b = Raise("RuntimeError") ELSE Found(b, q, Truncated(all, 1000))
  <2>1. EngineSearch(w, q, k) # Raise("RuntimeError") /\ EngineSearch(w, q, 1000) # Raise("RuntimeError")
    BY <1>6, <1>9
  <2>2. PICK s \in Rankings :
            /\ EngineSearch(w, q, k) = [scores |-> Dict(s)]
            /\ IF Muted(call.name) THEN a = Raise("RuntimeError") ELSE Found(a, q, s)
    BY <1>4, <2>1
  <2>3. PICK t \in Rankings :
            /\ EngineSearch(w, q, 1000) = [scores |-> Dict(t)]
            /\ IF Muted(call.name) THEN b = Raise("RuntimeError") ELSE Found(b, q, t)
    BY <1>5, <2>1
  <2>4. s = Truncated(all, k) /\ t = Truncated(all, 1000)
    BY <1>6, <1>8, <2>2, <2>3
  <2> QED  BY <2>2, <2>3, <2>4
<1>13. Found(a, q, Truncated(all, k)) /\ Found(b, q, Truncated(all, 1000))
  <2>1. SUFFICES ASSUME Muted(call.name) PROVE FALSE
    BY <1>12
  <2>2. a = Raise("RuntimeError")
    BY <1>12, <2>1
  <2>3. base = Raise("RuntimeError")
    BY <1>4, <2>2, RaiseFacts DEF Checked
  <2> QED  BY <1>10, <2>3, RaiseFacts
<1>14. Promised(call.role) = "scores"
  BY DEF Promised
<1>15. base = a
  <2>1. WellFormed(a) /\ "scores" \in DOMAIN a
    BY <1>4, <1>13, FoundWellFormed
  <2> QED  BY <1>4, <1>14, <2>1 DEF Checked
<1>16. free = b /\ ~Raised(b)
  BY <1>4, <1>11, <1>13, <1>14, FoundWellFormed, WellFormedNotRaised DEF Checked
<1>17. PICK s \in Rankings : a["scores"] = Dict(s) /\ Same(s, Truncated(all, k))
  BY <1>13 DEF Found
<1>18. PICK t \in Rankings : b["scores"] = Dict(t) /\ Same(t, Truncated(all, 1000))
  BY <1>13 DEF Found
<1>19. HoldsTheBest(dict_topk(s, k), k, t)
  <2>1. /\ Items(s) = Items(Truncated(all, k)) /\ Len(s) = Len(Truncated(all, k))
        /\ Items(t) = Items(Truncated(all, 1000)) /\ Len(t) = Len(Truncated(all, 1000))
    BY <1>17, <1>18 DEF Same
  <2>2. 1000 \in Nat
    OBVIOUS
  <2> QED  BY <1>2, <1>7, <2>1, <2>2, CutFirst
<1>20. a["scores"].of = s /\ b["scores"].of = t
  BY <1>17, <1>18, DictFacts
<1>21. ret["scores"].of = dict_topk(s, k) /\ free["scores"].of = t
  BY <1>10, <1>15, <1>16, <1>20
<1> QED  BY <1>16, <1>19, <1>21 DEF ret, free, c

\* For LimitKeepsTheBest.
LEMMA CallKeepsTheBest ==
    ASSUME NEW call, IsCall(call), HasService(call), call.role # "expander", call.limit \in 0..1000,
           ~(call.role = "search" /\ Composed(call.name)),
           NEW query \in Queries, NEW last, Handable(call, last),
           ~Raised(RunCall(call, query, last))
    PROVE  LET free == RunCall(Freed(call), query, last)
           IN  /\ ~Raised(free)
               /\ HoldsTheBest(RunCall(call, query, last)["scores"].of, call.limit, free["scores"].of)
<1>1. call.role \in {"search", "rerank", "merger"}
  BY DEF IsCall, _role_to_service
<1>2. CASE call.role \in {"rerank", "merger"}
  BY <1>2, SubmitWithoutLimit, SameAnswerKeepsTheBest
<1>3. CASE call.role = "search" /\ Worker(call.name) \notin Failing
  BY <1>3, SearchKeepsTheBest
<1>4. CASE call.role = "search" /\ Worker(call.name) \in Failing
  <2> DEFINE c == Freed(call)
             q == Asked(query, last)
             lost == LostAnswer(call.name, q)
  <2>1. /\ IsCall(c) /\ HasService(c) /\ c.name = call.name /\ c.role = call.role
        /\ \A x : Checked(c, x) = Checked(call, x)
        /\ Wanted(c) \in Nat /\ Wanted(call) \in Nat /\ WellFormed(last)
    BY <1>4, FreedFacts, WantedFacts DEF Handable
  <2>2. q \in Queries
    BY <2>1, AskedFacts DEF WellFormed
  <2>3. Searches(Worker(call.name))
    BY <1>4, <2>1, SearchStage
  <2>4. \A k \in Nat : EngineSearch(Worker(call.name), q, k) = Raise("RuntimeError")
    BY <1>4, <2>2, <2>3, EngineSearchFacts
  <2>5. \A k \in Nat : Search(call.name, AskedFor(q, k)) = lost
    BY <2>4, SearchLost, RelayLinks
  <2> HIDE DEF lost, q
  <2>6. Submit(call, Payload(call, query, last), last) = Checked(call, lost)
    BY <1>4, <2>1, <2>5, SearchStage DEF q
  <2> HIDE DEF c
  <2>7. Submit(c, Payload(c, query, last), last) = Checked(c, lost)
    BY <1>4, <2>1, <2>5, SearchStage DEF q
  <2>8. Submit(Freed(call), Payload(Freed(call), query, last), last) =
            Submit(call, Payload(call, query, last), last)
    BY <2>1, <2>6, <2>7 DEF c
  <2> QED  BY <2>8, SameAnswerKeepsTheBest
<1> QED  BY <1>1, <1>2, <1>3, <1>4

\* For RerankKeepsTheCandidates.
LEMMA CallKeepsTheCandidates ==
    ASSUME NEW call, IsCall(call), HasService(call), call.role = "rerank", ~LostFailure(call.name),
           NEW query \in Queries, NEW last, Handable(call, last),
           ~Raised(RunCall(call, query, last))
    PROVE  LET before == Docs(last["scores"].of)
               after == Docs(RunCall(call, query, last)["scores"].of)
           IN  /\ after \subseteq before
               /\ after = before \/ Cardinality(after) = call.limit
<1> DEFINE ret == RunCall(call, query, last)
           base == Submit(call, Payload(call, query, last), last)
           a == RerankOf(call.name, Asked(query, last), Candidates(last))
<1>1. WellFormed(last)
  BY DEF Handable
<1>2. IF "scores" \in DOMAIN last
      THEN /\ base = Checked(call, a) /\ Answers(a, "scores")
           /\ WellFormed(a) => Docs(a["scores"].of) = Docs(last["scores"].of)
      ELSE base = Raise("KeyError")
  BY <1>1, RerankStage
<1>3. /\ ~Raised(base) /\ base["scores"].of \in Rankings
      /\ call.limit = NoLimit => ret = base
      /\ call.limit # NoLimit => ret["scores"].of = dict_topk(base["scores"].of, call.limit)
  BY RunCallFacts
<1>4. call.limit # NoLimit => call.limit \in Nat
  BY DEF IsCall
<1>5. Promised(call.role) = "scores"
  BY DEF Promised
<1> HIDE DEF ret, base, a
<1>6. base = Checked(call, a) /\ Answers(a, "scores")
      /\ (WellFormed(a) => Docs(a["scores"].of) = Docs(last["scores"].of))
  BY <1>2, <1>3, RaiseFacts
<1>7. base = a /\ WellFormed(a)
  BY <1>3, <1>5, <1>6, CheckedFacts
<1>8. Docs(base["scores"].of) = Docs(last["scores"].of)
  BY <1>6, <1>7
<1>9. CASE call.limit = NoLimit
  BY <1>3, <1>8, <1>9 DEF ret
<1>10. CASE call.limit # NoLimit
  <2> DEFINE s == base["scores"].of
             t == dict_topk(s, call.limit)
  <2>1. Docs(t) \subseteq Docs(s) /\ (Docs(t) = Docs(s) \/ Cardinality(Docs(t)) = call.limit)
    BY <1>3, <1>4, <1>10, TopkKeepsOrFills
  <2>2. ret["scores"].of = t
    BY <1>3, <1>10
  <2> HIDE DEF t, s
  <2> QED  BY <1>8, <2>1, <2>2 DEF ret, s
<1> QED  BY <1>9, <1>10

\* The best k of the best k are the best k.
LEMMA TopkAgain ==
    ASSUME NEW z \in Rankings, NEW k \in Nat, NEW t \in Rankings,
           t = dict_topk(z, k) \/ t = dict_topk(dict_topk(z, k), k)
    PROVE  /\ Items(t) \subseteq Items(z)
           /\ \A d \in Docs(z) \ Docs(t) :
                  /\ Len(t) = k
                  /\ \A e \in Items(z) : e.doc = d => \A f \in Items(t) : e.score <= f.score
<1> DEFINE s == dict_topk(z, k)
           u == dict_topk(s, k)
<1>1. s \in Rankings /\ HoldsTheBest(s, k, z)
  BY TopkFacts
<1>2. Len(z) \in Nat /\ Len(s) \in Nat /\ Len(s) = IF k < Len(z) THEN k ELSE Len(z)
  BY <1>1, RankingFacts DEF HoldsTheBest
<1>3. Docs(s) = Docs(z) \/ Len(s) = k
  <2>1. Docs(s) = Docs(z) \/ Cardinality(Docs(s)) = k
    BY TopkKeepsOrFills
  <2> QED  BY <1>1, <2>1, DocsCount
<1> HIDE DEF s
<1>4. u \in Rankings /\ HoldsTheBest(u, k, s)
  BY <1>1, TopkFacts
<1>5. Len(u) = Len(s) /\ Items(u) \subseteq Items(s)
  BY <1>2, <1>4 DEF HoldsTheBest
<1>6. Docs(u) = Docs(s)
  <2>1. Docs(u) \subseteq Docs(s)
    BY <1>5, DocsOfItems
  <2>2. IsFiniteSet(Docs(s)) /\ Cardinality(Docs(s)) = Cardinality(Docs(u))
    BY <1>1, <1>4, <1>5, DocsCount
  <2> QED  BY <2>1, <2>2, FS_Subset
<1>7. t \in {s, u}
  BY DEF s
<1> HIDE DEF u
<1>8. Items(t) \subseteq Items(s) /\ Docs(t) = Docs(s) /\ Len(t) = Len(s)
  BY <1>5, <1>6, <1>7
<1>9. Items(s) \subseteq Items(z)
      /\ \A e \in Items(z) \ Items(s), i \in DOMAIN s : e.score <= s[i].score
  BY <1>1 DEF HoldsTheBest
<1>10. ASSUME NEW d \in Docs(z) \ Docs(t)
       PROVE  /\ Len(t) = k
              /\ \A e \in Items(z) : e.doc = d => \A f \in Items(t) : e.score <= f.score
  <2>1. Len(t) = k
    BY <1>3, <1>8, <1>10
  <2>2. ASSUME NEW e \in Items(z), e.doc = d, NEW f \in Items(t) PROVE e.score <= f.score
    <3>1. e \notin Items(s)
      <4>1. d \notin Docs(s)
        BY <1>8
      <4> QED  BY <2>2, <4>1, DocsOfItems
    <3>2. PICK i \in DOMAIN s : f = s[i]
      <4>1. f \in Items(s)
        BY <1>8
      <4> QED  BY <4>1 DEF Items
    <3> QED  BY <1>9, <3>1, <3>2
  <2> QED  BY <2>1, <2>2
<1> QED  BY <1>8, <1>9, <1>10

\* For RerankersReadTheirTexts.
LEMMA CallReadsTheTexts ==
    ASSUME NEW call, IsCall(call), HasService(call), call.role = "search",
           call.name \in DOMAIN Rerankers \ DOMAIN RelayOf,
           NEW query \in Queries, NEW last, Handable(call, last),
           ~Raised(RunCall(call, query, last))
    PROVE  LET engine == Rerankers[call.name]
               asked == Asked(query, last)
               limit == Wanted(call)
               found == Docs(Ranked(engine.upstream, asked, UpstreamLimit(limit)).of)
               own(doc) == Score[engine.scorer][asked][doc]
               kept == RunCall(call, query, last)["scores"].of
           IN  /\ Docs(kept) \subseteq found
               /\ \A e \in Items(kept) : e.score = own(e.doc)
               /\ \A d \in found \ Docs(kept) :
                      Len(kept) = limit /\ \A e \in Items(kept) : own(d) <= e.score
<1> DEFINE engine == Rerankers[call.name]
           q == Asked(query, last)
           k == Wanted(call)
           found == Docs(Ranked(engine.upstream, q, UpstreamLimit(k)).of)
           own(doc) == Score[engine.scorer][q][doc]
           ret == RunCall(call, query, last)
           base == Submit(call, Payload(call, query, last), last)
           kept == ret["scores"].of
           w == Worker(call.name)
           a == Search(call.name, AskedFor(q, k))
<1>1. WellFormed(last) /\ w = call.name /\ ~Muted(call.name)
  BY DEF Handable, Worker, Muted
<1>2. /\ base = Checked(call, a)
      /\ Searches(w) /\ q \in Queries /\ k \in Nat
      /\ \/ EngineSearch(w, q, k) = Raise("RuntimeError") /\ a = LostAnswer(call.name, q)
         \/ \E s \in Rankings : EngineSearch(w, q, k) = [scores |-> Dict(s)] /\ Found(a, q, s)
  BY <1>1, SearchStage
<1>3. /\ ~Raised(base) /\ base["scores"].of \in Rankings /\ kept \in Rankings
      /\ call.limit = NoLimit => ret = base
      /\ call.limit # NoLimit => kept = dict_topk(base["scores"].of, call.limit)
  BY RunCallFacts
<1>4. Promised(call.role) = "scores"
  BY DEF Promised
<1>5. /\ EngineSearch(w, q, k) # Raise("RuntimeError") =>
             \E s \in Rankings :
                 EngineSearch(w, q, k) = [scores |-> Dict(s)] /\ FoundBy(engine, q, k, s)
  BY <1>1, <1>2, EngineSearchFacts
<1>6. a = IF call.name \in AutoRegistered THEN EngineSearch(w, q, k)
          ELSE IF Raised(EngineSearch(w, q, k)) THEN [error |-> EngineSearch(w, q, k).raised]
               ELSE [query |-> q] ++ EngineSearch(w, q, k)
  BY <1>1 DEF Search, SearchThrough, SearchAnswer, Answered, AskedFor
<1> HIDE DEF ret, base, a, w, q, k, found, engine
<1>7. EngineSearch(w, q, k) # Raise("RuntimeError")
  <2>1. SUFFICES ASSUME EngineSearch(w, q, k) = Raise("RuntimeError") PROVE FALSE
    OBVIOUS
  <2>2. a \in {Raise("RuntimeError"), [error |-> "RuntimeError"]}
    <3>1. Raised(Raise("RuntimeError")) /\ Raise("RuntimeError").raised = "RuntimeError"
      BY DEF Raised, Raise
    <3> QED  BY <1>6, <2>1, <3>1
  <2>3. Answers(a, "scores") /\ ~WellFormed(a)
    <3>1. ~WellFormed(Raise("RuntimeError"))
      BY RaiseFacts, WellFormedNotRaised
    <3>2. ~WellFormed([error |-> "RuntimeError"])
      BY DEF WellFormed, DictWith, Fields
    <3> QED  BY <2>2, <3>1, <3>2, RaiseFacts DEF Answers
  <2> QED  BY <1>2, <1>3, <1>4, <2>3, CheckedFacts
<1>8. PICK s \in Rankings : EngineSearch(w, q, k) = [scores |-> Dict(s)] /\ FoundBy(engine, q, k, s)
  BY <1>5, <1>7
<1>9. "scores" \in DOMAIN a /\ a["scores"] = Dict(s)
  <2> DEFINE e == [scores |-> Dict(s)]
             b == [query |-> q]
  <2>1. ~Raised(e) /\ DOMAIN e = {"scores"} /\ e["scores"] = Dict(s)
    BY DEF Raised
  <2>2. DOMAIN b = {"query"}
    OBVIOUS
  <2>3. EngineSearch(w, q, k) = e
    BY <1>8
  <2> HIDE DEF e, b
  <2>4. a = IF call.name \in AutoRegistered THEN e ELSE b ++ e
    BY <1>6, <2>1, <2>3 DEF b
  <2>5. /\ DOMAIN (b ++ e) = DOMAIN b \union DOMAIN e
        /\ \A f \in DOMAIN e : f \notin DOMAIN b => (b ++ e)[f] = e[f]
    BY PlusFacts, ZenonT(60)
  <2> QED  BY <2>1, <2>2, <2>4, <2>5
<1>10. base = a
  BY <1>2, <1>4, <1>9 DEF Checked
<1>11. base["scores"].of = s
  BY <1>9, <1>10, DictFacts
<1>12. PICK z \in Rankings :
           /\ s = dict_topk(z, k) /\ Docs(z) = found
           /\ \A e \in Items(z) : e.score = own(e.doc)
  BY <1>8 DEF FoundBy, found
<1>13. kept = dict_topk(z, k) \/ kept = dict_topk(dict_topk(z, k), k)
  <2>1. CASE call.limit = NoLimit
    BY <1>3, <1>11, <1>12, <2>1
  <2>2. CASE call.limit # NoLimit
    <3>1. k = call.limit
      BY <2>2 DEF k, Wanted
    <3> QED  BY <1>3, <1>11, <1>12, <2>2, <3>1
  <2> QED  BY <2>1, <2>2
<1> HIDE DEF kept, own
<1>14. /\ Items(kept) \subseteq Items(z)
       /\ \A d \in Docs(z) \ Docs(kept) :
              /\ Len(kept) = k
              /\ \A e \in Items(z) : e.doc = d => \A f \in Items(kept) : e.score <= f.score
  BY <1>2, <1>3, <1>13, TopkAgain
<1>15. Docs(kept) \subseteq found /\ \A e \in Items(kept) : e.score = own(e.doc)
  BY <1>12, <1>14, DocsOfItems
<1>16. \A d \in found \ Docs(kept) : Len(kept) = k /\ \A e \in Items(kept) : own(d) <= e.score
  <2> TAKE d \in found \ Docs(kept)
  <2>1. PICK e \in Items(z) : e.doc = d
    BY <1>12, DocsOfItems
  <2>2. e.score = own(d)
    BY <1>12, <2>1
  <2> QED  BY <1>12, <1>14, <2>1, <2>2
<1> QED  BY <1>15, <1>16 DEF ret, q, k, found, engine, kept, own

-----------------------------------------------------------------------------
(***************************************************************************)
(* The frames, and the inductive invariant.                                *)
(***************************************************************************)
PromisedBy(node) == IF node.kind = "call" THEN Promised(node.role) ELSE "scores"

\* The arguments of a call of run.
Arguments(node, query, last) ==
    /\ node \in Nodes(request.tree)
    /\ query \in Queries
    /\ IF node.kind = "call" THEN Handable(node, last) ELSE WellFormed(last)
    /\ node \in Reranking(request.tree) => "scores" \in DOMAIN last

FrameOK(p) ==
    LET f == frames[p]
    IN  /\ DOMAIN f = {"node", "query", "last", "ret"}
        /\ Arguments(f.node, f.query, f.last)
        /\ f.ret # Raise("KeyError")
        /\ f.ret # Pending =>
                /\ Outcome(f.ret, PromisedBy(f.node))
                /\ f.node.kind = "call" => f.ret = RunCall(f.node, f.query, f.last)

Parent(c) == SubSeq(c, 1, Len(c) - 1)
Slot(c) == c[Len(c)]

\* What the frame at p had to wait for before it made the call in this slot.
InSequence(p, slot) ==
    /\ slot \in DOMAIN frames[p].node.stages
    /\ frames[Child(p, slot)].node = frames[p].node.stages[slot]
    /\ \A i \in 1..(slot - 1) : Returned(Child(p, i))

ForExpander(p, slot) ==
    /\ slot = 0 /\ frames[p].node.expander # <<>>
    /\ frames[ExpanderOf(p)].node = frames[p].node.expander[1]

ForMerger(p, slot) ==
    /\ slot = -1 /\ Expanded(p)
    /\ frames[MergerOf(p)].node = frames[p].node.merger
    /\ \A n \in Branches(p) : Returned(Child(p, n))

ForBranch(p, slot) ==
    /\ Expanded(p) /\ slot \in Branches(p)
    /\ \E i \in DOMAIN frames[p].node.sequences :
            frames[Child(p, slot)].node = frames[p].node.sequences[i]
    /\ \A n \in Branches(p) : Started(Child(p, n))

MadeInTurn(p, slot) ==
    \/ frames[p].node.kind = "sequence" /\ InSequence(p, slot)
    \/ /\ frames[p].node.kind = "parallel"
       /\ ForExpander(p, slot) \/ ForMerger(p, slot) \/ ForBranch(p, slot)

\* A frame below the root was called by the frame above it, which returns after it.
PlaceOK(c) ==
    /\ c \in Seq(Int)
    /\ c # Root =>
            /\ Parent(c) \in DOMAIN frames
            /\ MadeInTurn(Parent(c), Slot(c))
            /\ Returned(Parent(c)) => Returned(c)

ProgressOK ==
    /\ request \in Requests
    /\ progress \in {"posted", "rejected", "verified", "answered", "raised"}
    /\ progress \in {"posted", "rejected"} => frames = <<>>
    /\ progress \in {"verified", "answered", "raised"} =>
            /\ Verify(AllCalls(request.tree), request.collection) = ""
            /\ Root \in DOMAIN frames /\ frames[Root].node = request.tree
    /\ progress = "answered" => Returned(Root) /\ answer = frames[Root].ret
    /\ progress \in {"rejected", "raised"} => IsRaise(answer)
    /\ replies # <<>> =>
            /\ progress \in {"rejected", "answered", "raised"}
            /\ replies = [rest |-> RestPipeline(request.query, answer),
                          grpc |-> GrpcPipeline(request.query, answer)]

IInv ==
    /\ ProgressOK
    /\ \A p \in DOMAIN frames : FrameOK(p)
    /\ \A c \in DOMAIN frames : PlaceOK(c)

LEMMA ChildFacts ==
    ASSUME NEW p \in Seq(Int), NEW s \in Int
    PROVE  LET c == Child(p, s)
           IN  c \in Seq(Int) /\ c # Root /\ Parent(c) = p /\ Slot(c) = s /\ Len(c) = Len(p) + 1
<1> DEFINE c == Append(p, s)
<1>1. /\ c \in Seq(Int) /\ c # <<>> /\ Len(c) = Len(p) + 1
      /\ \A i \in 1..Len(p) : c[i] = p[i]
      /\ c[Len(p) + 1] = s
  BY AppendProperties
<1>2. Len(p) \in Nat
  BY LenProperties
<1>3. SubSeq(c, 1, Len(p)) = p
  <2> DEFINE d == SubSeq(c, 1, Len(p))
  <2>1. \A i \in 1..Len(p) : c[i] \in Int
    BY <1>1, ElementOfSeq
  <2> HIDE DEF c
  <2>2. d \in Seq(Int) /\ Len(d) = (IF 1 <= Len(p) THEN Len(p) - 1 + 1 ELSE 0)
        /\ \A i \in 1..Len(p) - 1 + 1 : d[i] = c[1 + i - 1]
    BY <1>2, <2>1, SubSeqProperties
  <2> HIDE DEF d
  <2>3. Len(d) = Len(p) /\ \A i \in 1..Len(p) : d[i] = p[i]
    BY <1>1, <1>2, <2>2
  <2>4. d = p
    BY <2>2, <2>3, SeqEqual
  <2> QED  BY <2>4 DEF d
<1> QED  BY <1>1, <1>2, <1>3 DEF Child, Root, Parent, Slot

LEMMA ParentFacts ==
    ASSUME NEW c \in Seq(Int), c # Root
    PROVE  Parent(c) \in Seq(Int) /\ Slot(c) \in Int /\ Child(Parent(c), Slot(c)) = c
           /\ Len(c) = Len(Parent(c)) + 1
<1>1. PICK p \in Seq(Int), s \in Int : c = Append(p, s)
  BY SequenceEmptyOrAppend DEF Root
<1>2. c = Child(p, s)
  BY <1>1 DEF Child
<1> QED  BY <1>2, ChildFacts

LEMMA TreeFacts ==
    ASSUME NEW r \in Requests
    PROVE  /\ r.query \in Queries /\ IsStage(r.tree) /\ r.tree \in Nodes(r.tree)
           /\ \A n \in Nodes(r.tree) :
                /\ n.kind \in {"call", "sequence", "parallel"}
                /\ n.kind = "call" => IsCall(n)
                /\ n.kind = "sequence" =>
                    /\ n.stages \in Seq(Nodes(r.tree)) /\ n.stages # <<>>
                    /\ \A i \in DOMAIN n.stages : IsStage(n.stages[i])
                /\ n.kind = "parallel" =>
                    /\ n.sequences \in Seq(Nodes(r.tree)) /\ n.sequences # <<>>
                    /\ \A i \in DOMAIN n.sequences : IsStage(n.sequences[i])
                    /\ n.expander \in Seq(Nodes(r.tree))
                    /\ \A i \in DOMAIN n.expander :
                            n.expander[i].kind = "call" /\ n.expander[i].role = "expander"
                    /\ n.merger \in Nodes(r.tree)
                    /\ n.merger.kind = "call" /\ n.merger.role = "merger"
<1> DEFINE N == Nodes(r.tree)
<1>1. r.query \in Queries /\ IsStage(r.tree)
      /\ \A n \in N : n.kind \in {"call", "sequence", "parallel"} /\ WellMade(n) /\ Children(n) \subseteq N
  BY TreeAssumption
<1>2. r.tree \in N
  BY DEF Nodes
<1> HIDE DEF N
<1>3. ASSUME NEW n \in N, n.kind = "call" PROVE IsCall(n)
  BY <1>1, <1>3 DEF WellMade, IsCall
<1>4. ASSUME NEW n \in N, n.kind = "sequence"
      PROVE  /\ n.stages \in Seq(N) /\ n.stages # <<>>
             /\ \A i \in DOMAIN n.stages : IsStage(n.stages[i])
  <2> DEFINE C == Children(n)
  <2>1. /\ n.stages \in Seq(C) /\ n.stages # <<>>
        /\ \A i \in DOMAIN n.stages : IsStage(n.stages[i])
    BY <1>1, <1>4 DEF WellMade
  <2>2. C \subseteq N
    BY <1>1
  <2> HIDE DEF C
  <2> QED  BY <2>1, <2>2, SeqMonotonic
<1>5. ASSUME NEW n \in N, n.kind = "parallel"
      PROVE  /\ n.sequences \in Seq(N) /\ n.sequences # <<>>
             /\ \A i \in DOMAIN n.sequences : IsStage(n.sequences[i])
             /\ n.expander \in Seq(N)
             /\ \A i \in DOMAIN n.expander :
                    n.expander[i].kind = "call" /\ n.expander[i].role = "expander"
             /\ n.merger \in N /\ n.merger.kind = "call" /\ n.merger.role = "merger"
  <2> DEFINE C == Children(n)
  <2>1. /\ n.sequences \in Seq(C) /\ n.sequences # <<>>
        /\ \A i \in DOMAIN n.sequences : IsStage(n.sequences[i])
        /\ n.expander \in Seq(C)
        /\ \A i \in DOMAIN n.expander :
               n.expander[i].kind = "call" /\ n.expander[i].role = "expander"
        /\ n.merger.kind = "call" /\ n.merger.role = "merger"
    BY <1>1, <1>5 DEF WellMade
  <2>2. C \subseteq N
    BY <1>1
  <2>3. n.merger \in C
    BY <1>5 DEF Children
  <2> HIDE DEF C
  <2>4. n.sequences \in Seq(N) /\ n.expander \in Seq(N)
    BY <2>1, <2>2, SeqMonotonic
  <2> QED  BY <2>1, <2>2, <2>3, <2>4
<1> QED  BY <1>1, <1>2, <1>3, <1>4, <1>5 DEF N

\* Where the rerank stages are.
LEMMA PlaceFacts ==
    ASSUME NEW r \in Requests
    PROVE  /\ r.tree \notin Reranking(r.tree)
           /\ \A n \in Nodes(r.tree) :
                /\ n.kind = "call" => (n \in Reranking(r.tree) <=> n.role = "rerank")
                /\ n.kind = "sequence" /\ n.stages[1] \in Reranking(r.tree) => n \in Reranking(r.tree)
                /\ n.kind = "parallel" =>
                    \A i \in DOMAIN n.sequences :
                        n.sequences[i] \in Reranking(r.tree) =>
                            n.expander = <<>> /\ n \in Reranking(r.tree)
<1> DEFINE R == Reranking(r.tree)
<1>1. r.tree \notin R /\ \A n \in Nodes(r.tree) : InPlace(n, R)
  BY PlaceAssumption
<1> HIDE DEF R
<1>2. ASSUME NEW n \in Nodes(r.tree), n.kind = "call" PROVE n \in R <=> n.role = "rerank"
  BY <1>1, <1>2 DEF InPlace, Reranks
<1>3. ASSUME NEW n \in Nodes(r.tree), n.kind = "sequence", n.stages[1] \in R PROVE n \in R
  BY <1>1, <1>3 DEF InPlace, Reranks
<1>4. ASSUME NEW n \in Nodes(r.tree), n.kind = "parallel",
             NEW i \in DOMAIN n.sequences, n.sequences[i] \in R
      PROVE  n.expander = <<>> /\ n \in R
  <2>1. n.expander = <<>>
    BY <1>1, <1>4 DEF InPlace
  <2> QED  BY <1>1, <1>4, <2>1 DEF InPlace, Reranks
<1> QED  BY <1>1, <1>2, <1>3, <1>4 DEF R

LEMMA PendingIsNoRaise == \A class : Pending # Raise(class)
<1>1. DOMAIN Pending = {"pending"} /\ \A class : DOMAIN Raise(class) = {"raised"}
  BY DEF Pending, Raise
<1> QED  BY <1>1

LEMMA OutcomeFacts ==
    ASSUME NEW ret, NEW promised, Outcome(ret, promised)
    PROVE  /\ ret # Pending
           /\ Raised(ret) => IsRaise(ret)
           /\ ~Raised(ret) => WellFormed(ret) /\ promised \in DOMAIN ret
<1>1. DOMAIN Pending = {"pending"}
  BY DEF Pending
<1>2. CASE IsRaise(ret)
  BY <1>1, <1>2 DEF IsRaise, Raised
<1>3. CASE WellFormed(ret) /\ promised \in DOMAIN ret
  <2>1. ~Raised(ret)
    BY <1>3, WellFormedNotRaised
  <2>2. DOMAIN ret \subseteq Fields
    BY <1>3 DEF WellFormed, DictWith
  <2> QED  BY <1>1, <1>3, <2>1, <2>2 DEF Fields
<1> QED  BY <1>2, <1>3 DEF Outcome

LEMMA ReturnedFacts ==
    ASSUME NEW p, FrameOK(p)
    PROVE  /\ Returned(p) => WellFormed(frames[p].ret) /\ PromisedBy(frames[p].node) \in DOMAIN frames[p].ret
           /\ Ended(p) /\ Raised(frames[p].ret) => IsRaise(frames[p].ret)
BY OutcomeFacts DEF FrameOK, Returned, Ended

-----------------------------------------------------------------------------
(***************************************************************************)
(* A step starts frames or ends one; what has ended stays as it is.        *)
(***************************************************************************)
Later ==
    \A q \in DOMAIN frames :
        /\ q \in DOMAIN frames'
        /\ frames'[q].node = frames[q].node
        /\ frames'[q].query = frames[q].query
        /\ frames'[q].last = frames[q].last
        /\ Ended(q) => frames'[q] = frames[q]

LEMMA LaterStates ==
    ASSUME Later, NEW q
    PROVE  /\ Started(q) => Started(q)'
           /\ Ended(q) => Ended(q)'
           /\ Returned(q) => Returned(q)' /\ frames'[q] = frames[q]
BY DEF Later, Started, Ended, Returned

LEMMA LaterBranches ==
    ASSUME Later, NEW p \in DOMAIN frames, Expanded(p)
    PROVE  Expanded(p)' /\ QueriesOf(p)' = QueriesOf(p) /\ Branches(p)' = Branches(p)
           /\ Handed(p)' = Handed(p)
<1>1. /\ frames'[p].node = frames[p].node /\ frames'[p].query = frames[p].query
      /\ frames'[p].last = frames[p].last
  BY DEF Later
<1>2. CASE frames[p].node.expander = <<>>
  BY <1>1, <1>2 DEF Expanded, QueriesOf, Branches, Handed
<1>3. CASE frames[p].node.expander # <<>>
  <2>1. Returned(ExpanderOf(p))
    BY <1>3 DEF Expanded
  <2>2. Returned(ExpanderOf(p))' /\ frames'[ExpanderOf(p)] = frames[ExpanderOf(p)]
    BY <2>1, LaterStates
  <2>3. QueriesOf(p)' = QueriesOf(p) /\ Handed(p)' = Handed(p) /\ Expanded(p)'
    BY <1>1, <1>3, <2>2 DEF Expanded, QueriesOf, Handed
  <2> QED  BY <1>1, <2>3 DEF Branches
<1> QED  BY <1>2, <1>3

LEMMA LaterInTurn ==
    ASSUME Later, NEW p \in DOMAIN frames, NEW s, Child(p, s) \in DOMAIN frames, MadeInTurn(p, s)
    PROVE  MadeInTurn(p, s)'
<1>1. frames'[p].node = frames[p].node /\ frames'[Child(p, s)].node = frames[Child(p, s)].node
  BY DEF Later
<1>2. CASE frames[p].node.kind = "sequence" /\ InSequence(p, s)
  <2>1. \A i \in 1..(s - 1) : Returned(Child(p, i))'
    BY <1>2, LaterStates DEF InSequence
  <2> QED  BY <1>1, <1>2, <2>1 DEF InSequence, MadeInTurn
<1>3. CASE frames[p].node.kind = "parallel" /\ ForExpander(p, s)
  BY <1>1, <1>3 DEF ForExpander, MadeInTurn, ExpanderOf
<1>4. CASE frames[p].node.kind = "parallel" /\ ForMerger(p, s)
  <2>1. Expanded(p)' /\ Branches(p)' = Branches(p)
    BY <1>4, LaterBranches DEF ForMerger
  <2>2. \A n \in Branches(p) : Returned(Child(p, n))'
    BY <1>4, LaterStates DEF ForMerger
  <2>3. frames'[MergerOf(p)].node = frames[MergerOf(p)].node
    BY <1>1, <1>4 DEF ForMerger, MergerOf
  <2> QED  BY <1>1, <1>4, <2>1, <2>2, <2>3 DEF ForMerger, MadeInTurn
<1>5. CASE frames[p].node.kind = "parallel" /\ ForBranch(p, s)
  <2>1. Expanded(p)' /\ Branches(p)' = Branches(p)
    BY <1>5, LaterBranches DEF ForBranch
  <2>2. \A n \in Branches(p) : Started(Child(p, n))'
    BY <1>5, LaterStates DEF ForBranch
  <2> QED  BY <1>1, <1>5, <2>1, <2>2 DEF ForBranch, MadeInTurn
<1> QED  BY <1>2, <1>3, <1>4, <1>5 DEF MadeInTurn

LEMMA StartsLater ==
    ASSUME NEW calls, Starts(calls), \A c \in DOMAIN calls : ~Started(c)
    PROVE  /\ Later
           /\ DOMAIN frames' = DOMAIN calls \union DOMAIN frames
           /\ \A c \in DOMAIN calls : frames'[c] = calls[c]
           /\ \A q \in DOMAIN frames : frames'[q] = frames[q]
<1>1. frames' = calls ++ frames
  BY DEF Starts
<1>2. /\ DOMAIN frames' = DOMAIN calls \union DOMAIN frames
      /\ \A c \in DOMAIN calls : frames'[c] = calls[c]
      /\ \A q \in DOMAIN frames : q \notin DOMAIN calls => frames'[q] = frames[q]
  BY <1>1 DEF ++
<1>3. \A q \in DOMAIN frames : q \notin DOMAIN calls
  BY DEF Started
<1> QED  BY <1>2, <1>3 DEF Later

LEMMA EndsLater ==
    ASSUME NEW p \in DOMAIN frames, FrameOK(p), ~Ended(p), NEW ret, Ends(p, ret)
    PROVE  /\ Later
           /\ DOMAIN frames' = DOMAIN frames
           /\ \A q \in DOMAIN frames : q # p => frames'[q] = frames[q]
           /\ frames'[p].ret = ret /\ DOMAIN frames'[p] = DOMAIN frames[p]
<1>1. frames' = [frames EXCEPT ![p].ret = ret]
  BY DEF Ends
<1>2. DOMAIN frames[p] = {"node", "query", "last", "ret"}
  BY DEF FrameOK
<1>3. DOMAIN frames' = DOMAIN frames /\ \A q \in DOMAIN frames : q # p => frames'[q] = frames[q]
  BY <1>1
<1>4. frames'[p] = [frames[p] EXCEPT !.ret = ret]
  BY <1>1
<1>5. /\ DOMAIN frames'[p] = DOMAIN frames[p] /\ frames'[p].ret = ret
      /\ frames'[p].node = frames[p].node /\ frames'[p].query = frames[p].query
      /\ frames'[p].last = frames[p].last
  BY <1>2, <1>4
<1> QED  BY <1>3, <1>5 DEF Later

\* Frames are only there while a request runs, and after that.
LEMMA FramesMean ==
    ASSUME IInv, NEW p \in DOMAIN frames
    PROVE  /\ progress \in {"verified", "answered", "raised"}
           /\ request \in Requests
           /\ FrameOK(p) /\ PlaceOK(p)
           /\ Root \in DOMAIN frames /\ frames[Root].node = request.tree
<1>1. frames # <<>>
  <2>1. DOMAIN <<>> = {}
    OBVIOUS
  <2> QED  BY <2>1
<1> QED  BY <1>1 DEF IInv, ProgressOK

LEMMA ProgressKept ==
    ASSUME IInv, NEW p \in DOMAIN frames, Later, UNCHANGED <<request, progress, answer, replies>>
    PROVE  ProgressOK'
<1>1. /\ progress \in {"verified", "answered", "raised"} /\ Root \in DOMAIN frames
  BY FramesMean
<1>2. Root \in DOMAIN frames' /\ frames'[Root].node = frames[Root].node
  BY <1>1 DEF Later
<1>3. Returned(Root) => Returned(Root)' /\ frames'[Root] = frames[Root]
  BY LaterStates
<1> QED  BY <1>1, <1>2, <1>3 DEF IInv, ProgressOK

LEMMA StartsKeeps ==
    ASSUME IInv, NEW p \in DOMAIN frames, ~Ended(p), NEW calls, Starts(calls),
           \A c \in DOMAIN calls :
               /\ ~Started(c)
               /\ \E s \in Int : c = Child(p, s) /\ MadeInTurn(p, s)'
               /\ calls[c] = Frame(calls[c].node, calls[c].query, calls[c].last)
               /\ Arguments(calls[c].node, calls[c].query, calls[c].last)
    PROVE  IInv'
<1>1. /\ Later
      /\ DOMAIN frames' = DOMAIN calls \union DOMAIN frames
      /\ \A c \in DOMAIN calls : frames'[c] = calls[c]
      /\ \A q \in DOMAIN frames : frames'[q] = frames[q]
  BY StartsLater
<1>2. UNCHANGED <<request, progress, answer, replies>>
  BY DEF Starts
<1>3. ProgressOK'
  BY <1>1, <1>2, ProgressKept
<1>4. ASSUME NEW c \in DOMAIN frames' PROVE FrameOK(c)'
  <2>1. CASE c \in DOMAIN frames
    <3>1. FrameOK(c) /\ frames'[c] = frames[c]
      BY <1>1, <2>1 DEF IInv
    <3> QED  BY <1>2, <3>1 DEF FrameOK, Arguments
  <2>2. CASE c \in DOMAIN calls
    <3> DEFINE f == calls[c]
    <3>1. frames'[c] = f /\ f = Frame(f.node, f.query, f.last) /\ Arguments(f.node, f.query, f.last)
      BY <1>1, <2>2
    <3>2. DOMAIN Frame(f.node, f.query, f.last) = {"node", "query", "last", "ret"}
          /\ Frame(f.node, f.query, f.last).ret = Pending
      BY DEF Frame
    <3>3. DOMAIN f = {"node", "query", "last", "ret"} /\ f.ret = Pending
          /\ f.ret # Raise("KeyError")
      BY <3>1, <3>2, PendingIsNoRaise
    <3> HIDE DEF f
    <3> QED  BY <1>2, <3>1, <3>3 DEF FrameOK, Arguments
  <2> QED  BY <1>1, <2>1, <2>2
<1>5. ASSUME NEW c \in DOMAIN frames' PROVE PlaceOK(c)'
  <2>1. CASE c \in DOMAIN frames
    <3>1. PlaceOK(c)
      BY <2>1 DEF IInv
    <3>2. CASE c = Root
      BY <3>1, <3>2 DEF PlaceOK
    <3>3. CASE c # Root
      <4> DEFINE q == Parent(c)
      <4>1. c \in Seq(Int) /\ q \in DOMAIN frames /\ MadeInTurn(q, Slot(c))
            /\ (Returned(q) => Returned(c))
        BY <3>1, <3>3 DEF PlaceOK
      <4>2. c = Child(q, Slot(c))
        BY <3>3, <4>1, ParentFacts
      <4>3. MadeInTurn(q, Slot(c))'
        BY <1>1, <2>1, <4>1, <4>2, LaterInTurn
      <4> HIDE DEF q
      <4>4. Returned(q)' => Returned(q)
        BY <1>1, <4>1 DEF Returned, Ended, Started
      <4>5. Returned(q)' => Returned(c)'
        BY <1>1, <4>1, <4>4, LaterStates
      <4>6. q \in DOMAIN frames'
        BY <1>1, <4>1
      <4> QED  BY <4>1, <4>3, <4>5, <4>6 DEF PlaceOK, q
    <3> QED  BY <3>2, <3>3
  <2>2. CASE c \in DOMAIN calls
    <3>1. PICK s \in Int : c = Child(p, s) /\ MadeInTurn(p, s)'
      BY <2>2
    <3>2. p \in Seq(Int)
      BY DEF IInv, PlaceOK
    <3>3. c \in Seq(Int) /\ Parent(c) = p /\ Slot(c) = s
      BY <3>1, <3>2, ChildFacts
    <3>4. ~Returned(p)' /\ p \in DOMAIN frames'
      BY <1>1 DEF Returned, Ended, Started
    <3> QED  BY <3>1, <3>3, <3>4 DEF PlaceOK
  <2> QED  BY <1>1, <2>1, <2>2
<1> QED  BY <1>3, <1>4, <1>5 DEF IInv

LEMMA EndsKeeps ==
    ASSUME IInv, NEW p \in DOMAIN frames, ~Ended(p), NEW ret, Ends(p, ret),
           Outcome(ret, PromisedBy(frames[p].node)), ret # Raise("KeyError"),
           frames[p].node.kind = "call" =>
               ret = RunCall(frames[p].node, frames[p].query, frames[p].last),
           ~Raised(ret) => \A c \in DOMAIN frames : c # Root /\ Parent(c) = p => Returned(c)
    PROVE  IInv'
<1>1. FrameOK(p)
  BY DEF IInv
<1>2. /\ Later
      /\ DOMAIN frames' = DOMAIN frames
      /\ \A q \in DOMAIN frames : q # p => frames'[q] = frames[q]
      /\ frames'[p].ret = ret /\ DOMAIN frames'[p] = DOMAIN frames[p]
  BY <1>1, EndsLater
<1>3. UNCHANGED <<request, progress, answer, replies>>
  BY DEF Ends
<1>4. ProgressOK'
  BY <1>2, <1>3, ProgressKept
<1>5. ASSUME NEW c \in DOMAIN frames' PROVE FrameOK(c)'
  <2>1. c \in DOMAIN frames /\ FrameOK(c)
    BY <1>2 DEF IInv
  <2>2. CASE c # p
    <3>1. frames'[c] = frames[c]
      BY <1>2, <2>1, <2>2
    <3> QED  BY <1>3, <2>1, <3>1 DEF FrameOK, Arguments
  <2>3. CASE c = p
    <3>1. /\ frames'[p].node = frames[p].node /\ frames'[p].query = frames[p].query
          /\ frames'[p].last = frames[p].last
      BY <1>2 DEF Later
    <3> QED  BY <1>1, <1>2, <1>3, <2>3, <3>1 DEF FrameOK, Arguments
  <2> QED  BY <2>2, <2>3
<1>6. ASSUME NEW c \in DOMAIN frames' PROVE PlaceOK(c)'
  <2>1. c \in DOMAIN frames /\ PlaceOK(c)
    BY <1>2 DEF IInv
  <2>2. CASE c = Root
    BY <2>1, <2>2 DEF PlaceOK
  <2>3. CASE c # Root
    <3> DEFINE q == Parent(c)
    <3>1. c \in Seq(Int) /\ q \in DOMAIN frames /\ MadeInTurn(q, Slot(c))
          /\ (Returned(q) => Returned(c))
      BY <2>1, <2>3 DEF PlaceOK
    <3>2. c = Child(q, Slot(c))
      BY <2>3, <3>1, ParentFacts
    <3>3. MadeInTurn(q, Slot(c))'
      BY <1>2, <2>1, <3>1, <3>2, LaterInTurn
    <3>4. Returned(q)' => Returned(c)
      <4>1. CASE q # p
        <5> HIDE DEF q
        <5>1. Returned(q)' => Returned(q)
          BY <1>2, <3>1, <4>1 DEF Returned, Ended, Started
        <5> QED  BY <3>1, <5>1
      <4>2. CASE q = p
        <5>1. Returned(p)' => ~Raised(ret)
          BY <1>2 DEF Returned
        <5> QED  BY <2>1, <2>3, <4>2, <5>1
      <4> QED  BY <4>1, <4>2
    <3>5. Returned(q)' => Returned(c)'
      BY <1>2, <3>4, LaterStates
    <3> HIDE DEF q
    <3>6. q \in DOMAIN frames'
      BY <1>2, <3>1
    <3> QED  BY <3>1, <3>3, <3>5, <3>6 DEF PlaceOK, q
  <2> QED  BY <2>2, <2>3
<1> QED  BY <1>4, <1>5, <1>6 DEF IInv

-----------------------------------------------------------------------------
(***************************************************************************)
(* Every action keeps the invariant.                                       *)
(***************************************************************************)
LEMMA NodeFacts ==
    ASSUME IInv, NEW p \in DOMAIN frames
    PROVE  LET n == frames[p].node
           IN  /\ request \in Requests
               /\ n \in Nodes(request.tree) /\ frames[p].query \in Queries
               /\ n.kind \in {"call", "sequence", "parallel"}
               /\ n.kind = "call" => IsCall(n) /\ Handable(n, frames[p].last)
               /\ n.kind # "call" => WellFormed(frames[p].last)
               /\ n \in Reranking(request.tree) => "scores" \in DOMAIN frames[p].last
               /\ PromisedBy(n) = IF n.kind = "call" THEN Promised(n.role) ELSE "scores"
               /\ p \in Seq(Int)
<1>1. request \in Requests /\ FrameOK(p) /\ PlaceOK(p)
  BY FramesMean
<1>2. Arguments(frames[p].node, frames[p].query, frames[p].last) /\ p \in Seq(Int)
  BY <1>1 DEF FrameOK, PlaceOK
<1> QED  BY <1>1, <1>2, TreeFacts DEF Arguments, PromisedBy

LEMMA SequenceNode ==
    ASSUME IInv, NEW p \in DOMAIN frames, frames[p].node.kind = "sequence"
    PROVE  LET stages == frames[p].node.stages
           IN  /\ stages \in Seq(Nodes(request.tree)) /\ stages # <<>>
               /\ Len(stages) \in Nat /\ Len(stages) > 0 /\ DOMAIN stages = 1..Len(stages)
               /\ \A i \in DOMAIN stages : stages[i] \in Nodes(request.tree) /\ IsStage(stages[i])
<1> DEFINE stages == frames[p].node.stages
<1>1. /\ stages \in Seq(Nodes(request.tree)) /\ stages # <<>>
      /\ \A i \in DOMAIN stages : IsStage(stages[i])
  BY NodeFacts, TreeFacts
<1> HIDE DEF stages
<1>2. Len(stages) \in Nat /\ DOMAIN stages = 1..Len(stages) /\ Len(stages) # 0
  BY <1>1, LenProperties, EmptySeq
<1>3. \A i \in 1..Len(stages) : stages[i] \in Nodes(request.tree)
  BY <1>1, ElementOfSeq
<1> QED  BY <1>1, <1>2, <1>3 DEF stages

LEMMA ParallelNode ==
    ASSUME IInv, NEW p \in DOMAIN frames, frames[p].node.kind = "parallel"
    PROVE  LET n == frames[p].node
           IN  /\ Len(n.sequences) \in Nat /\ DOMAIN n.sequences = 1..Len(n.sequences)
               /\ \A i \in DOMAIN n.sequences :
                      n.sequences[i] \in Nodes(request.tree) /\ IsStage(n.sequences[i])
               /\ n.expander # <<>> =>
                      /\ n.expander[1] \in Nodes(request.tree)
                      /\ n.expander[1].kind = "call" /\ n.expander[1].role = "expander"
               /\ n.merger \in Nodes(request.tree)
               /\ n.merger.kind = "call" /\ n.merger.role = "merger"
<1> DEFINE n == frames[p].node
           N == Nodes(request.tree)
           sequences == n.sequences
           expander == n.expander
<1>1. /\ sequences \in Seq(N)
      /\ \A i \in DOMAIN sequences : IsStage(sequences[i])
      /\ expander \in Seq(N)
      /\ \A i \in DOMAIN expander : expander[i].kind = "call" /\ expander[i].role = "expander"
      /\ n.merger \in N /\ n.merger.kind = "call" /\ n.merger.role = "merger"
  BY NodeFacts, TreeFacts
<1> HIDE DEF sequences, expander, N, n
<1>2. /\ Len(sequences) \in Nat /\ DOMAIN sequences = 1..Len(sequences)
      /\ \A i \in 1..Len(sequences) : sequences[i] \in N
  BY <1>1, LenProperties, ElementOfSeq
<1>3. ASSUME expander # <<>>
      PROVE  expander[1] \in N /\ expander[1].kind = "call" /\ expander[1].role = "expander"
  <2>1. Len(expander) \in Nat /\ DOMAIN expander = 1..Len(expander) /\ Len(expander) # 0
    BY <1>1, <1>3, LenProperties, EmptySeq
  <2>2. 1 \in DOMAIN expander
    BY <2>1
  <2> QED  BY <1>1, <2>1, <2>2, ElementOfSeq
<1> QED  BY <1>1, <1>2, <1>3 DEF sequences, expander, N, n

\* A stage, a branch or the root: it promises scores and is handed a dict.
LEMMA StageFacts ==
    ASSUME NEW node, IsStage(node)
    PROVE  /\ PromisedBy(node) = "scores"
           /\ \A last : WellFormed(last) /\ node.kind = "call" => Handable(node, last)
BY DEF IsStage, StageRoles, PromisedBy, Promised, Handable

LEMMA KidFacts ==
    ASSUME IInv, NEW p \in Seq(Int), NEW s \in Int, Child(p, s) \in DOMAIN frames
    PROVE  p \in DOMAIN frames /\ MadeInTurn(p, s)
<1> DEFINE c == Child(p, s)
<1>1. c # Root /\ Parent(c) = p /\ Slot(c) = s
  BY ChildFacts
<1>2. PlaceOK(c)
  BY DEF IInv
<1> HIDE DEF c
<1> QED  BY <1>1, <1>2 DEF PlaceOK

LEMMA NotCounted == \A z : 0 \notin 1..z /\ -1 \notin 1..z
OBVIOUS

LEMMA DivMod ==
    ASSUME NEW M \in Nat, NEW L \in Nat, NEW n \in 1..(M * L)
    PROVE  /\ ((n - 1) \div L) + 1 \in 1..M
           /\ ((n - 1) % L) + 1 \in 1..L
<1> DEFINE a == n - 1
           d == a \div L
           r == a % L
<1>1. L # 0
  <2>1. L = 0 => M * L = 0
    OBVIOUS
  <2> QED  BY <2>1
<1>2. M * L \in Nat /\ a \in Nat /\ a < M * L
  OBVIOUS
<1> HIDE DEF a
<1>3. d \in Nat /\ r \in Nat /\ r < L /\ a = L * d + r
  BY <1>1, <1>2
<1> HIDE DEF d, r
<1>4. ~(d >= M)
  <2>1. SUFFICES ASSUME d >= M PROVE FALSE
    OBVIOUS
  <2>2. PICK x \in Nat : d = M + x
    <3>1. d - M \in Nat /\ d = M + (d - M)
      BY <1>3, <2>1
    <3> QED  BY <3>1
  <2>3. L * d = M * L + L * x /\ L * x \in Nat
    BY <2>2
  <2> QED  BY <1>2, <1>3, <2>3
<1>5. d + 1 \in 1..M /\ r + 1 \in 1..L
  BY <1>3, <1>4
<1> QED  BY <1>5 DEF a, d, r

\* The expander's frame, once it has returned.
LEMMA ExpanderFacts ==
    ASSUME IInv, NEW p \in DOMAIN frames, frames[p].node.kind = "parallel",
           frames[p].node.expander # <<>>, Returned(ExpanderOf(p))
    PROVE  /\ WellFormed(frames[ExpanderOf(p)].ret)
           /\ frames[ExpanderOf(p)].ret.queries \in Seq(Queries)
<1> DEFINE c == ExpanderOf(p)
<1>1. p \in Seq(Int) /\ c \in DOMAIN frames /\ c = Child(p, 0)
  BY NodeFacts DEF Returned, Ended, Started, ExpanderOf
<1>2. MadeInTurn(p, 0)
  BY <1>1, KidFacts
<1>3. frames[c].node = frames[p].node.expander[1]
  <2>1. ~ForMerger(p, 0)
    BY DEF ForMerger
  <2>2. ~ForBranch(p, 0)
    BY NotCounted DEF ForBranch, Branches
  <2>3. ForExpander(p, 0)
    BY <1>2, <2>1, <2>2 DEF MadeInTurn
  <2> QED  BY <2>3 DEF ForExpander
<1>4. PromisedBy(frames[c].node) = "queries"
  BY <1>3, ParallelNode DEF PromisedBy, Promised
<1>5. FrameOK(c)
  BY <1>1 DEF IInv
<1>6. WellFormed(frames[c].ret) /\ "queries" \in DOMAIN frames[c].ret
  BY <1>4, <1>5, ReturnedFacts
<1> QED  BY <1>6 DEF WellFormed, DictWith

LEMMA BranchFacts ==
    ASSUME IInv, NEW p \in DOMAIN frames, frames[p].node.kind = "parallel", Expanded(p)
    PROVE  /\ QueriesOf(p) \in Seq(Queries) /\ WellFormed(Handed(p))
           /\ \E N \in Nat : Branches(p) = 1..N
           /\ \A n \in Branches(p) :
                  /\ QueryAt(p, n) \in Queries
                  /\ \E i \in DOMAIN frames[p].node.sequences :
                         SequenceAt(p, n) = frames[p].node.sequences[i]
<1> DEFINE sequences == frames[p].node.sequences
           queries == QueriesOf(p)
           M == Len(sequences)
           L == Len(queries)
<1>1. frames[p].query \in Queries /\ WellFormed(frames[p].last)
  BY NodeFacts
<1>2. queries \in Seq(Queries) /\ WellFormed(Handed(p))
  <2>1. CASE frames[p].node.expander = <<>>
    <3>1. <<frames[p].query>> \in Seq(Queries)
      BY <1>1
    <3> QED  BY <1>1, <2>1, <3>1 DEF QueriesOf, Handed
  <2>2. CASE frames[p].node.expander # <<>>
    <3>1. Returned(ExpanderOf(p))
      BY <2>2 DEF Expanded
    <3> QED  BY <2>2, <3>1, ExpanderFacts DEF QueriesOf, Handed
  <2> QED  BY <2>1, <2>2
<1>3. M \in Nat /\ DOMAIN sequences = 1..M
  BY ParallelNode
<1>4. Branches(p) = 1..(M * L)
  BY DEF Branches
<1>5. \A n : QueryAt(p, n) = queries[((n - 1) % L) + 1] /\ SequenceAt(p, n) = sequences[((n - 1) \div L) + 1]
  BY DEF QueryAt, SequenceAt
<1> HIDE DEF sequences, queries
<1>6. L \in Nat /\ \A i \in 1..L : queries[i] \in Queries
  BY <1>2, LenProperties, ElementOfSeq
<1> HIDE DEF M, L
<1>7. M * L \in Nat
  BY <1>3, <1>6
<1>8. ASSUME NEW n \in Branches(p)
      PROVE  QueryAt(p, n) \in Queries /\ \E i \in DOMAIN sequences : SequenceAt(p, n) = sequences[i]
  <2>1. ((n - 1) \div L) + 1 \in 1..M /\ ((n - 1) % L) + 1 \in 1..L
    BY <1>3, <1>4, <1>6, <1>8, DivMod
  <2> QED  BY <1>3, <1>5, <1>6, <2>1
<1> QED  BY <1>2, <1>4, <1>7, <1>8 DEF queries, sequences

LEMMA FrameFacts ==
    ASSUME NEW n, NEW q, NEW l
    PROVE  LET f == Frame(n, q, l)
           IN  f.node = n /\ f.query = q /\ f.last = l /\ f = Frame(f.node, f.query, f.last)
BY DEF Frame

\* One frame is started, or one for every slot in a set.
LEMMA StartsOne ==
    ASSUME IInv, NEW p \in DOMAIN frames, ~Ended(p), NEW s \in Int, ~Started(Child(p, s)),
           NEW node, NEW query, NEW last, Arguments(node, query, last),
           Starts([c \in {Child(p, s)} |-> Frame(node, query, last)]),
           frames'[Child(p, s)].node = node /\ Later => MadeInTurn(p, s)'
    PROVE  IInv'
<1> DEFINE calls == [c \in {Child(p, s)} |-> Frame(node, query, last)]
<1>1. DOMAIN calls = {Child(p, s)} /\ calls[Child(p, s)] = Frame(node, query, last)
  OBVIOUS
<1> HIDE DEF calls
<1>2. /\ calls[Child(p, s)].node = node /\ calls[Child(p, s)].query = query
      /\ calls[Child(p, s)].last = last
  BY <1>1, FrameFacts
<1>3. Starts(calls)
  BY DEF calls
<1>4. Later /\ frames'[Child(p, s)] = calls[Child(p, s)]
  BY <1>1, <1>3, StartsLater
<1>5. MadeInTurn(p, s)'
  BY <1>2, <1>4
<1> QED  BY <1>1, <1>2, <1>3, <1>5, StartsKeeps

LEMMA NextStageKeeps ==
    ASSUME IInv, NEW p \in DOMAIN frames, NextStage(p)
    PROVE  IInv'
<1> DEFINE stages == frames[p].node.stages
<1>1. frames[p].node.kind = "sequence" /\ ~Ended(p)
  BY DEF NextStage, Running
<1>2. PICK i \in DOMAIN stages :
          /\ ~Started(Child(p, i))
          /\ i > 1 => Returned(Child(p, i - 1))
          /\ Starts([c \in {Child(p, i)} |->
                 Frame(stages[i], frames[p].query,
                       IF i = 1 THEN frames[p].last ELSE frames[Child(p, i - 1)].ret)])
  BY DEF NextStage
<1>3. /\ Len(stages) \in Nat /\ DOMAIN stages = 1..Len(stages)
      /\ stages[i] \in Nodes(request.tree) /\ IsStage(stages[i])
  BY <1>1, SequenceNode
<1>4. p \in Seq(Int) /\ frames[p].query \in Queries /\ WellFormed(frames[p].last)
  BY <1>1, NodeFacts
<1> HIDE DEF stages
<1>5. i \in Int /\ i \in Nat \ {0}
  BY <1>3
<1> DEFINE last == IF i = 1 THEN frames[p].last ELSE frames[Child(p, i - 1)].ret
<1>6. ASSUME i # 1
      PROVE  /\ WellFormed(frames[Child(p, i - 1)].ret)
             /\ "scores" \in DOMAIN frames[Child(p, i - 1)].ret
             /\ \A j \in 1..(i - 2) : Returned(Child(p, j))
  <2> DEFINE c == Child(p, i - 1)
  <2>1. i - 1 \in Int /\ i - 1 \in Nat \ {0} /\ i > 1
    BY <1>5, <1>6
  <2>2. Returned(c) /\ c \in DOMAIN frames
    BY <1>2, <2>1 DEF Returned, Ended, Started
  <2>3. FrameOK(c)
    BY <2>2 DEF IInv
  <2>5. MadeInTurn(p, i - 1)
    BY <1>4, <2>1, <2>2, KidFacts
  <2>6. InSequence(p, i - 1)
    BY <1>1, <2>5 DEF MadeInTurn
  <2>4. WellFormed(frames[c].ret) /\ "scores" \in DOMAIN frames[c].ret
    <3>1. i - 1 \in DOMAIN stages /\ frames[c].node = stages[i - 1]
      BY <2>6 DEF InSequence, stages
    <3>2. IsStage(stages[i - 1])
      BY <1>1, <3>1, SequenceNode DEF stages
    <3>3. PromisedBy(frames[c].node) = "scores"
      BY <3>1, <3>2, StageFacts
    <3> QED  BY <2>2, <2>3, <3>3, ReturnedFacts
  <2>7. (i - 1) - 1 = i - 2
    BY <1>5
  <2> QED  BY <2>4, <2>6, <2>7 DEF InSequence
<1>7. WellFormed(last)
  BY <1>4, <1>6
<1>14. stages[i] \in Reranking(request.tree) => "scores" \in DOMAIN last
  <2>1. CASE i = 1
    <3>1. stages[1] \in Reranking(request.tree) => frames[p].node \in Reranking(request.tree)
      BY <1>1, NodeFacts, PlaceFacts DEF stages
    <3> QED  BY <2>1, <3>1, NodeFacts
  <2>2. CASE i # 1
    BY <1>6, <2>2
  <2> QED  BY <2>1, <2>2
<1> HIDE DEF last
<1>8. Arguments(stages[i], frames[p].query, last)
  BY <1>3, <1>4, <1>7, <1>14, StageFacts DEF Arguments
<1>9. \A j \in 1..(i - 1) : Returned(Child(p, j))
  <2> TAKE j \in 1..(i - 1)
  <2>1. CASE j = i - 1
    BY <1>2, <1>5, <2>1
  <2>2. CASE j # i - 1
    <3>1. i # 1 /\ j \in 1..(i - 2)
      BY <1>5, <2>2
    <3> QED  BY <1>6, <3>1
  <2> QED  BY <2>1, <2>2
<1>10. ASSUME frames'[Child(p, i)].node = stages[i], Later
       PROVE  MadeInTurn(p, i)'
  <2>1. frames'[p].node = frames[p].node
    BY <1>10 DEF Later
  <2>2. \A j \in 1..(i - 1) : Returned(Child(p, j))'
    BY <1>9, <1>10, LaterStates
  <2> QED  BY <1>1, <1>10, <2>1, <2>2 DEF MadeInTurn, InSequence, stages
<1>11. Starts([c \in {Child(p, i)} |-> Frame(stages[i], frames[p].query, last)])
  BY <1>2 DEF last
<1> QED  BY <1>1, <1>2, <1>5, <1>8, <1>10, <1>11, StartsOne

LEMMA StartExpanderKeeps ==
    ASSUME IInv, NEW p \in DOMAIN frames, StartExpander(p)
    PROVE  IInv'
<1> DEFINE node == frames[p].node.expander[1]
<1>1. /\ frames[p].node.kind = "parallel" /\ ~Ended(p)
      /\ frames[p].node.expander # <<>> /\ ~Started(Child(p, 0))
      /\ Starts([c \in {Child(p, 0)} |-> Frame(node, frames[p].query, frames[p].last)])
  BY DEF StartExpander, Running, ExpanderOf
<1>2. node \in Nodes(request.tree) /\ node.kind = "call" /\ node.role = "expander"
  BY <1>1, ParallelNode
<1>3. frames[p].query \in Queries /\ WellFormed(frames[p].last)
  BY <1>1, NodeFacts
<1>7. node \notin Reranking(request.tree)
  BY <1>2, NodeFacts, PlaceFacts
<1>4. Arguments(node, frames[p].query, frames[p].last)
  BY <1>2, <1>3, <1>7 DEF Arguments, Handable
<1>5. ASSUME frames'[Child(p, 0)].node = node, Later
      PROVE  MadeInTurn(p, 0)'
  <2>1. frames'[p].node = frames[p].node
    BY <1>5 DEF Later
  <2> QED  BY <1>1, <1>5, <2>1 DEF MadeInTurn, ForExpander, ExpanderOf
<1> HIDE DEF node
<1>6. 0 \in Int
  OBVIOUS
<1> QED  BY <1>1, <1>4, <1>5, <1>6, StartsOne, ZenonT(60)

LEMMA FanOutKeeps ==
    ASSUME IInv, NEW p \in DOMAIN frames, FanOut(p)
    PROVE  IInv'
<1> DEFINE slots == Branches(p)
           calls == [c \in {Child(p, n) : n \in slots} |->
                        Frame(SequenceAt(p, c[Len(c)]), QueryAt(p, c[Len(c)]), Handed(p))]
<1>1. /\ frames[p].node.kind = "parallel" /\ ~Ended(p) /\ Expanded(p)
      /\ slots # {} /\ ~Started(Child(p, 1)) /\ Starts(calls)
  BY DEF FanOut, Running
<1>2. PICK N \in Nat : slots = 1..N
  BY <1>1, BranchFacts
<1>3. p \in Seq(Int)
  BY <1>1, NodeFacts
<1>4. WellFormed(Handed(p)) /\ \A n \in slots :
          /\ QueryAt(p, n) \in Queries
          /\ \E i \in DOMAIN frames[p].node.sequences :
                 SequenceAt(p, n) = frames[p].node.sequences[i]
  BY <1>1, BranchFacts
<1> HIDE DEF slots
<1>5. 1 \in slots /\ \A n \in slots : n \in Int /\ n # 0 /\ n # -1
  BY <1>1, <1>2
<1>6. \A n \in slots : ~Started(Child(p, n))
  <2> SUFFICES ASSUME NEW n \in slots, Started(Child(p, n)) PROVE FALSE
    OBVIOUS
  <2>1. MadeInTurn(p, n)
    BY <1>3, <1>5, KidFacts DEF Started
  <2>2. ForBranch(p, n)
    BY <1>1, <1>5, <2>1 DEF MadeInTurn, ForExpander, ForMerger
  <2> QED  BY <1>1, <1>5, <2>2 DEF ForBranch, slots
<1>7. \A n \in slots : Slot(Child(p, n)) = n
  BY <1>3, <1>5, ChildFacts
<1>8. DOMAIN calls = {Child(p, n) : n \in slots}
      /\ \A n \in slots : calls[Child(p, n)] = Frame(SequenceAt(p, n), QueryAt(p, n), Handed(p))
  BY <1>7 DEF Slot
<1> HIDE DEF calls
<1>9. Later /\ DOMAIN frames' = DOMAIN calls \union DOMAIN frames
      /\ \A c \in DOMAIN calls : frames'[c] = calls[c]
  BY <1>1, <1>6, <1>8, StartsLater
<1>10. ASSUME NEW c \in DOMAIN calls
       PROVE  /\ ~Started(c)
              /\ \E s \in Int : c = Child(p, s) /\ MadeInTurn(p, s)'
              /\ calls[c] = Frame(calls[c].node, calls[c].query, calls[c].last)
              /\ Arguments(calls[c].node, calls[c].query, calls[c].last)
  <2>1. PICK n \in slots : c = Child(p, n)
    BY <1>8
  <2>2. /\ calls[c].node = SequenceAt(p, n) /\ calls[c].query = QueryAt(p, n)
        /\ calls[c].last = Handed(p)
        /\ calls[c] = Frame(calls[c].node, calls[c].query, calls[c].last)
    BY <1>8, <2>1, FrameFacts
  <2>3. PICK i \in DOMAIN frames[p].node.sequences : SequenceAt(p, n) = frames[p].node.sequences[i]
    BY <1>4
  <2>4. SequenceAt(p, n) \in Nodes(request.tree) /\ IsStage(SequenceAt(p, n))
    BY <1>1, <2>3, ParallelNode
  <2>7. SequenceAt(p, n) \in Reranking(request.tree) => "scores" \in DOMAIN Handed(p)
    <3>1. SUFFICES ASSUME frames[p].node.sequences[i] \in Reranking(request.tree)
                   PROVE  "scores" \in DOMAIN Handed(p)
      BY <2>3
    <3>2. frames[p].node.expander = <<>> /\ frames[p].node \in Reranking(request.tree)
      BY <1>1, <3>1, NodeFacts, PlaceFacts
    <3> QED  BY <3>2, NodeFacts DEF Handed
  <2>5. Arguments(calls[c].node, calls[c].query, calls[c].last)
    BY <1>4, <2>2, <2>4, <2>7, StageFacts DEF Arguments
  <2>6. MadeInTurn(p, n)'
    <3>1. frames'[p].node = frames[p].node
      BY <1>9 DEF Later
    <3>2. Expanded(p)' /\ Branches(p)' = slots
      BY <1>1, <1>9, LaterBranches DEF slots
    <3>3. \A m \in slots : Started(Child(p, m))'
      BY <1>8, <1>9 DEF Started
    <3>4. frames'[Child(p, n)].node = frames[p].node.sequences[i]
      BY <1>9, <2>1, <2>2, <2>3
    <3>5. ForBranch(p, n)'
      BY <3>1, <3>2, <3>3, <3>4 DEF ForBranch
    <3> QED  BY <1>1, <3>1, <3>5 DEF MadeInTurn
  <2> QED  BY <1>5, <1>6, <2>1, <2>2, <2>5, <2>6
<1> QED  BY <1>1, <1>10, StartsKeeps

LEMMA StartMergerKeeps ==
    ASSUME IInv, NEW p \in DOMAIN frames, StartMerger(p)
    PROVE  IInv'
<1> DEFINE node == frames[p].node.merger
           slots == Branches(p)
           rankings == [n \in slots |-> frames[Child(p, n)].ret.scores.of]
           handed == Handed(p)
           last == handed ++ [scores |-> ListOf(rankings)]
<1>1. /\ frames[p].node.kind = "parallel" /\ ~Ended(p) /\ Expanded(p) /\ ~Started(Child(p, -1))
      /\ \A n \in slots : Returned(Child(p, n))
      /\ Starts([c \in {Child(p, -1)} |-> Frame(node, frames[p].query, last)])
  BY DEF StartMerger, Running, MergerOf, Merging
<1>2. node \in Nodes(request.tree) /\ node.kind = "call" /\ node.role = "merger"
  BY <1>1, ParallelNode
<1>3. p \in Seq(Int) /\ frames[p].query \in Queries
  BY <1>1, NodeFacts
<1>4. PICK N \in Nat : slots = 1..N
  BY <1>1, BranchFacts
<1>5. WellFormed(handed)
  BY <1>1, BranchFacts
<1> HIDE DEF slots, node, handed
<1>6. ASSUME NEW n \in slots PROVE frames[Child(p, n)].ret.scores.of \in Rankings
  <2> DEFINE c == Child(p, n)
  <2>1. n \in Int /\ n # 0 /\ n # -1
    BY <1>4, <1>6
  <2>2. Returned(c) /\ c \in DOMAIN frames
    BY <1>1, <1>6 DEF Returned, Ended, Started
  <2>3. MadeInTurn(p, n)
    BY <1>3, <2>1, <2>2, KidFacts
  <2>4. ForBranch(p, n)
    BY <1>1, <2>1, <2>3 DEF MadeInTurn, ForExpander, ForMerger
  <2>5. PICK i \in DOMAIN frames[p].node.sequences : frames[c].node = frames[p].node.sequences[i]
    BY <2>4 DEF ForBranch
  <2>6. PromisedBy(frames[c].node) = "scores"
    BY <1>1, <2>5, ParallelNode, StageFacts
  <2>7. FrameOK(c)
    BY <2>2 DEF IInv
  <2>8. WellFormed(frames[c].ret) /\ "scores" \in DOMAIN frames[c].ret
    BY <2>2, <2>6, <2>7, ReturnedFacts
  <2>9. frames[c].ret.scores \in DictOf
    BY <2>8 DEF WellFormed, DictWith
  <2> QED  BY <2>9, DictOfFacts
<1>7. DOMAIN rankings = 1..N /\ rankings = [n \in 1..N |-> rankings[n]]
      /\ \A n \in 1..N : rankings[n] \in Rankings
  BY <1>4, <1>6
<1> HIDE DEF rankings
<1>8. rankings \in Seq(Rankings)
  BY <1>7, ListIn
<1>9. ListOf(rankings) \in ListsOf
  BY <1>8 DEF ListOf, ListsOf
<1>10. MergerDict(last)
  <2> DEFINE b == [scores |-> ListOf(rankings)]
  <2>1. DOMAIN b = {"scores"} /\ b["scores"] \in ListsOf
    BY <1>9
  <2> HIDE DEF b
  <2>2. /\ DOMAIN (handed ++ b) = DOMAIN handed \union DOMAIN b
        /\ \A f \in DOMAIN handed : (handed ++ b)[f] = handed[f]
        /\ \A f \in DOMAIN b : f \notin DOMAIN handed => (handed ++ b)[f] = b[f]
    BY PlusFacts
  <2> DEFINE d == handed ++ b
  <2> HIDE DEF d
  <2>3. /\ DOMAIN d \subseteq Fields /\ "scores" \in DOMAIN d
        /\ "query" \in DOMAIN d => d["query"] \in Queries
        /\ "queries" \in DOMAIN d => d["queries"] \in Seq(Queries)
    BY <1>5, <2>1, <2>2 DEF WellFormed, DictWith, Fields, d
  <2>4. d["scores"] \in DictOf \union ListsOf
    BY <1>5, <2>1, <2>2 DEF WellFormed, DictWith, d
  <2>5. MergerDict(d)
    BY <2>3, <2>4 DEF MergerDict, DictWith
  <2> QED  BY <2>5 DEF d, b
<1> HIDE DEF last
<1>11. Arguments(node, frames[p].query, last)
  BY <1>2, <1>3, <1>10 DEF Arguments, Handable, MergerDict
<1>12. ASSUME frames'[Child(p, -1)].node = node, Later
       PROVE  MadeInTurn(p, -1)'
  <2>1. frames'[p].node = frames[p].node
    BY <1>12 DEF Later
  <2>2. Expanded(p)' /\ Branches(p)' = slots
    BY <1>1, <1>12, LaterBranches DEF slots
  <2>3. \A n \in slots : Returned(Child(p, n))'
    BY <1>1, <1>12, LaterStates
  <2>4. ForMerger(p, -1)'
    BY <1>12, <2>1, <2>2, <2>3 DEF ForMerger, MergerOf, node
  <2> QED  BY <1>1, <2>1, <2>4 DEF MadeInTurn
<1>13. -1 \in Int
  OBVIOUS
<1> QED  BY <1>1, <1>11, <1>12, <1>13, StartsOne

\* A child of p, whichever slot it has.
LEMMA ChildOf ==
    ASSUME IInv, NEW p \in DOMAIN frames, NEW c \in DOMAIN frames, c # Root, Parent(c) = p
    PROVE  /\ FrameOK(c) /\ Slot(c) \in Int /\ c = Child(p, Slot(c)) /\ MadeInTurn(p, Slot(c))
           /\ Ended(p) /\ ~Raised(frames[p].ret) => Returned(c)
<1>1. FrameOK(c) /\ PlaceOK(c)
  BY DEF IInv
<1>2. c \in Seq(Int)
  BY <1>1 DEF PlaceOK
<1>3. Slot(c) \in Int /\ c = Child(p, Slot(c))
  BY <1>2, ParentFacts
<1> QED  BY <1>1, <1>3 DEF PlaceOK, Returned

LEMMA SequenceReturnsKeeps ==
    ASSUME IInv, NEW p \in DOMAIN frames, SequenceReturns(p)
    PROVE  IInv'
<1> DEFINE stages == frames[p].node.stages
           m == Len(stages)
           last == Child(p, m)
           ret == frames[last].ret
<1>1. frames[p].node.kind = "sequence" /\ ~Ended(p) /\ Returned(last) /\ Ends(p, ret)
  BY DEF SequenceReturns, Running
<1>2. /\ m \in Nat /\ m > 0 /\ DOMAIN stages = 1..m
      /\ \A i \in DOMAIN stages : IsStage(stages[i])
  BY <1>1, SequenceNode
<1>3. p \in Seq(Int) /\ PromisedBy(frames[p].node) = "scores"
  BY <1>1, NodeFacts
<1>4. last \in DOMAIN frames
  BY <1>1 DEF Returned, Ended, Started
<1>5. InSequence(p, m)
  <2> HIDE DEF m
  <2>1. m \in Int
    BY <1>2
  <2>2. MadeInTurn(p, m)
    BY <1>3, <1>4, <2>1, KidFacts
  <2> QED  BY <1>1, <2>2 DEF MadeInTurn
<1>6. frames[last].node = stages[m] /\ \A i \in 1..(m - 1) : Returned(Child(p, i))
  BY <1>5 DEF InSequence
<1> HIDE DEF m, stages
<1>7. PromisedBy(frames[last].node) = "scores"
  <2>1. m \in DOMAIN stages
    BY <1>2
  <2> QED  BY <1>2, <1>6, <2>1, StageFacts
<1>8. FrameOK(last)
  BY <1>4 DEF IInv
<1> HIDE DEF last
<1>9. Outcome(ret, PromisedBy(frames[p].node)) /\ ~Raised(ret)
  BY <1>1, <1>3, <1>7, <1>8, ReturnedFacts DEF Outcome, Returned
<1>10. ASSUME NEW c \in DOMAIN frames, c # Root, Parent(c) = p
       PROVE  Returned(c)
  <2>1. Slot(c) \in Int /\ c = Child(p, Slot(c)) /\ MadeInTurn(p, Slot(c))
    BY <1>10, ChildOf
  <2>2. Slot(c) \in 1..m
    BY <1>1, <1>2, <2>1 DEF MadeInTurn, InSequence, stages
  <2>3. CASE Slot(c) = m
    BY <1>1, <2>1, <2>3 DEF last
  <2>4. CASE Slot(c) # m
    <3>1. Slot(c) \in 1..(m - 1)
      BY <1>2, <2>2, <2>4
    <3> QED  BY <1>6, <2>1, <3>1
  <2> QED  BY <2>3, <2>4
<1> QED  BY <1>1, <1>9, <1>10, ReturnedIsNoRaise, EndsKeeps

LEMMA MergerReturnsKeeps ==
    ASSUME IInv, NEW p \in DOMAIN frames, MergerReturns(p)
    PROVE  IInv'
<1> DEFINE noted == IF frames[p].node.expander = <<>> THEN <<>>
                    ELSE [expanded_queries |-> QueriesOf(p)]
           c == MergerOf(p)
           ret == noted ++ frames[c].ret
<1>1. frames[p].node.kind = "parallel" /\ ~Ended(p) /\ Returned(c) /\ Ends(p, ret)
  BY DEF MergerReturns, Running
<1>2. p \in Seq(Int) /\ PromisedBy(frames[p].node) = "scores"
  BY <1>1, NodeFacts
<1>3. c \in DOMAIN frames /\ c = Child(p, -1) /\ -1 \in Int
  BY <1>1 DEF Returned, Ended, Started, MergerOf
<1>4. ForMerger(p, -1)
  <2>1. MadeInTurn(p, -1)
    BY <1>2, <1>3, KidFacts
  <2>2. ~ForBranch(p, -1)
    BY NotCounted DEF ForBranch, Branches
  <2>3. ~ForExpander(p, -1)
    BY DEF ForExpander
  <2> QED  BY <1>1, <2>1, <2>2, <2>3 DEF MadeInTurn
<1>5. Expanded(p) /\ frames[c].node = frames[p].node.merger
      /\ \A n \in Branches(p) : Returned(Child(p, n))
  BY <1>4 DEF ForMerger
<1>6. PromisedBy(frames[c].node) = "scores"
  BY <1>1, <1>5, ParallelNode DEF PromisedBy, Promised
<1>7. WellFormed(frames[c].ret) /\ "scores" \in DOMAIN frames[c].ret
  <2>1. FrameOK(c)
    BY <1>3 DEF IInv
  <2> QED  BY <1>1, <1>6, <2>1, ReturnedFacts
<1>8. Outcome(ret, PromisedBy(frames[p].node)) /\ ~Raised(ret)
  <2> DEFINE b == frames[c].ret
  <2>1. DOMAIN noted \subseteq {"expanded_queries"}
    OBVIOUS
  <2> HIDE DEF noted, b
  <2>2. /\ DOMAIN (noted ++ b) = DOMAIN noted \union DOMAIN b
        /\ \A f \in DOMAIN b : f \notin DOMAIN noted => (noted ++ b)[f] = b[f]
    BY PlusFacts
  <2> DEFINE d == noted ++ b
  <2> HIDE DEF d
  <2>3. WellFormed(b) /\ "scores" \in DOMAIN b
    BY <1>7 DEF b
  <2>4. WellFormed(d) /\ "scores" \in DOMAIN d
    BY <2>1, <2>2, <2>3 DEF WellFormed, DictWith, Fields, d
  <2>5. ~Raised(d)
    BY <2>4, WellFormedNotRaised
  <2> QED  BY <1>2, <2>4, <2>5 DEF Outcome, d, b
<1> HIDE DEF ret
<1>9. ASSUME NEW k \in DOMAIN frames, k # Root, Parent(k) = p
      PROVE  Returned(k)
  <2>1. k = Child(p, Slot(k)) /\ MadeInTurn(p, Slot(k))
    BY <1>9, ChildOf
  <2>2. CASE ForExpander(p, Slot(k))
    BY <1>5, <2>1, <2>2 DEF ForExpander, Expanded, ExpanderOf
  <2>3. CASE ForMerger(p, Slot(k))
    BY <1>1, <2>1, <2>3 DEF ForMerger, MergerOf
  <2>4. CASE ForBranch(p, Slot(k))
    BY <1>5, <2>1, <2>4 DEF ForBranch
  <2> QED  BY <1>1, <2>1, <2>2, <2>3, <2>4 DEF MadeInTurn
<1> QED  BY <1>1, <1>8, <1>9, ReturnedIsNoRaise, EndsKeeps

LEMMA RaisesKeeps ==
    ASSUME IInv, NEW p \in DOMAIN frames, NEW c \in DOMAIN frames, Raises(p, c)
    PROVE  IInv'
<1> DEFINE ret == frames[c].ret
<1>1. /\ ~Ended(p) /\ c # Root /\ p = Parent(c)
      /\ Ended(c) /\ Raised(ret) /\ Ends(p, ret)
  BY DEF Raises, Parent
<1>5. FrameOK(c)
  BY DEF IInv
<1>2. IsRaise(ret) /\ ret # Raise("KeyError")
  BY <1>1, <1>5, ReturnedFacts DEF FrameOK
<1>3. frames[p].node.kind # "call"
  <2>1. MadeInTurn(p, Slot(c))
    BY <1>1, ChildOf
  <2> QED  BY <2>1 DEF MadeInTurn
<1> HIDE DEF ret
<1>4. Outcome(ret, PromisedBy(frames[p].node))
  BY <1>2 DEF Outcome
<1> QED  BY <1>1, <1>2, <1>3, <1>4, EndsKeeps

\* Every call of a verified pipeline finds its service.
LEMMA VerifiedCalls ==
    ASSUME IInv, NEW p \in DOMAIN frames, frames[p].node.kind = "call"
    PROVE  HasService(frames[p].node)
<1> DEFINE calls == AllCalls(request.tree)
           call == frames[p].node
           collection == request.collection
<1>1. Verify(calls, collection) = ""
  BY FramesMean DEF IInv, ProgressOK
<1>2. call \in calls
  BY NodeFacts DEF AllCalls
<1> HIDE DEF calls, call, collection
<1>3. \A c \in calls : HasService(c)
  BY <1>1 DEF Verify
<1> QED  BY <1>2, <1>3 DEF call

LEMMA CallReturnsKeeps ==
    ASSUME IInv, NEW p \in DOMAIN frames, CallReturns(p)
    PROVE  IInv'
<1> DEFINE call == frames[p].node
           ret == RunCall(call, frames[p].query, frames[p].last)
<1>1. call.kind = "call" /\ ~Ended(p) /\ Ends(p, ret)
  BY DEF CallReturns, Running
<1>2. /\ IsCall(call) /\ Handable(call, frames[p].last) /\ frames[p].query \in Queries
      /\ PromisedBy(call) = Promised(call.role) /\ HasService(call)
  BY <1>1, NodeFacts, VerifiedCalls
<1>3. Outcome(ret, PromisedBy(call))
  BY <1>2, RunCallFacts
<1>6. ret # Raise("KeyError")
  <2>1. call.role = "rerank" => "scores" \in DOMAIN frames[p].last
    BY <1>1, NodeFacts, PlaceFacts
  <2> QED  BY <1>2, <2>1, RunCallFindsItsWay
<1>4. ASSUME NEW c \in DOMAIN frames, c # Root, Parent(c) = p
      PROVE  FALSE
  BY <1>1, <1>4, ChildOf DEF MadeInTurn
<1> HIDE DEF ret
<1>5. call.kind = "call" => ret = RunCall(call, frames[p].query, frames[p].last)
  BY DEF ret
<1> QED  BY <1>1, <1>3, <1>4, <1>5, <1>6, EndsKeeps

LEMMA NoFrames ==
    ASSUME IInv, progress = "posted"
    PROVE  request \in Requests /\ frames = <<>> /\ replies = <<>>
BY DEF IInv, ProgressOK

LEMMA RejectKeeps ==
    ASSUME IInv, NEW class, Reject(class)
    PROVE  IInv'
<1>1. request \in Requests /\ frames = <<>> /\ replies = <<>>
  BY NoFrames DEF Reject
<1>2. /\ progress' = "rejected" /\ answer' = Raise(class)
      /\ request' = request /\ frames' = <<>> /\ replies' = <<>>
  BY <1>1 DEF Reject
<1>3. IsRaise(answer)'
  BY <1>2 DEF IsRaise, Raised, Raise
<1>4. ProgressOK'
  BY <1>1, <1>2, <1>3 DEF ProgressOK
<1>5. DOMAIN frames' = {}
  BY <1>2
<1> QED  BY <1>4, <1>5 DEF IInv

LEMMA AcceptKeeps ==
    ASSUME IInv, NEW class, class = Verify(AllCalls(request.tree), request.collection), Accept(class)
    PROVE  IInv'
<1> DEFINE root == Frame(request.tree, request.query, <<>>)
<1>1. request \in Requests /\ frames = <<>> /\ replies = <<>>
  BY NoFrames DEF Accept
<1>2. /\ progress' = "verified" /\ class = ""
      /\ frames' = [p \in {Root} |-> root]
      /\ request' = request /\ replies' = <<>>
  BY <1>1 DEF Accept
<1>3. /\ root.node = request.tree /\ root.query = request.query /\ root.last = <<>>
      /\ root.ret = Pending /\ DOMAIN root = {"node", "query", "last", "ret"}
  BY DEF Frame
<1> HIDE DEF root
<1>4. DOMAIN frames' = {Root} /\ frames'[Root] = root
  BY <1>2
<1>5. ProgressOK'
  BY <1>1, <1>2, <1>3, <1>4 DEF ProgressOK
<1>6. /\ request.tree \in Nodes(request.tree) /\ request.query \in Queries
      /\ IsStage(request.tree)
  BY <1>1, TreeFacts
<1>7. WellFormed(<<>>)
  BY DEF WellFormed, DictWith
<1>8. Arguments(request.tree, request.query, <<>>)
  BY <1>1, <1>6, <1>7, StageFacts, PlaceFacts DEF Arguments
<1>9. FrameOK(Root)'
  BY <1>2, <1>3, <1>4, <1>8, PendingIsNoRaise DEF FrameOK, Arguments
<1>10. PlaceOK(Root)'
  BY DEF PlaceOK, Root
<1> QED  BY <1>4, <1>5, <1>9, <1>10 DEF IInv

\* A step that leaves the frames alone.
LEMMA FramesKept ==
    ASSUME IInv, frames' = frames, request' = request, ProgressOK'
    PROVE  IInv'
<1>1. \A q : Started(q)' = Started(q) /\ Ended(q)' = Ended(q) /\ Returned(q)' = Returned(q)
  BY DEF Started, Ended, Returned
<1>2. ASSUME NEW p \in DOMAIN frames PROVE FrameOK(p)'
  <2>1. FrameOK(p)
    BY DEF IInv
  <2> QED  BY <2>1 DEF FrameOK, Arguments
<1>3. Later
  BY DEF Later
<1>4. ASSUME NEW c \in DOMAIN frames PROVE PlaceOK(c)'
  <2>1. PlaceOK(c)
    BY DEF IInv
  <2>2. CASE c = Root
    BY <2>1, <2>2 DEF PlaceOK
  <2>3. CASE c # Root
    <3>1. /\ c \in Seq(Int) /\ Parent(c) \in DOMAIN frames /\ MadeInTurn(Parent(c), Slot(c))
          /\ Returned(Parent(c)) => Returned(c)
      BY <2>1, <2>3 DEF PlaceOK
    <3>2. c = Child(Parent(c), Slot(c))
      BY <2>3, <3>1, ParentFacts
    <3>3. MadeInTurn(Parent(c), Slot(c))'
      BY <1>3, <3>1, <3>2, LaterInTurn
    <3> QED  BY <1>1, <3>1, <3>3 DEF PlaceOK
  <2> QED  BY <2>2, <2>3
<1> QED  BY <1>2, <1>4 DEF IInv

LEMMA FinishKeeps ==
    ASSUME IInv, Finish
    PROVE  IInv'
<1>1. /\ progress = "verified" /\ Ended(Root)
      /\ progress' = IF Returned(Root) THEN "answered" ELSE "raised"
      /\ answer' = frames[Root].ret
      /\ UNCHANGED <<request, frames, replies>>
  BY DEF Finish
<1>2. Root \in DOMAIN frames
  BY <1>1 DEF Ended, Started
<1>3. ProgressOK /\ FrameOK(Root)
  BY <1>2 DEF IInv
<1>4. Returned(Root)' = Returned(Root)
  BY <1>1 DEF Returned, Ended, Started
<1>5. replies' = <<>>
  BY <1>1, <1>3 DEF ProgressOK
<1>6. ~Returned(Root) => IsRaise(frames[Root].ret)
  BY <1>1, <1>3, ReturnedFacts DEF Returned
<1>7. ProgressOK'
  <2>1. CASE Returned(Root)
    BY <1>1, <1>3, <1>4, <1>5, <2>1 DEF ProgressOK
  <2>2. CASE ~Returned(Root)
    <3>1. progress' = "raised" /\ IsRaise(answer)'
      BY <1>1, <1>6, <2>2 DEF IsRaise
    <3> QED  BY <1>1, <1>3, <1>5, <3>1 DEF ProgressOK
  <2> QED  BY <2>1, <2>2
<1> QED  BY <1>1, <1>7, FramesKept

LEMMA RespondKeeps ==
    ASSUME IInv, Respond
    PROVE  IInv'
<1>1. /\ progress \in {"rejected", "raised", "answered"}
      /\ replies' = [rest |-> RestPipeline(request.query, answer),
                     grpc |-> GrpcPipeline(request.query, answer)]
      /\ UNCHANGED <<request, progress, frames, answer>>
  BY DEF Respond
<1>2. ProgressOK
  BY DEF IInv
<1>3. Returned(Root)' = Returned(Root) /\ IsRaise(answer)' = IsRaise(answer)
  BY <1>1 DEF Returned, Ended, Started, IsRaise
<1>4. ProgressOK'
  BY <1>1, <1>2, <1>3 DEF ProgressOK
<1> QED  BY <1>1, <1>4, FramesKept

LEMMA Initially == PipeInit => IInv
<1> SUFFICES ASSUME PipeInit PROVE IInv
  OBVIOUS
<1>1. DOMAIN frames = {}
  BY DEF PipeInit
<1>2. ProgressOK
  BY DEF PipeInit, ProgressOK
<1> QED  BY <1>1, <1>2 DEF IInv

LEMMA StepKeeps == IInv /\ [PipeNext]_pipeVars => IInv'
<1> SUFFICES ASSUME IInv, [PipeNext]_pipeVars PROVE IInv'
  OBVIOUS
<1>1. CASE VerifyPipeline
  <2>1. PICK class \in {Verify(AllCalls(request.tree), request.collection)} :
            Reject(class) \/ Accept(class)
    BY <1>1 DEF VerifyPipeline
  <2> QED  BY <2>1, RejectKeeps, AcceptKeeps
<1>2. ASSUME NEW p \in DOMAIN frames, Resumes(p) PROVE IInv'
  BY <1>2, NextStageKeeps, SequenceReturnsKeeps, StartExpanderKeeps, FanOutKeeps,
     StartMergerKeeps, MergerReturnsKeeps, RaisesKeeps DEF Resumes
<1>3. CASE Finish
  BY <1>3, FinishKeeps
<1>4. CASE Respond
  BY <1>4, RespondKeeps
<1>5. ASSUME NEW p \in DOMAIN frames, CallReturns(p) PROVE IInv'
  BY <1>5, CallReturnsKeeps
<1>6. CASE UNCHANGED pipeVars
  <2>1. UNCHANGED <<request, progress, frames, answer, replies>>
    BY <1>6 DEF pipeVars
  <2>2. Returned(Root)' = Returned(Root) /\ IsRaise(answer)' = IsRaise(answer)
    BY <2>1 DEF Returned, Ended, Started, IsRaise
  <2>3. ProgressOK'
    BY <2>1, <2>2 DEF IInv, ProgressOK
  <2> QED  BY <2>1, <2>3, FramesKept
<1> QED  BY <1>1, <1>2, <1>3, <1>4, <1>5, <1>6 DEF PipeNext, LoopStep

\* The inductive invariant: every call of run was made in its turn by the call
\* above it, with arguments of the right form, and ended with the dict its node
\* promises, or raised.
THEOREM PipelineInvariance == PipeSpec => []IInv
<1> QED  BY Initially, StepKeeps, PTL DEF PipeSpec

-----------------------------------------------------------------------------
(***************************************************************************)
(* What the invariant gives.                                               *)
(***************************************************************************)
\* A call that has returned: its node, its arguments, and what it returned.
LEMMA ReturnedCallFacts ==
    ASSUME IInv, NEW p \in ReturnedCalls
    PROVE  LET call == frames[p].node
               ret == RunCall(call, frames[p].query, frames[p].last)
           IN  /\ p \in DOMAIN frames /\ call.kind = "call"
               /\ IsCall(call) /\ HasService(call) /\ Handable(call, frames[p].last)
               /\ frames[p].query \in Queries
               /\ frames[p].ret = ret /\ ~Raised(ret)
<1>1. p \in DOMAIN frames /\ frames[p].node.kind = "call" /\ Returned(p)
  BY DEF ReturnedCalls
<1>2. FrameOK(p)
  BY <1>1 DEF IInv
<1>3. frames[p].ret = RunCall(frames[p].node, frames[p].query, frames[p].last)
  BY <1>1, <1>2 DEF FrameOK, Returned, Ended
<1> QED  BY <1>1, <1>3, NodeFacts, VerifiedCalls DEF Returned

LEMMA NothingIsMissed == IInv => RunFindsWhatItNeeds
BY DEF IInv, FrameOK, RunFindsWhatItNeeds

\* A verified pipeline never fails for want of a service or of scores to rerank,
\* whatever the tree that the grammar and the aliases have made of it.
THEOREM RunNeverLooksInVain == PipeSpec => []RunFindsWhatItNeeds
<1> QED  BY PipelineInvariance, NothingIsMissed, PTL

LEMMA WholeWhenAnswered == IInv => AnswersAreWhole
<1> SUFFICES ASSUME IInv, progress = "answered", NEW q \in DOMAIN frames, ~Returned(q)
             PROVE  FALSE
  BY DEF AnswersAreWhole
<1> DEFINE Failed == {p \in DOMAIN frames : ~Returned(p)}
           T == {Len(p) : p \in Failed}
<1>1. \A p \in DOMAIN frames : p \in Seq(Int) /\ Len(p) \in Nat
  BY LenProperties DEF IInv, PlaceOK
<1>2. T \subseteq Nat /\ T # {}
  BY <1>1
<1>3. PICK n \in T : \A m \in T : n <= m
  BY <1>2, LeastNumber
<1>4. PICK p \in Failed : Len(p) = n
  BY <1>3
<1>5. p # Root
  BY <1>4 DEF IInv, ProgressOK
<1>6. /\ p \in Seq(Int) /\ Parent(p) \in DOMAIN frames
      /\ Returned(Parent(p)) => Returned(p)
  BY <1>4, <1>5 DEF IInv, PlaceOK
<1>7. Len(p) = Len(Parent(p)) + 1
  BY <1>5, <1>6, ParentFacts
<1>8. Parent(p) \in Failed
  BY <1>4, <1>6
<1>9. Len(Parent(p)) \in T /\ Len(Parent(p)) \in Nat
  BY <1>1, <1>6, <1>8, SMTT(60)
<1> HIDE DEF T
<1> QED  BY <1>3, <1>4, <1>7, <1>9

\* When a pipeline is answered, every call of run that was made has returned, the
\* branches of every fan-out included: none failed, and none is still running.
THEOREM WholeAnswers == PipeSpec => []AnswersAreWhole
<1> QED  BY PipelineInvariance, WholeWhenAnswered, PTL

LEMMA BestKept == IInv => LimitKeepsTheBest
<1> SUFFICES ASSUME IInv, NEW p \in ReturnedCalls, frames[p].node.role # "expander",
                    frames[p].node.limit \in 0..1000,
                    ~(frames[p].node.role = "search" /\ Composed(frames[p].node.name))
             PROVE  /\ ~Raised(Unlimited(p))
                    /\ HoldsTheBest(frames[p].ret.scores.of, frames[p].node.limit,
                                    Unlimited(p).scores.of)
  BY SMTT(60) DEF LimitKeepsTheBest
<1> DEFINE call == frames[p].node
           query == frames[p].query
           last == frames[p].last
<1>1. /\ IsCall(call) /\ HasService(call) /\ Handable(call, last) /\ query \in Queries
      /\ frames[p].ret = RunCall(call, query, last) /\ ~Raised(RunCall(call, query, last))
  BY ReturnedCallFacts, SMTT(60)
<1>2. Unlimited(p) = RunCall(Freed(call), query, last)
  BY SMTT(60) DEF Unlimited, Freed
<1> HIDE DEF call, query, last
<1>3. /\ ~Raised(RunCall(Freed(call), query, last))
      /\ HoldsTheBest(RunCall(call, query, last)["scores"].of, call.limit,
                      RunCall(Freed(call), query, last)["scores"].of)
  BY <1>1, CallKeepsTheBest DEF call
<1> QED  BY <1>1, <1>2, <1>3, ZenonT(60) DEF call

\* A stage with %N returns N of the documents that it would return without that
\* limit, at their scores and best first, and leaves out none that scores better.
THEOREM LimitsKeepTheBest == PipeSpec => []LimitKeepsTheBest
<1> QED  BY PipelineInvariance, BestKept, PTL

LEMMA CandidatesKept == IInv => RerankKeepsTheCandidates
<1> SUFFICES ASSUME IInv, NEW p \in ReturnedCalls, frames[p].node.role = "rerank",
                    ~LostFailure(frames[p].node.name)
             PROVE  LET before == Docs(frames[p].last.scores.of)
                        after == Docs(frames[p].ret.scores.of)
                    IN  /\ after \subseteq before
                        /\ after = before \/ Cardinality(after) = frames[p].node.limit
  BY DEF RerankKeepsTheCandidates
<1> DEFINE call == frames[p].node
           query == frames[p].query
           last == frames[p].last
           ret == RunCall(call, query, last)
<1>1. /\ IsCall(call) /\ HasService(call) /\ Handable(call, last) /\ query \in Queries
      /\ frames[p].ret = ret /\ ~Raised(ret)
  BY ReturnedCallFacts
<1> HIDE DEF call, query, last
<1>2. /\ Docs(ret["scores"].of) \subseteq Docs(last["scores"].of)
      /\ \/ Docs(ret["scores"].of) = Docs(last["scores"].of)
         \/ Cardinality(Docs(ret["scores"].of)) = call.limit
  BY <1>1, CallKeepsTheCandidates, SMTT(60) DEF call
<1> HIDE DEF ret
<1> QED  BY <1>1, <1>2 DEF call, last

\* A stage that reranks returns the documents it was handed, or as many of them as
\* its limit allows.
THEOREM RerankingKeepsTheCandidates == PipeSpec => []RerankKeepsTheCandidates
<1> QED  BY PipelineInvariance, CandidatesKept, PTL

ReadTheTexts(engine, asked, limit, kept) ==
    LET found == Docs(Ranked(engine.upstream, asked, UpstreamLimit(limit)).of)
        own(doc) == Score[engine.scorer][asked][doc]
    IN  /\ Docs(kept) \subseteq found
        /\ \A e \in Items(kept) : e.score = own(e.doc)
        /\ \A d \in found \ Docs(kept) :
               Len(kept) = limit /\ \A e \in Items(kept) : own(d) <= e.score

LEMMA TextsRead == IInv => RerankersReadTheirTexts
<1> SUFFICES ASSUME IInv, NEW p \in ReturnedCalls, frames[p].node.role = "search",
                    frames[p].node.name \in DOMAIN Rerankers \ DOMAIN RelayOf
             PROVE  LET call == frames[p].node
                        engine == Rerankers[call.name]
                        asked == Field(frames[p].last, "query", frames[p].query)
                        limit == IF call.limit = NoLimit THEN 1000 ELSE call.limit
                        found == Docs(Ranked(engine.upstream, asked, UpstreamLimit(limit)).of)
                        own(doc) == Score[engine.scorer][asked][doc]
                        kept == frames[p].ret.scores.of
                    IN  /\ Docs(kept) \subseteq found
                        /\ \A e \in Items(kept) : e.score = own(e.doc)
                        /\ \A d \in found \ Docs(kept) :
                                Len(kept) = limit /\ \A e \in Items(kept) : own(d) <= e.score
  BY ZenonT(60) DEF RerankersReadTheirTexts
<1> DEFINE call == frames[p].node
           query == frames[p].query
           last == frames[p].last
           ret == RunCall(call, query, last)
<1>1. /\ IsCall(call) /\ HasService(call) /\ Handable(call, last) /\ query \in Queries
      /\ frames[p].ret = ret /\ ~Raised(ret)
  BY ReturnedCallFacts
<1> HIDE DEF call, query, last, ret
<1> DEFINE limit == IF frames[p].node.limit = NoLimit THEN 1000 ELSE frames[p].node.limit
           asked == Field(frames[p].last, "query", frames[p].query)
<1>2. ReadTheTexts(Rerankers[call.name], Asked(query, last), Wanted(call), ret["scores"].of)
  BY <1>1, CallReadsTheTexts, ZenonT(60) DEF ReadTheTexts, call, ret
<1>3. ReadTheTexts(Rerankers[frames[p].node.name], asked, limit, frames[p].ret.scores.of)
  BY <1>1, <1>2 DEF Asked, Wanted, call, query, last
<1> QED  BY <1>3, ZenonT(60) DEF ReadTheTexts

\* A Reranker that searches by itself returns the best of what its upstream engine
\* found, each document with the score of its own text.
THEOREM RerankersRead == PipeSpec => []RerankersReadTheirTexts
<1> QED  BY PipelineInvariance, TextsRead, PTL

\* One answer over the two transports.
LEMMA RaiseReplied ==
    ASSUME NEW ret, Raised(ret), NEW query
    PROVE  ~Replied(RestPipeline(query, ret)) /\ ~Replied(GrpcPipeline(query, ret))
<1>1. ~Replied(Refused) /\ ~Replied(Failure)
  BY DEF Replied, Refused, Failure
<1>2. RestPipeline(query, ret) \in {Refused, Failure}
  BY DEF RestPipeline
<1>3. GrpcPipeline(query, ret) \in {Refused, Failure}
  BY DEF GrpcPipeline
<1> QED  BY <1>1, <1>2, <1>3

LEMMA EmptyDomain == DOMAIN <<>> = {}
OBVIOUS

LEMMA DictReplied ==
    ASSUME NEW ret, WellFormed(ret), "scores" \in DOMAIN ret, NEW query, query # ""
    PROVE  LET rest == RestPipeline(query, ret)
               grpc == GrpcPipeline(query, ret)
           IN  /\ Replied(rest) /\ Replied(grpc)
               /\ Field(rest, "query", query) = grpc.query
               /\ rest.scores = grpc.scores
               /\ Field(rest, "expanded_queries", <<>>) = Field(grpc, "expanded_queries", <<>>)
<1> DEFINE rest == RestPipeline(query, ret)
           grpc == GrpcPipeline(query, ret)
           head == [query |-> Field(ret, "query", query), scores |-> AsMap(ret["scores"])]
           tail == IF Field(ret, "expanded_queries", <<>>) = <<>> THEN <<>>
                   ELSE [expanded_queries |-> ret["expanded_queries"]]
<1>1. ~Raised(ret) /\ "status" \notin DOMAIN ret
  BY WellFormedNotRaised
<1>2. rest = [ret EXCEPT !["scores"] = AsMap(ret["scores"])]
  BY <1>1 DEF RestPipeline
<1>3. /\ DOMAIN rest = DOMAIN ret /\ rest["scores"] = AsMap(ret["scores"])
      /\ \A f \in DOMAIN ret : f # "scores" => rest[f] = ret[f]
  BY <1>2
<1>4. grpc = head ++ tail
  BY <1>1 DEF GrpcPipeline, Field
<1>5. DOMAIN head = {"query", "scores"} /\ head["query"] = Field(ret, "query", query)
      /\ head["scores"] = AsMap(ret["scores"])
  OBVIOUS
<1>6. IF Field(ret, "expanded_queries", <<>>) = <<>>
      THEN DOMAIN tail = {}
      ELSE DOMAIN tail = {"expanded_queries"} /\ tail["expanded_queries"] = ret["expanded_queries"]
  <2>1. CASE Field(ret, "expanded_queries", <<>>) = <<>>
    <3>1. tail = <<>>
      BY <2>1
    <3>2. DOMAIN tail = {}
      BY ONLY <3>1, EmptyDomain
    <3> QED  BY <2>1, <3>2
  <2>2. CASE Field(ret, "expanded_queries", <<>>) # <<>>
    <3>1. tail = [expanded_queries |-> ret["expanded_queries"]]
      BY <2>2
    <3> HIDE DEF tail
    <3> QED  BY <2>2, <3>1
  <2> HIDE DEF tail
  <2> QED  BY <2>1, <2>2
<1> HIDE DEF head, tail, rest
<1>7. /\ DOMAIN (head ++ tail) = DOMAIN head \union DOMAIN tail
      /\ \A f \in DOMAIN head : (head ++ tail)[f] = head[f]
      /\ \A f \in DOMAIN tail : f \notin DOMAIN head => (head ++ tail)[f] = tail[f]
  BY PlusFacts
<1> HIDE DEF grpc
<1>8. /\ "status" \notin DOMAIN grpc /\ grpc["query"] = Field(ret, "query", query)
      /\ grpc["scores"] = AsMap(ret["scores"])
  <2>1. DOMAIN tail \subseteq {"expanded_queries"}
    BY <1>6
  <2>2. "query" \in DOMAIN head /\ "scores" \in DOMAIN head
    BY <1>5
  <2>3. grpc["query"] = head["query"] /\ grpc["scores"] = head["scores"]
    BY <1>4, <1>7, <2>2
  <2>4. "status" \notin DOMAIN grpc
    BY <1>4, <1>5, <1>7, <2>1
  <2> QED  BY <1>5, <2>3, <2>4
<1>9. Field(grpc, "expanded_queries", <<>>) = Field(ret, "expanded_queries", <<>>)
  BY <1>4, <1>5, <1>6, <1>7 DEF Field
<1>10. /\ Field(rest, "expanded_queries", <<>>) = Field(ret, "expanded_queries", <<>>)
       /\ Field(rest, "query", query) = Field(ret, "query", query)
  BY <1>3 DEF Field
<1>11. Replied(rest) /\ Replied(grpc)
  BY <1>1, <1>3, <1>8 DEF Replied
<1> QED  BY <1>3, <1>8, <1>9, <1>10, <1>11 DEF rest, grpc

LEMMA TransportsOfOneAnswer == IInv => TransportsAgree
<1> SUFFICES ASSUME IInv, replies # <<>>, request.query # ""
             PROVE  /\ Replied(replies.rest) <=> Replied(replies.grpc)
                    /\ Replied(replies.rest) =>
                        /\ Field(replies.rest, "query", request.query) = replies.grpc.query
                        /\ Items(replies.rest.scores.of) = Items(replies.grpc.scores.of)
                        /\ Field(replies.rest, "expanded_queries", <<>>) =
                                Field(replies.grpc, "expanded_queries", <<>>)
  BY DEF TransportsAgree
<1> DEFINE rest == RestPipeline(request.query, answer)
           grpc == GrpcPipeline(request.query, answer)
<1>1. /\ progress \in {"rejected", "answered", "raised"}
      /\ replies = [rest |-> rest, grpc |-> grpc]
      /\ progress = "answered" => Returned(Root) /\ answer = frames[Root].ret
      /\ progress \in {"rejected", "raised"} => IsRaise(answer)
  BY DEF IInv, ProgressOK
<1>2. replies.rest = rest /\ replies.grpc = grpc
  BY <1>1
<1>3. CASE progress \in {"rejected", "raised"}
  <2>1. ~Replied(rest) /\ ~Replied(grpc)
    BY <1>1, <1>3, RaiseReplied DEF IsRaise
  <2> QED  BY <1>2, <2>1
<1>4. CASE progress = "answered"
  <2>1. Returned(Root) /\ Root \in DOMAIN frames /\ answer = frames[Root].ret
    BY <1>1, <1>4 DEF Returned, Ended, Started
  <2>2. PromisedBy(frames[Root].node) = "scores"
    BY <2>1, FramesMean, TreeFacts, StageFacts, ZenonT(60)
  <2>3. FrameOK(Root)
    BY <2>1 DEF IInv
  <2>4. WellFormed(answer) /\ "scores" \in DOMAIN answer
    BY <2>1, <2>2, <2>3, ReturnedFacts
  <2>5. /\ Replied(rest) /\ Replied(grpc)
        /\ Field(rest, "query", request.query) = grpc.query
        /\ rest.scores = grpc.scores
        /\ Field(rest, "expanded_queries", <<>>) = Field(grpc, "expanded_queries", <<>>)
    BY <2>4, DictReplied
  <2> HIDE DEF rest, grpc
  <2> QED  BY <1>2, <2>5
<1> QED  BY <1>1, <1>3, <1>4

\* A request ends alike over REST and over gRPC: with the same query, documents,
\* scores and sub-queries, or with neither.
THEOREM TransportsAgreeAlways == PipeSpec => []TransportsAgree
<1> QED  BY PipelineInvariance, TransportsOfOneAnswer, PTL
=============================================================================
