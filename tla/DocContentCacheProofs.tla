----------------------- MODULE DocContentCacheProofs ------------------------
(***************************************************************************)
(* The per-run cache of documents keeps its accounts and answers every     *)
(* call with its own document, for any calls, sizes, cap and collection.   *)
(*                                                                         *)
(* The size of the cache is a sum over a sequence, defined by a recursive  *)
(* function.  What such a sum is for every sequence is shown by a least    *)
(* counterexample (LeastNumber): the sums of the first entries exist       *)
(* (SumsExist) and are the only ones (SumsAgree), so that BytesIn adds up  *)
(* over a split and over an insertion.                                     *)
(***************************************************************************)
EXTENDS DocContentCache, SequenceTheorems, FiniteSetTheorems, WellFoundedInduction, TLAPS

Payloads == [view : Views, doc : DocIds, parts : Nat]
Items == [key : Views \X DocIds, value : Payloads]

-----------------------------------------------------------------------------
\* A set of numbers that is not empty has a least one.
LEMMA LeastNumber ==
    ASSUME NEW T, T \subseteq Nat, T # {}
    PROVE  \E x \in T : \A y \in T : x <= y
<1>1. PICK x \in T : \A y \in T : <<y, x>> \notin OpToRel(<, Nat)
  BY NatLessThanWellFounded, WFMin
<1>2. \A y \in T : ~(y < x)
  BY <1>1 DEF OpToRel
<1> QED  BY <1>2

LEMMA SizeIsNat == ASSUME NEW v \in Payloads PROVE Size(v) \in Nat
BY DocAssumption DEF Size, Payloads

\* The sums of the first entries of q.
SumsOf(q, g) ==
    /\ g[0] = 0
    /\ \A i \in 1..Len(q) : g[i] = g[i - 1] + Size(q[i].value)

LEMMA SumsExist ==
    ASSUME NEW q \in Seq(Items)
    PROVE  \E g \in [0..Len(q) -> Nat] : SumsOf(q, g)
<1> DEFINE Up(n) == \E g \in [0..n -> Nat] :
                        g[0] = 0 /\ \A i \in 1..n : g[i] = g[i - 1] + Size(q[i].value)
           Bad == {n \in 0..Len(q) : ~Up(n)}
<1>1. Len(q) \in Nat /\ \A i \in 1..Len(q) : Size(q[i].value) \in Nat
  <2>1. \A i \in 1..Len(q) : q[i] \in Items
    BY ElementOfSeq
  <2> QED  BY <2>1, SizeIsNat, LenProperties DEF Items
<1>2. Bad = {}
  <2>1. SUFFICES ASSUME Bad # {} PROVE FALSE
    OBVIOUS
  <2>2. Bad \subseteq Nat
    BY <1>1
  <2>3. PICK n \in Bad : \A m \in Bad : n <= m
    BY <2>1, <2>2, LeastNumber
  <2>4. n \in 0..Len(q) /\ ~Up(n)
    OBVIOUS
  <2>5. n # 0
    <3>1. Up(0)
      <4> WITNESS [i \in 0..0 |-> 0] \in [0..0 -> Nat]
      <4> QED  OBVIOUS
    <3> QED  BY <2>4, <3>1
  <2>6. n - 1 \in 0..Len(q) /\ n \in 1..Len(q) /\ n \in Nat
    BY <1>1, <2>4, <2>5
  <2>7. Up(n - 1)
    <3> HIDE DEF Up
    <3>1. n - 1 \notin Bad
      <4> HIDE DEF Bad
      <4> QED  BY <2>3, <2>6
    <3> QED  BY <2>6, <3>1
  <2>8. PICK g \in [0..n - 1 -> Nat] :
            g[0] = 0 /\ \A i \in 1..n - 1 : g[i] = g[i - 1] + Size(q[i].value)
    BY <2>7
  <2> DEFINE h == [i \in 0..n |-> IF i = n THEN g[n - 1] + Size(q[n].value) ELSE g[i]]
  <2>9. h \in [0..n -> Nat]
    BY <1>1, <2>6, <2>8
  <2>10. h[0] = 0
    BY <2>5, <2>6, <2>8
  <2>11. \A i \in 1..n : h[i] = h[i - 1] + Size(q[i].value)
    BY <1>1, <2>6, <2>8
  <2>12. Up(n)
    BY <2>9, <2>10, <2>11
  <2> QED  BY <2>4, <2>12
<1>3. Up(Len(q))
  <2> HIDE DEF Up
  <2> QED  BY <1>1, <1>2
<1> QED  BY <1>3 DEF SumsOf

\* Sums are unique, so any sums of the entries of q tell BytesIn(q).
LEMMA SumsAgree ==
    ASSUME NEW q \in Seq(Items), NEW g, SumsOf(q, g), NEW h, SumsOf(q, h)
    PROVE  \A n \in 0..Len(q) : g[n] = h[n]
<1> DEFINE Bad == {n \in 0..Len(q) : g[n] # h[n]}
<1>1. Len(q) \in Nat
  BY LenProperties
<1>2. Bad = {}
  <2>1. SUFFICES ASSUME Bad # {} PROVE FALSE
    OBVIOUS
  <2>2. Bad \subseteq Nat
    BY <1>1
  <2>3. PICK n \in Bad : \A m \in Bad : n <= m
    BY <2>1, <2>2, LeastNumber
  <2>4. n \in 1..Len(q)
    BY <1>1 DEF SumsOf
  <2>5. n - 1 \in 0..Len(q) /\ n - 1 \notin Bad
    BY <1>1, <2>3, <2>4
  <2>6. g[n] = g[n - 1] + Size(q[n].value) /\ h[n] = h[n - 1] + Size(q[n].value)
    BY <2>4 DEF SumsOf
  <2> QED  BY <2>5, <2>6
<1> QED  BY <1>2

LEMMA BytesBySums ==
    ASSUME NEW q \in Seq(Items), NEW g, SumsOf(q, g)
    PROVE  BytesIn(q) = g[Len(q)]
<1> DEFINE F(f) == [i \in 0..Len(q) |-> IF i = 0 THEN 0 ELSE f[i - 1] + Size(q[i].value)]
           s == CHOOSE f : f = F(f)
<1>1. Len(q) \in Nat
  BY LenProperties
<1>2. PICK h \in [0..Len(q) -> Nat] : SumsOf(q, h)
  BY SumsExist
<1>3. h = F(h)
  BY <1>1, <1>2 DEF SumsOf
<1>4. s = F(s)
  BY <1>3
<1> HIDE DEF s
<1>5. SumsOf(q, s)
  BY <1>1, <1>4 DEF SumsOf
<1>6. BytesIn(q) = s[Len(q)]
  BY DEF BytesIn, s
<1>7. Len(q) \in 0..Len(q)
  BY <1>1
<1> QED  BY <1>5, <1>6, <1>7, SumsAgree

LEMMA BytesInIsNat == ASSUME NEW q \in Seq(Items) PROVE BytesIn(q) \in Nat
<1>1. PICK g \in [0..Len(q) -> Nat] : SumsOf(q, g)
  BY SumsExist
<1> QED  BY <1>1, BytesBySums, LenProperties

\* A cut through q splits its bytes.
LEMMA BytesSplit ==
    ASSUME NEW q \in Seq(Items), NEW n \in 0..Len(q)
    PROVE  /\ SubSeq(q, 1, n) \in Seq(Items) /\ SubSeq(q, n + 1, Len(q)) \in Seq(Items)
           /\ BytesIn(q) = BytesIn(SubSeq(q, 1, n)) + BytesIn(SubSeq(q, n + 1, Len(q)))
<1> DEFINE front == SubSeq(q, 1, n)
           rear == SubSeq(q, n + 1, Len(q))
<1>1. PICK g \in [0..Len(q) -> Nat] : SumsOf(q, g)
  BY SumsExist
<1>2. Len(q) \in Nat /\ \A i \in 1..Len(q) : q[i] \in Items
  BY ElementOfSeq, LenProperties
<1>3. /\ front \in Seq(Items) /\ Len(front) = n
      /\ \A i \in 1..n : front[i] = q[i]
  BY <1>2, SubSeqProperties
<1>4. /\ rear \in Seq(Items) /\ Len(rear) = Len(q) - n
      /\ \A i \in 1..Len(q) - n : rear[i] = q[n + i]
  BY <1>2, SubSeqProperties
<1> HIDE DEF front, rear
<1>5. SumsOf(front, g)
  BY <1>1, <1>2, <1>3 DEF SumsOf
<1> DEFINE h == [i \in 0..Len(q) - n |-> g[n + i] - g[n]]
<1>6. SumsOf(rear, h)
  <2>1. h[0] = 0
    BY <1>1, <1>2
  <2>2. ASSUME NEW i \in 1..Len(rear) PROVE h[i] = h[i - 1] + Size(rear[i].value)
    <3>1. /\ n + i \in 1..Len(q) /\ n + (i - 1) = n + i - 1 /\ i - 1 \in 0..Len(q) - n
          /\ i \in 0..Len(q) - n /\ n + i \in 0..Len(q) /\ n + i - 1 \in 0..Len(q)
      BY <1>2, <1>4
    <3>2. g[n + i] = g[n + i - 1] + Size(rear[i].value)
      <4>1. rear[i] = q[n + i]
        BY <1>4, <2>2
      <4>2. g[n + i] = g[n + i - 1] + Size(q[n + i].value)
        BY <1>1, <3>1 DEF SumsOf
      <4> QED  BY <4>1, <4>2
    <3>3. Size(rear[i].value) \in Nat
      <4>1. rear[i] \in Items
        BY <1>4, ElementOfSeq
      <4> QED  BY <4>1, SizeIsNat DEF Items
    <3>4. g[n + i - 1] \in Nat /\ g[n] \in Nat
      BY <1>1, <3>1
    <3> QED  BY <3>1, <3>2, <3>3, <3>4
  <2> HIDE DEF h
  <2> QED  BY <2>1, <2>2 DEF SumsOf
<1>7. h[Len(q) - n] = g[Len(q)] - g[n] /\ g[Len(q)] \in Nat /\ g[n] \in Nat
  BY <1>1, <1>2
<1> HIDE DEF h
<1>8. BytesIn(q) = g[Len(q)] /\ BytesIn(front) = g[n] /\ BytesIn(rear) = h[Len(q) - n]
  BY <1>1, <1>3, <1>4, <1>5, <1>6, BytesBySums
<1> QED  BY <1>3, <1>4, <1>7, <1>8 DEF front, rear

LEMMA BytesAppend ==
    ASSUME NEW q \in Seq(Items), NEW e \in Items
    PROVE  BytesIn(Append(q, e)) = BytesIn(q) + Size(e.value)
<1> DEFINE p == Append(q, e)
<1>1. PICK g \in [0..Len(q) -> Nat] : SumsOf(q, g)
  BY SumsExist
<1>2. /\ p \in Seq(Items) /\ Len(p) = Len(q) + 1 /\ p[Len(q) + 1] = e /\ Len(q) \in Nat
      /\ \A i \in 1..Len(q) : p[i] = q[i]
  BY AppendProperties, LenProperties
<1> HIDE DEF p
<1> DEFINE h == [i \in 0..Len(q) + 1 |-> IF i = Len(q) + 1 THEN g[Len(q)] + Size(e.value) ELSE g[i]]
<1>3. SumsOf(p, h)
  <2>1. h[0] = 0
    BY <1>1, <1>2 DEF SumsOf
  <2>2. \A i \in 1..Len(q) : h[i] = h[i - 1] + Size(p[i].value)
    BY <1>1, <1>2 DEF SumsOf
  <2>3. h[Len(q) + 1] = h[Len(q)] + Size(p[Len(q) + 1].value)
    BY <1>2
  <2> HIDE DEF h
  <2> QED  BY <1>2, <2>1, <2>2, <2>3 DEF SumsOf
<1>4. h[Len(q) + 1] = g[Len(q)] + Size(e.value)
  BY <1>2
<1> HIDE DEF h
<1>5. BytesIn(q) = g[Len(q)] /\ BytesIn(p) = h[Len(q) + 1]
  BY <1>1, <1>2, <1>3, BytesBySums
<1> QED  BY <1>4, <1>5 DEF p

\* Only the sizes matter.
LEMMA BytesSame ==
    ASSUME NEW q \in Seq(Items), NEW p \in Seq(Items), Len(p) = Len(q),
           \A i \in 1..Len(q) : Size(p[i].value) = Size(q[i].value)
    PROVE  BytesIn(p) = BytesIn(q)
<1>1. PICK g \in [0..Len(q) -> Nat] : SumsOf(q, g)
  BY SumsExist
<1>2. SumsOf(p, g)
  BY <1>1 DEF SumsOf
<1> QED  BY <1>1, <1>2, BytesBySums

-----------------------------------------------------------------------------
\* The content of a key: the document of the key, in the view it is kept in.
ViewFor(k) == IF site.relayed THEN site.default ELSE k[1]
RightFor(k, value) == value \in Payloads /\ value.doc = k[2] /\ value.view = ViewFor(k)

AllRight(q) == \A i \in 1..Len(q) : RightFor(q[i].key, q[i].value)
KeptOnce(q) == \A i, j \in 1..Len(q) : q[i].key = q[j].key => i = j
Big(q, i) == Size(q[i].value) > 0
Capped(q) == BytesIn(q) <= MaxBytes \/ \A i, j \in 1..Len(q) : Big(q, i) /\ Big(q, j) => i = j

\* The keys are those of a dict, the counter is never behind, and the cap holds.
Accounted ==
    /\ contents \in Seq(Items) /\ bytesUsed \in Int
    /\ AllRight(contents) /\ KeptOnce(contents)
    /\ MaxBytes # NoCap => BytesIn(contents) <= bytesUsed /\ Capped(contents)

\* The loop ends before it would evict the entry it was started for.
LEMMA EvictionsEnd ==
    ASSUME NEW q \in Seq(Items), NEW k, NEW used, NEW j \in 1..Len(q), q[j].key = k
    PROVE  Evictions(q, k, used) \in 0..j - 1 /\ StopsAfter(q, k, used, Evictions(q, k, used))
<1> DEFINE T == {n \in 0..Len(q) : StopsAfter(q, k, used, n)}
           Least(n) == StopsAfter(q, k, used, n) /\ \A m \in 0..(n - 1) : ~StopsAfter(q, k, used, m)
<1>1. Len(q) \in Nat /\ j - 1 \in 0..Len(q) /\ j - 1 + 1 = j
  BY LenProperties
<1>2. StopsAfter(q, k, used, j - 1)
  BY <1>1 DEF StopsAfter
<1>3. T \subseteq Nat /\ T # {}
  BY <1>1, <1>2
<1>4. PICK x \in T : \A y \in T : x <= y
  BY <1>3, LeastNumber
<1>5. x \in 0..Len(q) /\ Least(x)
  <2>1. \A m \in 0..(x - 1) : m \in 0..Len(q) /\ ~(x <= m)
    BY <1>1
  <2> QED  BY <1>4, <2>1
<1> DEFINE n == Evictions(q, k, used)
<1>6. n \in 0..Len(q) /\ Least(n)
  BY <1>5 DEF Evictions
<1> HIDE DEF n
<1>7. ~(j - 1 \in 0..(n - 1))
  BY <1>2, <1>6
<1> QED  BY <1>1, <1>6, <1>7 DEF n

\* All contents of one key have one size.
LEMMA SizeOfKey ==
    ASSUME NEW k, NEW v, NEW w, RightFor(k, v), RightFor(k, w)
    PROVE  Size(v) = Size(w)
BY DEF RightFor, Size

\* What an assignment to a key does to the items of the cache.
LEMMA AssignKeeps ==
    ASSUME Accounted, NEW k \in Views \X DocIds, NEW v, RightFor(k, v)
    PROVE  LET q == Assign(contents, k, v)
           IN  /\ q \in Seq(Items) /\ AllRight(q) /\ KeptOnce(q)
               /\ \E j \in 1..Len(q) : q[j].key = k
               /\ \/ /\ Len(q) = Len(contents) /\ BytesIn(q) = BytesIn(contents)
                     /\ \A i \in 1..Len(q) : Size(q[i].value) = Size(contents[i].value)
                  \/ /\ Len(q) = Len(contents) + 1 /\ q[Len(q)].key = k
                     /\ BytesIn(q) = BytesIn(contents) + Size(v)
                     /\ \A i \in 1..Len(contents) : q[i] = contents[i]
                     /\ q[Len(q)].value = v
<1> DEFINE q == Assign(contents, k, v)
           e == [key |-> k, value |-> v]
<1>1. /\ contents \in Seq(Items) /\ Len(contents) \in Nat /\ DOMAIN contents = 1..Len(contents)
      /\ \A i \in 1..Len(contents) : contents[i] \in Items
      /\ e \in Items /\ e.key = k /\ e.value = v
  BY LenProperties, ElementOfSeq DEF Accounted, Items, RightFor
<1> HIDE DEF e
<1>2. CASE Has(contents, k)
  <2>1. PICK j \in 1..Len(contents) : contents[j].key = k
    BY <1>1, <1>2 DEF Has
  <2>2. q = [i \in 1..Len(contents) |-> IF contents[i].key = k THEN e ELSE contents[i]]
    BY <1>1, <1>2 DEF Assign, e
  <2> HIDE DEF q
  <2>3. q \in Seq(Items) /\ Len(q) = Len(contents)
    <3>1. \A i \in 1..Len(contents) : q[i] \in Items
      BY <1>1, <2>2
    <3> QED  BY <1>1, <2>2, <3>1, IsASeq
  <2>4. \A i \in 1..Len(contents) : q[i].key = contents[i].key /\ RightFor(q[i].key, q[i].value)
    BY <1>1, <2>2 DEF Accounted, AllRight
  <2>5. AllRight(q) /\ KeptOnce(q)
    BY <2>3, <2>4 DEF Accounted, AllRight, KeptOnce
  <2>6. \A i \in 1..Len(contents) : Size(q[i].value) = Size(contents[i].value)
    BY <2>4, SizeOfKey DEF Accounted, AllRight
  <2>7. BytesIn(q) = BytesIn(contents)
    BY <1>1, <2>3, <2>6, BytesSame
  <2> QED  BY <2>1, <2>3, <2>4, <2>5, <2>6, <2>7 DEF q
<1>3. CASE ~Has(contents, k)
  <2>1. q = Append(contents, e)
    BY <1>3 DEF Assign, e
  <2> HIDE DEF q
  <2>2. /\ q \in Seq(Items) /\ Len(q) = Len(contents) + 1 /\ q[Len(contents) + 1] = e
        /\ \A i \in 1..Len(contents) : q[i] = contents[i]
    BY <1>1, <2>1, AppendProperties
  <2>3. \A i \in 1..Len(contents) : contents[i].key # k
    BY <1>1, <1>3 DEF Has
  <2>4. 1..Len(q) = 1..Len(contents) \union {Len(q)} /\ Len(q) \in 1..Len(q)
    BY <1>1, <2>2
  <2>5. AllRight(q)
    BY <1>1, <2>2, <2>4 DEF Accounted, AllRight
  <2>6. KeptOnce(q)
    BY <1>1, <2>2, <2>3, <2>4 DEF Accounted, KeptOnce
  <2>7. BytesIn(q) = BytesIn(contents) + Size(v)
    BY <1>1, <2>1, BytesAppend
  <2> QED  BY <1>1, <2>2, <2>4, <2>5, <2>6, <2>7 DEF q
<1> QED  BY <1>2, <1>3

\* _record_cache_insert keeps the accounts, and what it was called for.
LEMMA RecordAccounts ==
    ASSUME Accounted, NEW k \in Views \X DocIds, NEW v, RightFor(k, v),
           RecordInsert(k, v), site' = site
    PROVE  Accounted' /\ Has(contents', k)
<1> DEFINE q == Assign(contents, k, v)
           used == bytesUsed + Size(v)
           n == Evictions(q, k, used)
           front == SubSeq(q, 1, n)
           rear == SubSeq(q, n + 1, Len(q))
<1>1. /\ q \in Seq(Items) /\ AllRight(q) /\ KeptOnce(q)
      /\ \/ /\ Len(q) = Len(contents) /\ BytesIn(q) = BytesIn(contents)
            /\ \A i \in 1..Len(q) : Size(q[i].value) = Size(contents[i].value)
         \/ /\ Len(q) = Len(contents) + 1 /\ q[Len(q)].key = k
            /\ BytesIn(q) = BytesIn(contents) + Size(v)
            /\ \A i \in 1..Len(contents) : q[i] = contents[i]
            /\ q[Len(q)].value = v
  BY AssignKeeps
<1>2. PICK j \in 1..Len(q) : q[j].key = k
  BY AssignKeeps
<1>3. /\ Size(v) \in Nat /\ bytesUsed \in Int /\ contents \in Seq(Items)
      /\ Len(contents) \in Nat /\ Len(q) \in Nat
      /\ BytesIn(contents) \in Nat /\ BytesIn(q) \in Nat
      /\ MaxBytes # NoCap => MaxBytes \in Nat
  BY <1>1, SizeIsNat, BytesInIsNat, LenProperties, DocAssumption DEF Accounted, RightFor
<1>4. \A p : AllRight(p)' = AllRight(p)
  BY DEF AllRight, RightFor, ViewFor
<1>5. \/ (MaxBytes = NoCap \/ Size(v) = 0) /\ contents' = q /\ bytesUsed' = bytesUsed
      \/ MaxBytes # NoCap /\ contents' = rear /\ bytesUsed' = used - BytesIn(front)
  BY DEF RecordInsert, Counted
<1>6. n \in 0..j - 1 /\ StopsAfter(q, k, used, n)
  BY <1>1, <1>2, EvictionsEnd
<1>7. n \in 0..Len(q) /\ n + 1 \in 1..Len(q)
  BY <1>2, <1>3, <1>6
<1>8. /\ front \in Seq(Items) /\ rear \in Seq(Items)
      /\ BytesIn(front) \in Nat /\ BytesIn(rear) \in Nat
      /\ BytesIn(q) = BytesIn(front) + BytesIn(rear)
  BY <1>1, <1>7, BytesSplit, BytesInIsNat
<1>9. /\ Len(rear) = Len(q) - n
      /\ \A i \in 1..Len(q) - n : rear[i] = q[n + i] /\ n + i \in 1..Len(q)
  <2>1. \A i \in n + 1..Len(q) : q[i] \in Items
    BY <1>1, <1>7, ElementOfSeq
  <2>2. \A i \in 1..Len(q) - n : n + 1 + i - 1 = n + i /\ n + i \in 1..Len(q)
    BY <1>3, <1>7
  <2>3. n + 1 \in Int /\ Len(q) \in Int /\ n + 1 <= Len(q)
        /\ Len(q) - (n + 1) + 1 = Len(q) - n
    BY <1>3, <1>7
  <2> HIDE DEF n, q
  <2> QED  BY <2>1, <2>2, <2>3, SubSeqProperties
<1> HIDE DEF q, used, n, front, rear
<1>10. CASE (MaxBytes = NoCap \/ Size(v) = 0) /\ contents' = q /\ bytesUsed' = bytesUsed
  <2>1. Has(contents', k)
    BY <1>1, <1>2, <1>10, LenProperties DEF Has
  <2>2. ASSUME MaxBytes # NoCap PROVE BytesIn(q) = BytesIn(contents) /\ Capped(q)
    <3>1. BytesIn(q) = BytesIn(contents) /\ Size(v) = 0
      BY <1>1, <1>3, <1>10, <2>2
    <3>2. \A i \in 1..Len(q) : Big(q, i) => i \in 1..Len(contents) /\ Big(contents, i)
      <4> SUFFICES ASSUME NEW i \in 1..Len(q), Big(q, i)
                   PROVE  i \in 1..Len(contents) /\ Big(contents, i)
        OBVIOUS
      <4>1. i # Len(q) \/ Len(q) = Len(contents)
        BY <1>1, <3>1 DEF Big
      <4>2. i \in 1..Len(contents)
        BY <1>1, <1>3, <4>1
      <4> QED  BY <1>1, <4>2 DEF Big
    <3>3. Capped(contents)
      BY <2>2 DEF Accounted
    <3> QED  BY <3>1, <3>2, <3>3 DEF Capped
  <2>3. Accounted'
    BY <1>1, <1>3, <1>4, <1>10, <2>2 DEF Accounted, KeptOnce, Capped, Big
  <2> QED  BY <2>1, <2>3
<1>11. CASE MaxBytes # NoCap /\ contents' = rear /\ bytesUsed' = used - BytesIn(front)
  <2>1. Has(contents', k)
    <3>1. j - n \in 1..Len(q) - n /\ n + (j - n) = j
      BY <1>2, <1>3, <1>6
    <3>2. j - n \in 1..Len(rear) /\ rear[j - n] = q[j]
      BY <1>9, <3>1
    <3>3. DOMAIN rear = 1..Len(rear)
      BY <1>8, LenProperties
    <3> QED  BY <1>2, <1>11, <3>2, <3>3 DEF Has
  <2>2. AllRight(rear)
    BY <1>1, <1>9 DEF AllRight
  <2>3. KeptOnce(rear)
    <3> SUFFICES ASSUME NEW i \in 1..Len(q) - n, NEW m \in 1..Len(q) - n,
                        rear[i].key = rear[m].key
                 PROVE  i = m
      BY <1>9 DEF KeptOnce
    <3>1. n + i = n + m
      BY <1>1, <1>9 DEF KeptOnce
    <3> QED  BY <1>3, <1>7, <3>1
  <2>4. BytesIn(rear) <= bytesUsed' /\ bytesUsed' \in Int
    <3>1. BytesIn(contents) <= bytesUsed /\ BytesIn(q) <= BytesIn(contents) + Size(v)
      BY <1>1, <1>3, <1>11 DEF Accounted
    <3>2. used \in Int /\ used = bytesUsed + Size(v)
      BY <1>3 DEF used
    <3>3. bytesUsed' = used - BytesIn(front)
      BY <1>11
    <3>4. /\ BytesIn(q) \in Int /\ BytesIn(front) \in Int /\ BytesIn(rear) \in Int
          /\ BytesIn(rear) = BytesIn(q) - BytesIn(front)
      BY <1>3, <1>8
    <3>5. BytesIn(q) <= used
      BY <1>3, <3>1, <3>2
    <3> QED  BY <3>2, <3>3, <3>4, <3>5
  <2>5. Capped(rear)
    <3>1. CASE used - BytesIn(front) <= MaxBytes
      BY <1>3, <1>8, <1>11, <2>4, <3>1 DEF Capped
    <3>2. CASE q[n + 1].key = k /\ Len(q) = Len(contents) + 1 /\ q[Len(q)].key = k
      <4>1. n + 1 = Len(q)
        BY <1>1, <1>3, <1>7, <3>2 DEF KeptOnce
      <4>2. Len(rear) = 1
        BY <1>3, <1>7, <1>9, <4>1
      <4> QED  BY <4>2 DEF Capped
    <3>3. CASE /\ Len(q) = Len(contents) /\ BytesIn(q) = BytesIn(contents)
               /\ \A i \in 1..Len(q) : Size(q[i].value) = Size(contents[i].value)
      <4>1. CASE BytesIn(contents) <= MaxBytes
        BY <1>3, <1>8, <1>11, <3>3, <4>1 DEF Capped
      <4>2. CASE \A i, m \in 1..Len(contents) : Big(contents, i) /\ Big(contents, m) => i = m
        <5> SUFFICES ASSUME NEW i \in 1..Len(q) - n, NEW m \in 1..Len(q) - n,
                            Big(rear, i), Big(rear, m)
                     PROVE  i = m
          BY <1>9 DEF Capped
        <5>1. Big(contents, n + i) /\ Big(contents, n + m)
          BY <1>9, <3>3 DEF Big
        <5>2. n + i = n + m
          BY <1>9, <3>3, <4>2, <5>1
        <5> QED  BY <1>3, <1>7, <5>2
      <4>3. Capped(contents)
        BY <1>11 DEF Accounted
      <4> QED  BY <4>1, <4>2, <4>3 DEF Capped
    <3>4. \/ used - BytesIn(front) <= MaxBytes
          \/ q[n + 1].key = k
      <4>1. n # Len(q)
        BY <1>3, <1>7
      <4> QED  BY <1>6, <4>1 DEF StopsAfter, front
    <3> QED  BY <1>1, <3>1, <3>2, <3>3, <3>4
  <2>6. Accounted'
    BY <1>3, <1>4, <1>8, <1>11, <2>2, <2>3, <2>4, <2>5 DEF Accounted, KeptOnce, Capped, Big
  <2> QED  BY <2>1, <2>6
<1> QED  BY <1>5, <1>10, <1>11

-----------------------------------------------------------------------------
Stages == {"new", "fetching", "answered", "returned", "raised"}

\* What is on its way, or was returned, and what the caches of the collection's
\* server and of the relay hold.
Origin(ret, doc) ==
    ret # NoContent =>
        /\ site.default \in Views /\ doc \in DocIds
        /\ ret = BackendPayload(site.default, doc)

Kept ==
    \A key \in DOMAIN kept :
        key \in Views \X DocIds /\ kept[key] = BackendPayload(key[1], key[2])

RelayKept ==
    \A doc \in DOMAIN relayed : relayed[doc] # NoContent /\ Origin(relayed[doc], doc)

Calls ==
    /\ progress \in [Tasks -> Stages]
    /\ DOMAIN got = Tasks /\ DOMAIN reply = Tasks
    /\ \A t \in Tasks :
        /\ progress[t] \in {"fetching", "answered"} => site.relayed
        /\ progress[t] = "answered" => Origin(reply[t], KeyFor[t][2])
        /\ progress[t] = "returned" => RightFor(KeyFor[t], got[t])

DocInv == Accounted /\ Kept /\ RelayKept /\ Calls

-----------------------------------------------------------------------------
LEMMA PayloadType ==
    ASSUME NEW view \in Views, NEW doc \in DocIds
    PROVE  BackendPayload(view, doc) \in Payloads
BY ContentAssumption DEF BackendPayload, Payloads

LEMMA KeyType == ASSUME NEW t \in Tasks PROVE KeyFor[t] \in Views \X DocIds
BY DocAssumption

\* What a content processor answers is the document in the view asked for, or
\* in the default one when none was.
LEMMA HostAnswersRight ==
    ASSUME Kept, NEW view \in Views \union {NoView}, NEW doc \in DocIds,
           NEW ret \in HostAnswers(view, doc), ret # NoContent
    PROVE  Resolved(view) \in Views /\ ret = BackendPayload(Resolved(view), doc)
<1> DEFINE key == <<Resolved(view), doc>>
<1>1. CASE ret \in Cached(kept, key)
  <2>1. key \in DOMAIN kept /\ ret = kept[key]
    BY <1>1 DEF Cached
  <2>2. key[1] = Resolved(view) /\ key[2] = doc
    OBVIOUS
  <2> HIDE DEF key
  <2> QED  BY <2>1, <2>2 DEF Kept
<1>2. CASE ret = ReadBackend(view, doc)
  BY <1>2 DEF ReadBackend
<1> QED  BY <1>1, <1>2 DEF HostAnswers, _view_id_key

LEMMA HostServesKeeps ==
    ASSUME Kept, NEW view \in Views \union {NoView}, NEW doc \in DocIds,
           NEW ret, HostServes(view, doc, ret)
    PROVE  Kept'
<1> DEFINE key == <<Resolved(view), doc>>
<1>1. ret \in HostAnswers(view, doc) /\ kept' = Keeping(kept, key, ret)
  BY DEF HostServes, _view_id_key
<1>2. CASE ret = NoContent
  BY <1>1, <1>2 DEF Keeping, Kept
<1>3. CASE ret # NoContent
  <2>1. Resolved(view) \in Views /\ ret = BackendPayload(Resolved(view), doc)
    BY <1>1, <1>3, HostAnswersRight
  <2>2. key \in Views \X DocIds /\ ret = BackendPayload(key[1], key[2])
    BY <2>1
  <2> HIDE DEF key
  <2>3. kept' = [k \in {key} \union DOMAIN kept |-> IF k = key THEN ret ELSE kept[k]]
    BY <1>1, <1>3 DEF Keeping
  <2>4. \A a, b : BackendPayload(a, b)' = BackendPayload(a, b)
    BY DEF BackendPayload
  <2> QED  BY <2>2, <2>3, <2>4 DEF Kept
<1> QED  BY <1>2, <1>3

\* What does not touch the collection's site leaves the meaning of these alone.
LEMMA SiteFixes ==
    ASSUME site' = site
    PROVE  /\ \A k, v : RightFor(k, v)' = RightFor(k, v)
           /\ \A ret, doc : Origin(ret, doc)' = Origin(ret, doc)
BY DEF RightFor, ViewFor, Origin, BackendPayload

LEMMA AccountsStay ==
    ASSUME Accounted, site' = site, UNCHANGED <<contents, bytesUsed>>
    PROVE  Accounted'
BY DEF Accounted, AllRight, RightFor, ViewFor, KeptOnce, Capped, Big

LEMMA CachesStay ==
    ASSUME Kept, RelayKept, UNCHANGED contentVars
    PROVE  Kept' /\ RelayKept'
BY DEF Kept, RelayKept, contentVars, Origin, BackendPayload

\* What is found under a key is right for the key.
LEMMA FoundRight ==
    ASSUME NEW q \in Seq(Items), AllRight(q), NEW k, Has(q, k)
    PROVE  RightFor(k, ValueOf(q, k))
<1> DEFINE e == CHOOSE x \in ToSet(q) : x.key = k
<1>1. DOMAIN q = 1..Len(q)
  BY LenProperties
<1>2. PICK i \in DOMAIN q : q[i].key = k
  BY DEF Has
<1>3. e \in ToSet(q) /\ e.key = k
  BY <1>2 DEF ToSet
<1> HIDE DEF e
<1>4. PICK m \in DOMAIN q : e = q[m]
  BY <1>3 DEF ToSet
<1>5. RightFor(q[m].key, q[m].value)
  BY <1>1 DEF AllRight
<1> QED  BY <1>3, <1>4, <1>5 DEF ValueOf, e

\* get_doc_content returns what it has just recorded.
LEMMA RecordRight ==
    ASSUME DocInv, NEW t \in Tasks, NEW ret, ret = NoContent \/ RightFor(KeyFor[t], ret),
           Record(t, ret), site' = site
    PROVE  /\ Accounted'
           /\ progress' \in [Tasks -> Stages] /\ DOMAIN got' = Tasks
           /\ progress'[t] \in {"returned", "raised"}
           /\ \A u \in Tasks : u # t => progress'[u] = progress[u] /\ got'[u] = got[u]
           /\ progress'[t] = "returned" => RightFor(KeyFor[t], got'[t])
<1>1. CASE ret = NoContent
  BY <1>1 DEF Record, DocInv, Accounted, Calls, Stages, AllRight, RightFor, ViewFor, KeptOnce,
              Capped, Big
<1>2. CASE ret # NoContent
  <2> DEFINE k == KeyFor[t]
  <2>1. /\ RecordInsert(k, ret)
        /\ progress' = [progress EXCEPT ![t] = "returned"]
        /\ got' = [got EXCEPT ![t] = IF Has(contents', k)
                                     THEN ValueOf(contents', k) ELSE [error |-> "KeyError"]]
    BY <1>2 DEF Record
  <2>2. k \in Views \X DocIds /\ RightFor(k, ret)
    BY <1>2, KeyType
  <2>3. Accounted' /\ Has(contents', k)
    BY <2>1, <2>2, RecordAccounts DEF DocInv
  <2> HIDE DEF k
  <2>4. contents' \in Seq(Items) /\ AllRight(contents')
    BY <2>3, SiteFixes DEF Accounted, AllRight
  <2>5. RightFor(k, ValueOf(contents', k))
    BY <2>3, <2>4, FoundRight
  <2> QED  BY <2>1, <2>3, <2>5 DEF DocInv, Calls, Stages, k
<1> QED  BY <1>1, <1>2

LEMMA InitDocInv == ASSUME DocInit PROVE DocInv
<1>1. contents = <<>> /\ Len(contents) = 0 /\ contents \in Seq(Items) /\ DOMAIN contents = {}
  BY DEF DocInit
<1>2. BytesIn(contents) = 0
  <2> DEFINE g == [i \in 0..0 |-> 0]
  <2>1. SumsOf(contents, g)
    BY <1>1 DEF SumsOf
  <2>2. g[0] = 0
    OBVIOUS
  <2> QED  BY <1>1, <2>1, <2>2, BytesBySums
<1>3. Accounted
  BY <1>1, <1>2, DocAssumption DEF DocInit, Accounted, AllRight, KeptOnce, Capped
<1>4. Kept /\ RelayKept
  BY DEF DocInit, ContentInit, Kept, RelayKept
<1>5. Calls
  BY DEF DocInit, Calls, Stages
<1> QED  BY <1>3, <1>4, <1>5 DEF DocInv

-----------------------------------------------------------------------------
\* The document in the view a call is to get is right for it.
LEMMA PayloadRight ==
    ASSUME NEW k \in Views \X DocIds, ViewFor(k) \in Views
    PROVE  RightFor(k, BackendPayload(ViewFor(k), k[2]))
<1>1. BackendPayload(ViewFor(k), k[2]) \in Payloads
  BY PayloadType
<1> QED  BY <1>1 DEF RightFor, BackendPayload

\* An answer through the relay is right for the call that waits for it.
LEMMA OriginRight ==
    ASSUME NEW k \in Views \X DocIds, NEW ret, site.relayed, Origin(ret, k[2]), ret # NoContent
    PROVE  RightFor(k, ret)
BY PayloadRight DEF Origin, ViewFor

\* The link hands on what the server answers, or an error.
LEMMA LinkKeeps ==
    ASSUME NEW ret
    PROVE  RelayReply(ret) \in {ret, NoContent}
BY DEF RelayReply, OverLink, RestContent, GrpcContent

LEMMA FindKeeps ==
    ASSUME DocInv, NEW t \in Tasks, Find(t)
    PROVE  DocInv'
<1>1. /\ Has(contents, KeyFor[t]) /\ progress' = [progress EXCEPT ![t] = "returned"]
      /\ got' = [got EXCEPT ![t] = ValueOf(contents, KeyFor[t])]
      /\ UNCHANGED <<contents, bytesUsed, reply, contentVars>> /\ site' = site
  BY DEF Find, contentVars
<1>2. RightFor(KeyFor[t], ValueOf(contents, KeyFor[t]))
  BY <1>1, FoundRight DEF DocInv, Accounted
<1>3. Calls'
  BY <1>1, <1>2, SiteFixes DEF DocInv, Calls, Stages
<1> QED  BY <1>1, <1>3, AccountsStay, CachesStay DEF DocInv

LEMMA FetchLocalKeeps ==
    ASSUME DocInv, NEW t \in Tasks, FetchLocal(t)
    PROVE  DocInv'
<1> DEFINE k == KeyFor[t]
<1>1. PICK ret \in HostAnswers(k[1], k[2]) : HostServes(k[1], k[2], ret) /\ Record(t, ret)
  BY DEF FetchLocal
<1>2. ~site.relayed /\ reply' = reply /\ site' = site /\ relayed' = relayed
  BY <1>1 DEF FetchLocal, HostServes
<1>3. k \in Views \X DocIds /\ k[1] \in Views /\ k[2] \in DocIds
  BY KeyType
<1>4. ret = NoContent \/ RightFor(k, ret)
  <2>1. SUFFICES ASSUME ret # NoContent PROVE RightFor(k, ret)
    OBVIOUS
  <2>2. Resolved(k[1]) = k[1]
    BY <1>3, ContentAssumption DEF Resolved
  <2>3. ret = BackendPayload(k[1], k[2])
    BY <1>1, <1>3, <2>1, <2>2, HostAnswersRight DEF DocInv
  <2>4. ViewFor(k) = k[1]
    BY <1>2 DEF ViewFor
  <2> QED  BY <1>3, <2>3, <2>4, PayloadRight
<1>5. Kept'
  BY <1>1, <1>3, HostServesKeeps DEF DocInv
<1>6. RelayKept'
  BY <1>2, SiteFixes DEF DocInv, RelayKept
<1>7. /\ Accounted'
      /\ progress' \in [Tasks -> Stages] /\ DOMAIN got' = Tasks
      /\ progress'[t] \in {"returned", "raised"}
      /\ \A u \in Tasks : u # t => progress'[u] = progress[u] /\ got'[u] = got[u]
      /\ progress'[t] = "returned" => RightFor(KeyFor[t], got'[t])
  BY <1>1, <1>2, <1>4, RecordRight
<1>8. Calls'
  BY <1>2, <1>7, SiteFixes DEF DocInv, Calls
<1> QED  BY <1>5, <1>6, <1>7, <1>8 DEF DocInv

LEMMA FetchKeeps ==
    ASSUME DocInv, NEW t \in Tasks, Fetch(t)
    PROVE  DocInv'
<1>1. UNCHANGED <<contents, bytesUsed, got, contentVars>> /\ site' = site /\ site.relayed
  BY DEF Fetch, contentVars
<1>2. CASE \E ret \in Cached(relayed, RelayKey(KeyFor[t][1], KeyFor[t][2])) :
              /\ reply' = [reply EXCEPT ![t] = ret]
              /\ progress' = [progress EXCEPT ![t] = "answered"]
  <2>1. PICK ret \in Cached(relayed, KeyFor[t][2]) :
            /\ reply' = [reply EXCEPT ![t] = ret]
            /\ progress' = [progress EXCEPT ![t] = "answered"]
    BY <1>2 DEF RelayKey
  <2>2. Origin(ret, KeyFor[t][2])
    BY <2>1 DEF Cached, DocInv, RelayKept
  <2>3. Calls'
    BY <1>1, <2>1, <2>2, SiteFixes DEF DocInv, Calls, Stages
  <2> QED  BY <1>1, <2>3, AccountsStay, CachesStay DEF DocInv
<1>3. CASE progress' = [progress EXCEPT ![t] = "fetching"] /\ UNCHANGED reply
  <2>1. Calls'
    BY <1>1, <1>3, SiteFixes DEF DocInv, Calls, Stages
  <2> QED  BY <1>1, <2>1, AccountsStay, CachesStay DEF DocInv
<1> QED  BY <1>2, <1>3 DEF Fetch

LEMMA ServeKeeps ==
    ASSUME DocInv, NEW t \in Tasks, Serve(t)
    PROVE  DocInv'
<1>1. PICK ret \in HostAnswers(NoView, KeyFor[t][2]) :
          HostServes(NoView, KeyFor[t][2], ret) /\ reply' = [reply EXCEPT ![t] = RelayReply(ret)]
  BY DEF Serve
<1>2. /\ progress[t] = "fetching" /\ progress' = [progress EXCEPT ![t] = "answered"]
      /\ UNCHANGED <<contents, bytesUsed, got>> /\ site' = site /\ relayed' = relayed
  BY <1>1 DEF Serve, HostServes
<1>3. KeyFor[t][2] \in DocIds
  BY KeyType
<1>4. Origin(RelayReply(ret), KeyFor[t][2])
  <2>1. SUFFICES ASSUME RelayReply(ret) # NoContent
                 PROVE  /\ site.default \in Views
                        /\ RelayReply(ret) = BackendPayload(site.default, KeyFor[t][2])
    BY <1>3 DEF Origin
  <2>2. RelayReply(ret) = ret /\ ret # NoContent
    BY <2>1, LinkKeeps
  <2>3. Resolved(NoView) = site.default
    BY DEF Resolved
  <2> QED  BY <1>1, <1>3, <2>2, <2>3, HostAnswersRight DEF DocInv
<1>5. Kept'
  BY <1>1, <1>3, HostServesKeeps DEF DocInv
<1>6. RelayKept'
  BY <1>2, SiteFixes DEF DocInv, RelayKept
<1>7. Calls'
  BY <1>1, <1>2, <1>4, SiteFixes DEF DocInv, Calls, Stages
<1> QED  BY <1>2, <1>5, <1>6, <1>7, AccountsStay DEF DocInv

LEMMA UnreachableKeeps ==
    ASSUME DocInv, NEW t \in Tasks, Unreachable(t)
    PROVE  DocInv'
<1>1. /\ progress[t] = "fetching" /\ progress' = [progress EXCEPT ![t] = "answered"]
      /\ reply' = [reply EXCEPT ![t] = NoContent]
      /\ UNCHANGED <<contents, bytesUsed, got, contentVars>> /\ site' = site
  BY DEF Unreachable, contentVars
<1>2. Origin(NoContent, KeyFor[t][2])
  BY DEF Origin
<1>3. Calls'
  BY <1>1, <1>2, SiteFixes DEF DocInv, Calls, Stages
<1> QED  BY <1>1, <1>3, AccountsStay, CachesStay DEF DocInv

LEMMA ArriveKeeps ==
    ASSUME DocInv, NEW t \in Tasks, Arrive(t)
    PROVE  DocInv'
<1> DEFINE doc == KeyFor[t][2]
<1>1. /\ progress[t] = "answered" /\ Record(t, reply[t])
      /\ relayed' = Keeping(relayed, doc, reply[t])
      /\ reply' = reply /\ site' = site /\ kept' = kept
  BY DEF Arrive, RelayKey
<1>2. site.relayed /\ Origin(reply[t], doc)
  BY <1>1 DEF DocInv, Calls
<1>3. reply[t] = NoContent \/ RightFor(KeyFor[t], reply[t])
  BY <1>2, KeyType, OriginRight
<1>4. /\ Accounted'
      /\ progress' \in [Tasks -> Stages] /\ DOMAIN got' = Tasks
      /\ progress'[t] \in {"returned", "raised"}
      /\ \A u \in Tasks : u # t => progress'[u] = progress[u] /\ got'[u] = got[u]
      /\ progress'[t] = "returned" => RightFor(KeyFor[t], got'[t])
  BY <1>1, <1>3, RecordRight
<1>5. Calls'
  BY <1>1, <1>4, SiteFixes DEF DocInv, Calls
<1>6. Kept'
  BY <1>1 DEF DocInv, Kept, BackendPayload
<1> HIDE DEF doc
<1>7. RelayKept'
  <2>1. CASE reply[t] = NoContent
    BY <1>1, <2>1, SiteFixes DEF Keeping, DocInv, RelayKept
  <2>2. CASE reply[t] # NoContent
    <3>1. relayed' = [d \in {doc} \union DOMAIN relayed |-> IF d = doc THEN reply[t] ELSE relayed[d]]
      BY <1>1, <2>2 DEF Keeping
    <3> QED  BY <1>1, <1>2, <2>2, <3>1, SiteFixes DEF DocInv, RelayKept
  <2> QED  BY <2>1, <2>2
<1> QED  BY <1>4, <1>5, <1>6, <1>7 DEF DocInv

LEMMA OthersKeep ==
    ASSUME DocInv, Others
    PROVE  DocInv'
<1>1. PICK view \in Views \union {NoView}, doc \in DocIds : Ask(view, doc)
  BY DEF Others
<1>2. PICK ret : HostServes(view, doc, ret)
  BY <1>1 DEF Ask
<1>3. UNCHANGED <<contents, bytesUsed, progress, reply, got>> /\ site' = site /\ relayed' = relayed
  BY <1>2 DEF Others, HostServes
<1>4. Kept'
  BY <1>2, HostServesKeeps DEF DocInv
<1>5. RelayKept' /\ Calls'
  BY <1>3, SiteFixes DEF DocInv, RelayKept, Calls
<1> QED  BY <1>3, <1>4, <1>5, AccountsStay DEF DocInv

LEMMA StepDocInv ==
    ASSUME DocInv, [DocNext]_docVars
    PROVE  DocInv'
<1>1. CASE UNCHANGED docVars
  <2>1. UNCHANGED <<contents, bytesUsed, progress, reply, got, contentVars>> /\ site' = site
    BY <1>1 DEF docVars, contentVars
  <2>2. Calls'
    BY <2>1, SiteFixes DEF DocInv, Calls
  <2> QED  BY <2>1, <2>2, AccountsStay, CachesStay DEF DocInv
<1>2. CASE DocNext
  BY <1>1, <1>2, FindKeeps, FetchLocalKeeps, FetchKeeps, ServeKeeps, UnreachableKeeps, ArriveKeeps,
     OthersKeep DEF DocNext, Finished
<1> QED  BY <1>1, <1>2

-----------------------------------------------------------------------------
\* Through every interleaving of the gathered get_doc_content calls of a run
\* with the other clients of the collection's server, the cache of the run, the
\* caches of the content processor and of the relay, and what is under way
\* between them all hold the documents their keys name, and the byte counter of
\* _record_cache_insert covers what is stored.
THEOREM DocInvariance == DocSpec => []DocInv
<1>1. DocInit => DocInv
  BY InitDocInv
<1>2. DocInv /\ [DocNext]_docVars => DocInv'
  BY StepDocInv
<1> QED  BY <1>1, <1>2, PTL DEF DocSpec

\* A get_doc_content that returns gives its own document in the view it is to
\* get, whatever is evicted between the insertion and the reading back, for
\* every cap, every collection and every set of calls.
THEOREM ContentsAreOwn == DocSpec => []EachGetsItsContent
<1>1. DocInv => EachGetsItsContent
  BY DEF DocInv, Calls, EachGetsItsContent, RightFor, ViewFor, Payloads
<1> QED  BY <1>1, DocInvariance, PTL

\* The doc_content_cache of a run never holds more than its cap but for one
\* oversize content, and holds no key twice, for every cap and all sizes.
THEOREM CapIsKept == DocSpec => []CapHolds
<1>1. DocInv => CapHolds
  <2>1. SUFFICES ASSUME DocInv PROVE CapHolds
    OBVIOUS
  <2>2. /\ Len(contents) \in Nat /\ DOMAIN contents = 1..Len(contents) /\ KeptOnce(contents)
        /\ MaxBytes # NoCap => BytesIn(contents) <= bytesUsed /\ Capped(contents)
    BY <2>1, LenProperties DEF DocInv, Accounted
  <2> DEFINE B == {i \in DOMAIN contents : Size(contents[i].value) > 0}
  <2>3. ASSUME MaxBytes # NoCap, ~(BytesIn(contents) <= MaxBytes)
        PROVE  Cardinality(B) <= 1
    <3>1. \A i, j \in B : i = j
      BY <2>2, <2>3 DEF Capped, Big
    <3>2. CASE B = {}
      BY <3>2, FS_EmptySet
    <3>3. CASE B # {}
      <4>1. PICK i : B = {i}
        BY <3>1, <3>3
      <4> QED  BY <4>1, FS_Singleton
    <3> QED  BY <3>2, <3>3
  <2> QED  BY <2>2, <2>3 DEF CapHolds, KeptOnce
<1> QED  BY <1>1, DocInvariance, PTL

=============================================================================
