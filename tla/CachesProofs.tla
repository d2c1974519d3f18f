---------------------------- MODULE CachesProofs ----------------------------
(***************************************************************************)
(* The two cache backends of cache.py and the pipeline cache over them.    *)
(*                                                                         *)
(* LRUCache for every set of keys and values, every capacity and every     *)
(* time to live: the inductive invariant says what the order means         *)
(* (Ordered: a key further to the back has been used since) and that a     *)
(* stored entry is the latest put (Faithful); recency and the refinement   *)
(* of LossyCache follow from these two.  Then RedisCache and the pipeline  *)
(* cache over it, for any keys, values, calls and times to live; both      *)
(* caches of the process at once; and Processor.submit, which uses one.    *)
(***************************************************************************)
EXTENDS Caches, CachedProcessor, FiniteSetTheorems, SequenceTheorems, TLAPS

\* A key behind another one has been used since that one was.
Ordered ==
    \A i, j \in 1..Len(order) : i < j => order[j] \in since[order[i]]

\* An entry in the cache is the latest put of its key, with its time.
Faithful ==
    \A k \in Keys : InCache(k) => cache[k] = newest[k] /\ timestamps[k] = putAt[k]

FiniteSince == \A k \in Keys : IsFiniteSet(since[k])

IInv ==
    /\ LRUTypeOK /\ DictsAgree
    /\ CapacityRespected
    /\ Ordered /\ Faithful /\ FiniteSince
    /\ DisplacedByCapacityOthers

-----------------------------------------------------------------------------
\* Without(k) is the order with the place of k skipped.
Skip(k, i) == IF i < Place(k) THEN i ELSE i + 1

LEMMA PlaceOf ==
    ASSUME LRUTypeOK, DictsAgree, NEW k \in Keys, InCache(k)
    PROVE  Place(k) \in 1..Len(order) /\ order[Place(k)] = k
<1>1. PICK i \in DOMAIN order : order[i] = k
  BY DEF DictsAgree
<1>2. Place(k) \in DOMAIN order /\ order[Place(k)] = k
  BY <1>1 DEF Place
<1>3. DOMAIN order = 1..Len(order)
  BY DEF LRUTypeOK
<1> QED  BY <1>2, <1>3

SkipsOver(q, k) ==
    /\ q \in Seq(Keys)
    /\ Len(order) \in Nat \ {0}
    /\ Len(q) = Len(order) - 1
    /\ \A i \in 1..Len(q) : /\ Skip(k, i) \in 1..Len(order)
                            /\ q[i] = order[Skip(k, i)]
                            /\ q[i] \in Keys /\ q[i] # k
    /\ \A j \in 1..Len(order) : order[j] # k => \E i \in 1..Len(q) : Skip(k, i) = j
    /\ \A i, j \in 1..Len(q) : i < j => Skip(k, i) < Skip(k, j)

LEMMA WithoutFacts ==
    ASSUME LRUTypeOK, DictsAgree, NEW k \in Keys, InCache(k)
    PROVE  SkipsOver(Without(k), k)
<1> DEFINE n == Len(order)
           p == Place(k)
           W == Without(k)
<1>1. p \in 1..n /\ order[p] = k
  BY PlaceOf
<1>2. n \in Nat /\ order \in [1..n -> Keys]
  BY LenProperties DEF LRUTypeOK
<1>3. n \in Nat \ {0} /\ n - 1 \in Nat
  BY <1>1, <1>2
<1>4. \A i \in 1..(n - 1) : Skip(k, i) \in 1..n /\ Skip(k, i) # p
  BY <1>1, <1>2 DEF Skip
<1>5. W = [i \in 1..(n - 1) |-> order[Skip(k, i)]]
  BY DEF Without, Skip
<1>6. W \in [1..(n - 1) -> Keys]
  BY <1>2, <1>4, <1>5
<1>7. W \in Seq(Keys) /\ Len(W) = n - 1
  BY <1>3, <1>6, SeqDef, LenProperties
<1>8. \A i \in 1..(n - 1) : order[Skip(k, i)] # k
  BY <1>1, <1>2, <1>4 DEF DictsAgree
<1>9. \A j \in 1..n : order[j] # k => \E i \in 1..(n - 1) : Skip(k, i) = j
  <2> SUFFICES ASSUME NEW j \in 1..n, order[j] # k
               PROVE  \E i \in 1..(n - 1) : Skip(k, i) = j
    OBVIOUS
  <2>1. j # p
    BY <1>1
  <2>2. CASE j < p
    <3>1. j \in 1..(n - 1) /\ Skip(k, j) = j
      BY <1>1, <1>2, <2>2 DEF Skip
    <3> QED  BY <3>1
  <2>3. CASE j > p
    <3>1. j - 1 \in 1..(n - 1) /\ Skip(k, j - 1) = j
      BY <1>1, <1>2, <2>3 DEF Skip
    <3> QED  BY <3>1
  <2> QED  BY <1>1, <1>2, <2>1, <2>2, <2>3
<1>10. \A i, j \in 1..(n - 1) : i < j => Skip(k, i) < Skip(k, j)
  BY <1>1, <1>2 DEF Skip
<1> QED  BY <1>3, <1>4, <1>5, <1>6, <1>7, <1>8, <1>9, <1>10 DEF SkipsOver

LEMMA InitIInv == LRUInit => IInv
<1> SUFFICES ASSUME LRUInit PROVE IInv
  OBVIOUS
<1>1. Len(order) = 0 /\ DOMAIN order = {} /\ order \in Seq(Keys)
  BY DEF LRUInit
<1>2. LRUTypeOK /\ DictsAgree
  BY <1>1, LRUAssumption DEF LRUInit, LRUTypeOK, DictsAgree, InCache
<1>3. CapacityRespected /\ Ordered /\ Faithful
  BY <1>1, LRUAssumption DEF LRUInit, CapacityRespected, Ordered, Faithful, InCache
<1>4. FiniteSince
  BY FS_EmptySet DEF LRUInit, FiniteSince
<1>5. DisplacedByCapacityOthers
  BY DEF LRUInit, DisplacedByCapacityOthers
<1> QED  BY <1>2, <1>3, <1>4, <1>5 DEF IInv

\* Taking a key out (an expired hit, or remove) leaves the others in their order.
LEMMA DeleteIInv ==
    ASSUME IInv, NEW k \in Keys, InCache(k), Delete(k),
           reply' = NoValue, newest' = [newest EXCEPT ![k] = NoValue],
           UNCHANGED <<now, putAt, since>>
    PROVE  IInv'
<1> DEFINE n == Len(order)
<1>0. LRUTypeOK /\ DictsAgree
  BY DEF IInv
<1>1. /\ order' \in Seq(Keys) /\ n \in Nat \ {0} /\ Len(order') = n - 1
      /\ \A i \in 1..(n - 1) : /\ Skip(k, i) \in 1..n
                               /\ order'[i] = order[Skip(k, i)]
                               /\ order'[i] \in Keys /\ order'[i] # k
      /\ \A j \in 1..n : order[j] # k => \E i \in 1..(n - 1) : Skip(k, i) = j
      /\ \A i, j \in 1..(n - 1) : i < j => Skip(k, i) < Skip(k, j)
  <2>1. SkipsOver(order', k)
    BY <1>0, WithoutFacts DEF Delete
  <2> QED  BY <2>1 DEF SkipsOver
<1>2. DOMAIN order' = 1..(n - 1) /\ DOMAIN order = 1..n
  BY <1>0, <1>1, LenProperties DEF LRUTypeOK
<1>3. LRUTypeOK'
  BY <1>0, <1>1 DEF LRUTypeOK, Delete
<1>4. DictsAgree'
  <2>1. \A i, j \in 1..(n - 1) : order'[i] = order'[j] => i = j
    <3> SUFFICES ASSUME NEW i \in 1..(n - 1), NEW j \in 1..(n - 1), i < j
                 PROVE  order'[i] # order'[j]
      BY <1>1
    <3>1. Skip(k, i) \in 1..n /\ Skip(k, j) \in 1..n /\ Skip(k, i) # Skip(k, j)
      BY <1>1
    <3> QED  BY <1>0, <1>1, <1>2, <3>1 DEF DictsAgree
  <2>2. ASSUME NEW j \in Keys
        PROVE  InCache(j)' <=> \E i \in 1..(n - 1) : order'[i] = j
    <3>1. CASE j = k
      BY <1>0, <1>1, <3>1 DEF InCache, Delete, LRUTypeOK
    <3>2. CASE j # k
      <4>1. InCache(j)' <=> InCache(j)
        BY <1>0, <3>2 DEF InCache, Delete, LRUTypeOK
      <4>2. InCache(j) <=> \E i \in 1..n : order[i] = j
        BY <1>0, <1>2 DEF DictsAgree
      <4>3. (\E i \in 1..n : order[i] = j) <=> \E i \in 1..(n - 1) : order'[i] = j
        BY <1>1, <3>2
      <4> QED  BY <4>1, <4>2, <4>3
    <3> QED  BY <3>1, <3>2
  <2>3. \A j \in Keys : InCache(j)' <=> timestamps'[j] # NoStamp
    BY <1>0 DEF DictsAgree, InCache, Delete, LRUTypeOK
  <2> QED  BY <1>2, <2>1, <2>2, <2>3 DEF DictsAgree
<1>5. CapacityRespected'
  BY <1>1, LRUAssumption DEF IInv, CapacityRespected
<1>6. Ordered'
  <2> SUFFICES ASSUME NEW i \in 1..(n - 1), NEW j \in 1..(n - 1), i < j
               PROVE  order'[j] \in since'[order'[i]]
    BY <1>1 DEF Ordered
  <2>1. Skip(k, i) \in 1..n /\ Skip(k, j) \in 1..n /\ Skip(k, i) < Skip(k, j)
    BY <1>1
  <2> QED  BY <1>1, <2>1 DEF IInv, Ordered
<1>7. Faithful'
  BY <1>0 DEF IInv, Faithful, InCache, Delete, LRUTypeOK
<1>8. FiniteSince'
  BY DEF IInv, FiniteSince
<1>9. DisplacedByCapacityOthers'
  BY <1>0 DEF IInv, DisplacedByCapacityOthers, InCache, Delete, LRUTypeOK
<1> QED  BY <1>3, <1>4, <1>5, <1>6, <1>7, <1>8, <1>9 DEF IInv

\* A use of k resets what was used since k, and adds k for every other key.
LEMMA UseGrows ==
    ASSUME LRUTypeOK, FiniteSince, NEW k \in Keys, Use(k)
    PROVE  /\ FiniteSince'
           /\ since' \in [Keys -> SUBSET Keys]
           /\ \A j \in Keys : j # k =>
                /\ since'[j] = since[j] \union {k}
                /\ Cardinality(since[j]) \in Nat /\ Cardinality(since'[j]) \in Nat
                /\ Cardinality(since[j]) <= Cardinality(since'[j])
<1>1. since' = [j \in Keys |-> IF j = k THEN {} ELSE since[j] \union {k}]
  BY DEF Use
<1>2. ASSUME NEW j \in Keys, j # k
      PROVE  /\ since'[j] = since[j] \union {k}
             /\ IsFiniteSet(since'[j])
             /\ Cardinality(since[j]) \in Nat /\ Cardinality(since'[j]) \in Nat
             /\ Cardinality(since[j]) <= Cardinality(since'[j])
  <2>1. since'[j] = since[j] \union {k} /\ IsFiniteSet(since[j])
    BY <1>1, <1>2 DEF FiniteSince
  <2>2. IsFiniteSet(since'[j])
    BY <2>1, FS_AddElement
  <2>3. Cardinality(since[j]) \in Nat /\ Cardinality(since'[j]) \in Nat
    BY <2>1, <2>2, FS_CardinalityType
  <2>4. Cardinality(since'[j]) =
            IF k \in since[j] THEN Cardinality(since[j]) ELSE Cardinality(since[j]) + 1
    BY <2>1, FS_AddElement
  <2> QED  BY <2>1, <2>2, <2>3, <2>4
<1>3. IsFiniteSet(since'[k])
  BY <1>1, FS_EmptySet
<1>4. FiniteSince'
  BY <1>2, <1>3 DEF FiniteSince
<1>5. since' \in [Keys -> SUBSET Keys]
  BY <1>1 DEF LRUTypeOK
<1> QED  BY <1>2, <1>4, <1>5

\* What move_to_end does to the order.
Moved ==
    /\ order' \in Seq(Keys)
    /\ Len(order') = Len(order)
    /\ \A i, j \in DOMAIN order' : order'[i] = order'[j] => i = j
    /\ \A j \in Keys : (\E i \in DOMAIN order : order[i] = j) <=>
                         (\E i \in DOMAIN order' : order'[i] = j)
    /\ Ordered'

LEMMA MoveToEndFacts ==
    ASSUME IInv, NEW k \in Keys, InCache(k), Use(k), order' = Append(Without(k), k)
    PROVE  Moved
<1> DEFINE n == Len(order)
           W == Without(k)
<1>1. SkipsOver(W, k) /\ LRUTypeOK /\ DictsAgree /\ FiniteSince /\ Ordered
  BY WithoutFacts DEF IInv
<1>2. /\ n \in Nat \ {0} /\ Len(W) = n - 1 /\ W \in Seq(Keys)
      /\ \A i \in 1..(n - 1) : /\ Skip(k, i) \in 1..n
                               /\ W[i] = order[Skip(k, i)]
                               /\ W[i] \in Keys /\ W[i] # k
      /\ \A j \in 1..n : order[j] # k => \E i \in 1..(n - 1) : Skip(k, i) = j
      /\ \A i, j \in 1..(n - 1) : i < j => Skip(k, i) < Skip(k, j)
  BY <1>1 DEF SkipsOver
<1>3. /\ order' \in Seq(Keys) /\ Len(order') = n
      /\ \A i \in 1..(n - 1) : order'[i] = W[i]
      /\ order'[n] = k
  BY <1>2, AppendProperties
<1>4. DOMAIN order' = 1..n /\ DOMAIN order = 1..n
  BY <1>1, <1>2, <1>3, LenProperties DEF LRUTypeOK
<1>5. Place(k) \in 1..n /\ order[Place(k)] = k
  BY <1>1, PlaceOf
<1>6. \A i, j \in 1..n : i < j => order'[i] # order'[j]
  <2> SUFFICES ASSUME NEW i \in 1..n, NEW j \in 1..n, i < j
               PROVE  order'[i] # order'[j]
    OBVIOUS
  <2>1. i \in 1..(n - 1) /\ order'[i] = W[i]
    BY <1>2, <1>3
  <2>2. CASE j = n
    BY <1>2, <1>3, <2>1, <2>2
  <2>3. CASE j # n
    <3>1. j \in 1..(n - 1) /\ order'[j] = W[j]
      BY <1>2, <1>3, <2>3
    <3>2. Skip(k, i) \in 1..n /\ Skip(k, j) \in 1..n /\ Skip(k, i) # Skip(k, j)
      BY <1>2, <2>1, <3>1
    <3>3. order[Skip(k, i)] # order[Skip(k, j)]
      BY <1>1, <1>4, <3>2 DEF DictsAgree
    <3> QED  BY <1>2, <2>1, <3>1, <3>3
  <2> QED  BY <2>2, <2>3
<1>7. \A i, j \in DOMAIN order' : order'[i] = order'[j] => i = j
  <2> SUFFICES ASSUME NEW i \in 1..n, NEW j \in 1..n, i # j
               PROVE  order'[i] # order'[j]
    BY <1>4
  <2>1. i < j \/ j < i
    BY <1>2
  <2> QED  BY <1>6, <2>1
<1>8. ASSUME NEW j \in Keys
      PROVE  (\E i \in 1..n : order[i] = j) <=> (\E i \in 1..n : order'[i] = j)
  <2>1. CASE j = k
    <3>1. n \in 1..n
      BY <1>2
    <3> QED  BY <1>3, <1>5, <2>1, <3>1
  <2>2. CASE j # k
    <3>1. ASSUME NEW i \in 1..n, order[i] = j
          PROVE  \E l \in 1..n : order'[l] = j
      <4>1. PICK l \in 1..(n - 1) : Skip(k, l) = i
        BY <1>2, <2>2, <3>1
      <4>2. l \in 1..n /\ order'[l] = j
        BY <1>2, <1>3, <3>1, <4>1
      <4> QED  BY <4>2
    <3>2. ASSUME NEW i \in 1..n, order'[i] = j
          PROVE  \E l \in 1..n : order[l] = j
      <4>1. i \in 1..(n - 1)
        BY <1>2, <1>3, <2>2, <3>2
      <4>2. Skip(k, i) \in 1..n /\ order[Skip(k, i)] = j
        BY <1>2, <1>3, <3>2, <4>1
      <4> QED  BY <4>2
    <3> QED  BY <3>1, <3>2
  <2> QED  BY <2>1, <2>2
<1>9. ASSUME NEW i \in 1..n, NEW j \in 1..n, i < j
      PROVE  order'[j] \in since'[order'[i]]
  <2>1. i \in 1..(n - 1) /\ order'[i] = order[Skip(k, i)] /\ order'[i] \in Keys /\ order'[i] # k
    BY <1>2, <1>3, <1>9
  <2>2. since'[order'[i]] = since[order'[i]] \union {k}
    BY <1>1, <2>1, UseGrows
  <2>3. CASE j = n
    BY <1>3, <2>2, <2>3
  <2>4. CASE j # n
    <3>1. j \in 1..(n - 1) /\ order'[j] = order[Skip(k, j)]
      BY <1>2, <1>3, <2>4
    <3>2. Skip(k, i) \in 1..n /\ Skip(k, j) \in 1..n /\ Skip(k, i) < Skip(k, j)
      BY <1>2, <1>9, <2>1, <3>1
    <3>3. order[Skip(k, j)] \in since[order[Skip(k, i)]]
      BY <1>1, <3>2 DEF Ordered
    <3> QED  BY <2>1, <2>2, <3>1, <3>3
  <2> QED  BY <2>3, <2>4
<1>10. Ordered'
  BY <1>3, <1>9 DEF Ordered
<1> QED  BY <1>3, <1>4, <1>7, <1>8, <1>10 DEF Moved

LEMMA GetHitIInv == ASSUME IInv, NEW k \in Keys, GetHit(k) PROVE IInv'
<1>1. /\ LRUTypeOK /\ DictsAgree /\ FiniteSince
      /\ Moved /\ InCache(k) /\ Use(k)
      /\ UNCHANGED <<cache, timestamps, now, newest, putAt>>
      /\ reply' = cache[k]
  BY MoveToEndFacts DEF IInv, GetHit, MoveToEnd
<1>2. /\ FiniteSince' /\ since' \in [Keys -> SUBSET Keys]
      /\ \A j \in Keys : j # k =>
            /\ Cardinality(since[j]) \in Nat /\ Cardinality(since'[j]) \in Nat
            /\ Cardinality(since[j]) <= Cardinality(since'[j])
  BY <1>1, UseGrows
<1>3. LRUTypeOK'
  BY <1>1, <1>2 DEF LRUTypeOK, Moved
<1>4. DictsAgree'
  BY <1>1 DEF DictsAgree, Moved, InCache
<1>5. CapacityRespected' /\ Ordered'
  BY <1>1 DEF IInv, CapacityRespected, Moved
<1>6. Faithful'
  BY <1>1 DEF IInv, Faithful, InCache
<1>7. DisplacedByCapacityOthers'
  <2> SUFFICES ASSUME NEW j \in Keys, newest'[j] # NoValue, ~InCache(j)'
               PROVE  Capacity > 0 /\ Cardinality(since'[j]) >= Capacity
    BY DEF DisplacedByCapacityOthers
  <2>1. j # k /\ newest[j] # NoValue /\ ~InCache(j)
    BY <1>1 DEF InCache
  <2>2. Capacity > 0 /\ Cardinality(since[j]) >= Capacity
    BY <2>1 DEF IInv, DisplacedByCapacityOthers
  <2> QED  BY <1>2, <2>1, <2>2, LRUAssumption
<1> QED  BY <1>2, <1>3, <1>4, <1>5, <1>6, <1>7 DEF IInv

LEMMA PutUpdateIInv ==
    ASSUME IInv, NEW k \in Keys, NEW v \in Stored, Put(k, v), PutUpdate(k, v)
    PROVE  IInv'
<1>1. /\ LRUTypeOK /\ DictsAgree /\ FiniteSince
      /\ Moved /\ InCache(k) /\ Use(k)
      /\ cache' = [cache EXCEPT ![k] = v] /\ timestamps' = [timestamps EXCEPT ![k] = now]
      /\ newest' = [newest EXCEPT ![k] = v] /\ putAt' = [putAt EXCEPT ![k] = now]
      /\ reply' = NoValue /\ now' = now
  BY MoveToEndFacts DEF IInv, Put, PutUpdate
<1>2. /\ FiniteSince' /\ since' \in [Keys -> SUBSET Keys]
      /\ \A j \in Keys : j # k =>
            /\ Cardinality(since[j]) \in Nat /\ Cardinality(since'[j]) \in Nat
            /\ Cardinality(since[j]) <= Cardinality(since'[j])
  BY <1>1, UseGrows
<1>3. \A j \in Keys : /\ InCache(j)' <=> InCache(j)
                      /\ timestamps'[j] # NoStamp <=> timestamps[j] # NoStamp
  BY <1>1, LRUAssumption DEF LRUTypeOK, InCache, DictsAgree
<1>4. LRUTypeOK'
  BY <1>1, <1>2 DEF LRUTypeOK, Moved
<1>5. DictsAgree'
  BY <1>1, <1>3 DEF DictsAgree, Moved
<1>6. CapacityRespected' /\ Ordered'
  BY <1>1 DEF IInv, CapacityRespected, Moved
<1>7. Faithful'
  BY <1>1 DEF IInv, Faithful, InCache, LRUTypeOK
<1>8. DisplacedByCapacityOthers'
  <2> SUFFICES ASSUME NEW j \in Keys, newest'[j] # NoValue, ~InCache(j)'
               PROVE  Capacity > 0 /\ Cardinality(since'[j]) >= Capacity
    BY DEF DisplacedByCapacityOthers
  <2>1. j # k /\ newest[j] # NoValue /\ ~InCache(j)
    BY <1>1, <1>3 DEF LRUTypeOK
  <2>2. Capacity > 0 /\ Cardinality(since[j]) >= Capacity
    BY <2>1 DEF IInv, DisplacedByCapacityOthers
  <2> QED  BY <1>2, <2>1, <2>2, LRUAssumption
<1> QED  BY <1>2, <1>4, <1>5, <1>6, <1>7, <1>8 DEF IInv

\* A put of a new key: the key goes to the back, and over capacity the head goes.
LEMMA PutNewOrder ==
    ASSUME IInv, NEW k \in Keys, NEW v \in Stored, Put(k, v), PutNew(k, v)
    PROVE  /\ order' \in Seq(Keys)
           /\ Len(order') \in Nat \ {0}
           /\ Capacity > 0 => Len(order') <= Capacity
           /\ OverCapacity => Capacity > 0 /\ Len(order) = Capacity /\ Len(order') = Capacity
           /\ order'[Len(order')] = k
           /\ \A i \in 1..(Len(order') - 1) :
                LET f == IF OverCapacity THEN i + 1 ELSE i
                IN  f \in 1..Len(order) /\ order'[i] = order[f] /\ order'[i] # k
           /\ OverCapacity => Len(order) = Len(order') /\ order # <<>> /\ order[1] = Head(order)
           /\ ~OverCapacity => Len(order) + 1 = Len(order')
<1> DEFINE n == Len(order)
<1>1. LRUTypeOK /\ DictsAgree /\ CapacityRespected
  BY DEF IInv
<1>2. n \in Nat /\ order \in Seq(Keys) /\ DOMAIN order = 1..n
  BY <1>1, LenProperties DEF LRUTypeOK
<1>3. \A i \in 1..n : order[i] # k
  BY <1>1, <1>2 DEF DictsAgree, PutNew
<1>4. CASE OverCapacity
  <2>1. Capacity > 0 /\ n = Capacity /\ Capacity \in Nat
    <3>1. Capacity > 0 /\ n + 1 > Capacity
      BY <1>4 DEF OverCapacity
    <3>2. n <= Capacity
      BY <1>1, <3>1 DEF CapacityRespected
    <3>3. n \in Nat /\ Capacity \in Nat
      BY <1>2, LRUAssumption
    <3> HIDE DEF n
    <3> QED  BY <3>1, <3>2, <3>3
  <2>2. order # <<>> /\ order[1] = Head(order)
    BY <1>2, <2>1
  <2>3. /\ Tail(order) \in Seq(Keys) /\ Len(Tail(order)) = n - 1
        /\ \A i \in 1..(n - 1) : Tail(order)[i] = order[i + 1]
    BY <1>2, <2>2, HeadTailProperties
  <2>4. order' = Append(Tail(order), k)
    BY <1>4 DEF PutNew
  <2>5. order' \in Seq(Keys) /\ Len(order') = n /\ order'[n] = k
        /\ \A i \in 1..(n - 1) : order'[i] = order[i + 1]
    BY <1>2, <2>1, <2>3, <2>4, AppendProperties
  <2> QED  BY <1>2, <1>3, <1>4, <2>1, <2>2, <2>5
<1>5. CASE ~OverCapacity
  <2>1. order' = Append(order, k)
    BY <1>5 DEF PutNew
  <2>2. order' \in Seq(Keys) /\ Len(order') = n + 1 /\ order'[n + 1] = k
        /\ \A i \in 1..n : order'[i] = order[i]
    BY <1>2, <2>1, AppendProperties
  <2>3. Capacity > 0 => n + 1 <= Capacity
    BY <1>2, <1>5, LRUAssumption DEF OverCapacity
  <2>4. \A i \in 1..(Len(order') - 1) :
            i \in 1..n /\ order'[i] = order[i] /\ order'[i] # k
    BY <1>2, <1>3, <2>2
  <2>5. Len(order') \in Nat \ {0} /\ order'[Len(order')] = k
    BY <1>2, <2>2
  <2> QED  BY <1>5, <2>2, <2>3, <2>4, <2>5
<1> QED  BY <1>4, <1>5

\* An injective sequence of length n over a finite set: the set has n elements.
LEMMA ManyElements ==
    ASSUME NEW q, NEW n \in Nat, NEW S, IsFiniteSet(S),
           \A i \in 1..n : q[i] \in S,
           \A i, j \in 1..n : q[i] = q[j] => i = j
    PROVE  Cardinality(S) >= n
<1> DEFINE f == [i \in 1..n |-> q[i]]
<1>1. f \in Injection(1..n, S)
  BY DEF Injection, IsInjective
<1>2. IsFiniteSet(1..n) /\ Cardinality(1..n) = n
  BY FS_Interval
<1>3. Cardinality(1..n) <= Cardinality(S)
  BY <1>1, FS_Injection
<1>4. Cardinality(S) \in Nat
  BY FS_CardinalityType
<1> QED  BY <1>2, <1>3, <1>4

LEMMA PutNewIInv ==
    ASSUME IInv, NEW k \in Keys, NEW v \in Stored, Put(k, v), PutNew(k, v)
    PROVE  IInv'
<1> DEFINE n == Len(order)
           m == Len(order')
           From(i) == IF OverCapacity THEN i + 1 ELSE i
<1>1. /\ LRUTypeOK /\ DictsAgree /\ FiniteSince /\ Ordered /\ Faithful
      /\ DisplacedByCapacityOthers
      /\ ~InCache(k) /\ Use(k)
      /\ newest' = [newest EXCEPT ![k] = v] /\ putAt' = [putAt EXCEPT ![k] = now]
      /\ reply' = NoValue /\ now' = now
  BY DEF IInv, Put, PutNew
<1>2. /\ order' \in Seq(Keys) /\ m \in Nat \ {0} /\ order'[m] = k
      /\ Capacity > 0 => m <= Capacity
      /\ \A i \in 1..(m - 1) :
            From(i) \in 1..n /\ order'[i] = order[From(i)] /\ order'[i] # k
      /\ OverCapacity => Capacity > 0 /\ n = Capacity /\ m = Capacity
      /\ OverCapacity => order # <<>> /\ order[1] = Head(order)
      /\ ~OverCapacity => n + 1 = m
  BY PutNewOrder
<1>3. DOMAIN order' = 1..m /\ DOMAIN order = 1..n /\ n \in Nat /\ order \in Seq(Keys)
  BY <1>1, <1>2, LenProperties DEF LRUTypeOK
<1>4. /\ FiniteSince' /\ since' \in [Keys -> SUBSET Keys]
      /\ \A j \in Keys : j # k =>
            /\ since'[j] = since[j] \union {k}
            /\ Cardinality(since[j]) \in Nat /\ Cardinality(since'[j]) \in Nat
            /\ Cardinality(since[j]) <= Cardinality(since'[j])
  BY <1>1, UseGrows
<1>5. OverCapacity => Head(order) \in Keys /\ Head(order) # k /\ InCache(Head(order))
  <2> SUFFICES ASSUME OverCapacity
               PROVE  Head(order) \in Keys /\ Head(order) # k /\ InCache(Head(order))
    OBVIOUS
  <2>1. 1 \in 1..n /\ order[1] = Head(order) /\ order[1] \in Keys
    BY <1>2, <1>3
  <2> QED  BY <1>1, <1>3, <2>1 DEF DictsAgree
<1>6. \A j \in Keys :
        /\ j = k => /\ cache'[j] = v /\ timestamps'[j] = now
                    /\ newest'[j] = v /\ putAt'[j] = now
        /\ j \in Evicted => cache'[j] = NoValue /\ timestamps'[j] = NoStamp
        /\ j # k /\ j \notin Evicted => cache'[j] = cache[j] /\ timestamps'[j] = timestamps[j]
        /\ j # k => newest'[j] = newest[j] /\ putAt'[j] = putAt[j]
  BY <1>1, <1>5 DEF PutNew, Evicted, LRUTypeOK
<1>7. \A j \in Keys : InCache(j)' <=> j = k \/ (InCache(j) /\ j \notin Evicted)
  BY <1>1, <1>5, <1>6, LRUAssumption DEF InCache, Evicted
<1>8. LRUTypeOK'
  <2>1. cache' \in [Keys -> Stored \union {NoValue}]
    BY <1>1 DEF PutNew, LRUTypeOK
  <2>2. timestamps' \in [Keys -> Nat \union {NoStamp}]
    BY <1>1 DEF PutNew, LRUTypeOK
  <2> QED  BY <1>1, <1>2, <1>4, <2>1, <2>2 DEF LRUTypeOK
<1>9. \A i, j \in 1..m : i < j => order'[i] # order'[j]
  <2> SUFFICES ASSUME NEW i \in 1..m, NEW j \in 1..m, i < j
               PROVE  order'[i] # order'[j]
    OBVIOUS
  <2>1. i \in 1..(m - 1)
    BY <1>2
  <2>2. CASE j = m
    BY <1>2, <2>1, <2>2
  <2>3. CASE j # m
    <3>1. j \in 1..(m - 1)
      BY <1>2, <2>3
    <3>2. From(i) \in 1..n /\ From(j) \in 1..n /\ From(i) # From(j)
      BY <1>2, <2>1, <3>1
    <3>3. order[From(i)] # order[From(j)]
      BY <1>1, <1>3, <3>2 DEF DictsAgree
    <3> QED  BY <1>2, <2>1, <3>1, <3>3
  <2> QED  BY <2>2, <2>3
<1>10. \A i, j \in 1..m : order'[i] = order'[j] => i = j
  <2> SUFFICES ASSUME NEW i \in 1..m, NEW j \in 1..m, i # j
               PROVE  order'[i] # order'[j]
    OBVIOUS
  <2>1. i < j \/ j < i
    BY <1>2
  <2> QED  BY <1>9, <2>1
<1>11. ASSUME NEW j \in Keys
       PROVE  InCache(j)' <=> \E i \in 1..m : order'[i] = j
  <2>1. CASE j = k
    <3>1. m \in 1..m
      BY <1>2
    <3> QED  BY <1>2, <1>7, <2>1, <3>1
  <2>2. CASE j # k
    <3>1. ASSUME InCache(j), j \notin Evicted
          PROVE  \E i \in 1..m : order'[i] = j
      <4>1. PICK l \in 1..n : order[l] = j
        BY <1>1, <1>3, <3>1 DEF DictsAgree
      <4>2. OverCapacity => l # 1
        BY <1>2, <3>1, <4>1 DEF Evicted
      <4>3. PICK i \in 1..(m - 1) : From(i) = l
        <5>1. CASE OverCapacity
          <6>1. l - 1 \in 1..(m - 1) /\ From(l - 1) = l
            BY <1>2, <1>3, <4>2, <5>1
          <6> QED  BY <6>1
        <5>2. CASE ~OverCapacity
          <6>1. l \in 1..(m - 1) /\ From(l) = l
            BY <1>2, <1>3, <5>2
          <6> QED  BY <6>1
        <5> QED  BY <5>1, <5>2
      <4>4. i \in 1..m /\ order'[i] = j
        BY <1>2, <4>1, <4>3
      <4> QED  BY <4>4
    <3>2. ASSUME NEW i \in 1..m, order'[i] = j
          PROVE  InCache(j) /\ j \notin Evicted
      <4>1. i \in 1..(m - 1)
        BY <1>2, <2>2, <3>2
      <4>2. From(i) \in 1..n /\ order[From(i)] = j
        BY <1>2, <3>2, <4>1
      <4>3. InCache(j)
        BY <1>1, <1>3, <4>2 DEF DictsAgree
      <4>4. ASSUME OverCapacity PROVE j # Head(order)
        <5>1. From(i) # 1 /\ 1 \in 1..n /\ order[1] = Head(order)
          BY <1>2, <1>3, <4>1, <4>4
        <5> QED  BY <1>1, <1>3, <4>2, <5>1 DEF DictsAgree
      <4> QED  BY <4>3, <4>4 DEF Evicted
    <3> QED  BY <1>7, <2>2, <3>1, <3>2
  <2> QED  BY <2>1, <2>2
<1>12. DictsAgree'
  <2>1. \A j \in Keys : InCache(j)' <=> timestamps'[j] # NoStamp
    <3> SUFFICES ASSUME NEW j \in Keys
                 PROVE  InCache(j)' <=> timestamps'[j] # NoStamp
      OBVIOUS
    <3>1. now # NoStamp
      BY <1>1, LRUAssumption DEF LRUTypeOK
    <3>2. InCache(j) <=> timestamps[j] # NoStamp
      BY <1>1 DEF DictsAgree
    <3> QED  BY <1>5, <1>6, <1>7, <3>1, <3>2 DEF Evicted
  <2> QED  BY <1>3, <1>10, <1>11, <2>1 DEF DictsAgree
<1>13. CapacityRespected'
  BY <1>2 DEF CapacityRespected
<1>14. ASSUME NEW i \in 1..m, NEW j \in 1..m, i < j
       PROVE  order'[j] \in since'[order'[i]]
  <2>1. i \in 1..(m - 1) /\ From(i) \in 1..n /\ order'[i] = order[From(i)] /\ order'[i] # k
    BY <1>2, <1>14
  <2>2. since'[order'[i]] = since[order'[i]] \union {k}
    <3>1. order[From(i)] \in Keys
      BY <1>3, <2>1
    <3> HIDE DEF From
    <3> QED  BY <1>4, <2>1, <3>1
  <2>3. CASE j = m
    BY <1>2, <2>2, <2>3
  <2>4. CASE j # m
    <3>1. j \in 1..(m - 1)
      BY <1>2, <2>4
    <3>2. From(j) \in 1..n /\ From(i) < From(j) /\ order'[j] = order[From(j)]
      BY <1>2, <1>14, <2>1, <3>1
    <3>3. order[From(j)] \in since[order[From(i)]]
      BY <1>1, <2>1, <3>2 DEF Ordered
    <3> QED  BY <2>1, <2>2, <3>2, <3>3
  <2> QED  BY <2>3, <2>4
<1>15. Ordered'
  BY <1>2, <1>14 DEF Ordered
<1>16. Faithful'
  BY <1>1, <1>5, <1>6, <1>7 DEF Faithful, Evicted
<1>17. ASSUME OverCapacity
       PROVE  Capacity > 0 /\ Cardinality(since'[Head(order)]) >= Capacity
  <2>1. Capacity > 0 /\ n = Capacity /\ m = Capacity /\ order[1] = Head(order)
    BY <1>2, <1>17
  <2>2. since'[Head(order)] = since[Head(order)] \union {k} /\ IsFiniteSet(since'[Head(order)])
    BY <1>4, <1>5, <1>17 DEF FiniteSince
  <2>3. \A i \in 1..m : order'[i] \in since'[Head(order)]
    <3> SUFFICES ASSUME NEW i \in 1..m, i # m
                 PROVE  order'[i] \in since'[Head(order)]
      BY <1>2, <2>2
    <3>1. i \in 1..(m - 1) /\ From(i) = i + 1
      BY <1>2, <1>17
    <3>2. i + 1 \in 1..n /\ order'[i] = order[i + 1] /\ 1 \in 1..n /\ 1 < i + 1
      BY <1>2, <1>3, <2>1, <3>1
    <3>3. order[i + 1] \in since[order[1]]
      BY <1>1, <3>2 DEF Ordered
    <3> QED  BY <2>1, <2>2, <3>2, <3>3
  <2>4. m \in Nat
    BY <1>2
  <2>5. Cardinality(since'[Head(order)]) >= m
    BY <1>10, <2>2, <2>3, <2>4, ManyElements
  <2> QED  BY <2>1, <2>5
<1>18. DisplacedByCapacityOthers'
  <2> SUFFICES ASSUME NEW j \in Keys, newest'[j] # NoValue, ~InCache(j)'
               PROVE  Capacity > 0 /\ Cardinality(since'[j]) >= Capacity
    BY DEF DisplacedByCapacityOthers
  <2>1. j # k /\ newest[j] # NoValue
    BY <1>6, <1>7
  <2>2. CASE InCache(j)
    <3>1. OverCapacity /\ j = Head(order)
      BY <1>7, <2>1, <2>2 DEF Evicted
    <3> QED  BY <1>17, <3>1
  <2>3. CASE ~InCache(j)
    <3>1. Capacity > 0 /\ Cardinality(since[j]) >= Capacity
      BY <1>1, <2>1, <2>3 DEF DisplacedByCapacityOthers
    <3> QED  BY <1>4, <2>1, <3>1, LRUAssumption
  <2> QED  BY <2>2, <2>3
<1> QED  BY <1>4, <1>8, <1>12, <1>13, <1>15, <1>16, <1>18 DEF IInv

LEMMA ClearIInv == ASSUME IInv, Clear PROVE IInv'
<1>1. Len(order') = 0 /\ DOMAIN order' = {} /\ order' \in Seq(Keys)
  BY DEF Clear
<1>2. LRUTypeOK' /\ DictsAgree'
  BY <1>1, LRUAssumption DEF IInv, Clear, LRUTypeOK, DictsAgree, InCache
<1>3. CapacityRespected' /\ Ordered' /\ Faithful'
  BY <1>1, LRUAssumption DEF Clear, CapacityRespected, Ordered, Faithful, InCache
<1>4. FiniteSince' /\ DisplacedByCapacityOthers'
  BY DEF IInv, Clear, FiniteSince, DisplacedByCapacityOthers
<1> QED  BY <1>2, <1>3, <1>4 DEF IInv

\* Steps that touch neither the entries nor the histories.
LEMMA IdleIInv ==
    ASSUME IInv, now' \in Nat, reply' \in Stored \union {NoValue},
           UNCHANGED <<order, cache, timestamps, newest, putAt, since>>
    PROVE  IInv'
BY DEF IInv, LRUTypeOK, DictsAgree, CapacityRespected, Ordered, Faithful, FiniteSince,
       DisplacedByCapacityOthers, InCache

LEMMA StepIInv == IInv /\ [LRUNext]_lruVars => IInv'
<1> SUFFICES ASSUME IInv, [LRUNext]_lruVars PROVE IInv'
  OBVIOUS
<1>1. LRUTypeOK
  BY DEF IInv
<1>2. ASSUME NEW k \in Keys, GetAbsent(k) PROVE IInv'
  BY <1>1, <1>2, IdleIInv DEF GetAbsent, LRUTypeOK
<1>3. ASSUME NEW k \in Keys, GetExpired(k) PROVE IInv'
  BY <1>3, DeleteIInv DEF GetExpired
<1>4. ASSUME NEW k \in Keys, GetHit(k) PROVE IInv'
  BY <1>4, GetHitIInv
<1>5. ASSUME NEW k \in Keys, Remove(k) PROVE IInv'
  BY <1>5, DeleteIInv DEF Remove
<1>6. ASSUME NEW k \in Keys, NEW v \in Stored, Put(k, v) PROVE IInv'
  BY <1>6, PutUpdateIInv, PutNewIInv DEF Put
<1>7. CASE Clear
  BY <1>7, ClearIInv
<1>8. CASE Tick
  BY <1>1, <1>8, IdleIInv DEF Tick, LRUTypeOK
<1>9. CASE UNCHANGED lruVars
  BY <1>1, <1>9, IdleIInv DEF lruVars, LRUTypeOK
<1> QED  BY <1>2, <1>3, <1>4, <1>5, <1>6, <1>7, <1>8, <1>9 DEF LRUNext, Get

-----------------------------------------------------------------------------
\* The strengthening is an invariant of the cache.
THEOREM LRUInvariance == LRUSpec => []IInv
BY InitIInv, StepIInv, PTL DEF LRUSpec

\* get never meets an entry without a timestamp and put never evicts one
\* without: the two dicts of LRUCache keep the same keys.
THEOREM LRUDictsAgree == LRUSpec => [](LRUTypeOK /\ DictsAgree)
<1>1. IInv => LRUTypeOK /\ DictsAgree
  BY DEF IInv
<1> QED  BY <1>1, LRUInvariance, PTL

\* put keeps the cache within its capacity, whatever its value.
THEOREM LRUCapacityRespected == LRUSpec => []CapacityRespected
<1>1. IInv => CapacityRespected
  BY DEF IInv
<1> QED  BY <1>1, LRUInvariance, PTL

\* The eviction policy of put and get is least-recently-used.
THEOREM LRURecency == LRUSpec => []DisplacedByCapacityOthers
<1>1. IInv => DisplacedByCapacityOthers
  BY DEF IInv
<1> QED  BY <1>1, LRUInvariance, PTL

\* Every behaviour of LRUCache is one LossyCache allows: a hit is the latest put
\* of its key, and no hit makes an entry live longer.
THEOREM LRUImplementsLossyCache == LRUSpec => ReadsLatestWithinTtl
<1>1. LRUInit => Lossy!LInit
  BY DEF LRUInit, Lossy!LInit
<1>2. IInv /\ [LRUNext]_lruVars => [Lossy!LNext]_Lossy!lvars
  <2> SUFFICES ASSUME IInv, [LRUNext]_lruVars PROVE [Lossy!LNext]_Lossy!lvars
    OBVIOUS
  <2>0. LRUTypeOK /\ Faithful
    BY DEF IInv
  <2>1. ASSUME NEW k \in Keys, GetAbsent(k) PROVE Lossy!Read(k)
    BY <2>1 DEF GetAbsent, Lossy!Read
  <2>2. ASSUME NEW k \in Keys, GetExpired(k) PROVE Lossy!Forget({k})
    BY <2>0, <2>2 DEF GetExpired, Lossy!Forget, LRUTypeOK
  <2>3. ASSUME NEW k \in Keys, GetHit(k) PROVE Lossy!Read(k)
    <3>1. cache[k] = newest[k] /\ timestamps[k] = putAt[k] /\ newest[k] # NoValue
      BY <2>0, <2>3 DEF GetHit, Faithful, InCache
    <3>2. now \in Nat /\ putAt[k] \in Nat /\ Ttl \in Nat
      BY <2>0, LRUAssumption DEF LRUTypeOK
    <3>3. Lossy!Fresh(k)
      BY <2>3, <3>1, <3>2 DEF GetHit, Expired, Lossy!Fresh
    <3> QED  BY <2>3, <3>1, <3>3 DEF GetHit, Lossy!Read
  <2>4. ASSUME NEW k \in Keys, Remove(k) PROVE Lossy!Forget({k})
    BY <2>0, <2>4 DEF Remove, Lossy!Forget, LRUTypeOK
  <2>5. ASSUME NEW k \in Keys, NEW v \in Stored, Put(k, v) PROVE Lossy!Write(k, v)
    BY <2>5 DEF Put, Lossy!Write
  <2>6. CASE Clear
    <3>1. Lossy!Forget(Keys)
      BY <2>6 DEF Clear, Lossy!Forget
    <3> QED  BY <3>1 DEF Lossy!LNext
  <2>7. CASE Tick
    BY <2>7 DEF Tick, Lossy!Pass, Lossy!LNext
  <2>8. CASE UNCHANGED lruVars
    BY <2>8 DEF lruVars, Lossy!lvars
  <2> QED  BY <2>1, <2>2, <2>3, <2>4, <2>5, <2>6, <2>7, <2>8
           DEF LRUNext, Get, Lossy!LNext
<1> QED  BY <1>1, <1>2, LRUInvariance, PTL DEF LRUSpec, Lossy!LSpec, ReadsLatestWithinTtl

-----------------------------------------------------------------------------
Records == {Serialized(v) : v \in Values} \cup {Missing}

RedisTypes ==
    /\ store \in [RedisKeys -> Records]
    /\ setAt \in [RedisKeys -> Nat]
    /\ clock \in Nat
    /\ sweep \in [left : SUBSET RedisKeys, found : SUBSET RedisKeys]
    /\ older \subseteq RedisKeys

\* The server has the latest put of a key, and its time.
Stays == latest = store /\ latestAt = setAt

\* What was there when the clear began is still to be scanned, or to be deleted.
Swept == \A k \in older : Present(k) => k \in sweep.left \cup sweep.found

RedisInv == RedisTypes /\ Stays /\ Swept

-----------------------------------------------------------------------------
LEMMA InitRedisInv == ASSUME RedisInit PROVE RedisInv
  BY DEF RedisInit, RedisInv, RedisTypes, Records, NoSweep, Stays, Swept

\* A command that leaves the entries and the clear alone.
LEMMA SameRedisInv ==
    ASSUME RedisInv, UNCHANGED <<store, setAt, clock, sweep, latest, latestAt, older>>
    PROVE  RedisInv'
  BY DEF RedisInv, RedisTypes, Stays, Swept, Present, Dropped

LEMMA PutRedisInv ==
    ASSUME RedisInv, NEW k \in RedisKeys, NEW v \in Values, PutValue(k, v)
    PROVE  RedisInv'
<1>1. Serialized(v) \in Records
  BY DEF Records
<1>2. RedisTypes'
  BY <1>1 DEF PutValue, SetValue, RedisInv, RedisTypes
<1>3. Stays'
  BY DEF PutValue, SetValue, RedisInv, Stays
<1>4. \A j \in RedisKeys : j # k => (Present(j)' <=> Present(j))
  BY DEF PutValue, SetValue, RedisInv, RedisTypes, Present, Dropped
<1>5. Swept'
  BY <1>4 DEF PutValue, RedisInv, RedisTypes, Swept
<1> QED  BY <1>2, <1>3, <1>5 DEF RedisInv

LEMMA DelRedisInv ==
    ASSUME RedisInv, NEW K, Del(K), sweep' = sweep \/ (K = sweep.found /\ sweep' = [sweep EXCEPT !.found = {}])
    PROVE  RedisInv'
<1>1. RedisTypes'
  BY DEF Del, RedisInv, RedisTypes, Records
<1>2. Stays'
  BY DEF Del, RedisInv, Stays
<1>3. \A k \in RedisKeys : Present(k)' => Present(k) /\ k \notin K
  BY DEF Del, RedisInv, RedisTypes, Present, Dropped
<1>4. sweep'.left = sweep.left /\ (sweep'.found = sweep.found \/ (K = sweep.found /\ sweep'.found = {}))
  BY DEF RedisInv, RedisTypes
<1>5. Swept'
  BY <1>3, <1>4 DEF Del, RedisInv, RedisTypes, Swept
<1> QED  BY <1>1, <1>2, <1>5 DEF RedisInv

LEMMA HousekeepingRedisInv == ASSUME RedisInv, Housekeeping PROVE RedisInv'
<1>1. ASSUME NEW k \in RedisKeys, RemoveKey(k) PROVE RedisInv'
  BY <1>1, DelRedisInv DEF RemoveKey
<1>2. CASE DeleteFound
  BY <1>2, DelRedisInv DEF DeleteFound
<1>3. CASE ClearBegins
  BY <1>3 DEF ClearBegins, RedisInv, RedisTypes, Stays, Swept, Present, Dropped
<1>4. ASSUME NEW K \in SUBSET RedisKeys, Scan(K) PROVE RedisInv'
  <2>1. /\ sweep' = [left |-> sweep.left \ K, found |-> {k \in K : Present(k)}]
        /\ sweep.found = {}
        /\ UNCHANGED <<store, setAt, clock, latest, latestAt, older>>
    BY <1>4 DEF Scan
  <2>2. RedisTypes' /\ Stays'
    BY <2>1 DEF RedisInv, RedisTypes, Stays
  <2>3. \A k : Present(k)' <=> Present(k)
    BY <2>1 DEF Present, Dropped
  <2>4. Swept'
    BY <2>1, <2>3 DEF RedisInv, Swept
  <2> QED  BY <2>2, <2>4 DEF RedisInv
<1>5. CASE TimeGoesOn
  <2>1. RedisTypes' /\ Stays'
    BY <1>5 DEF TimeGoesOn, RedisInv, RedisTypes, Stays
  <2>2. \A k \in RedisKeys : Present(k)' => Present(k)
    BY <1>5, RedisAssumption DEF TimeGoesOn, RedisInv, RedisTypes, Present, Dropped
  <2>3. Swept'
    BY <1>5, <2>2 DEF TimeGoesOn, RedisInv, RedisTypes, Swept
  <2> QED  BY <2>1, <2>3 DEF RedisInv
<1> QED  BY <1>1, <1>2, <1>3, <1>4, <1>5 DEF Housekeeping

\* A step of a call is a GET, a SET or nothing to the server.
LEMMA CallOfServer ==
    ASSUME NEW c \in Runs,
           LookHit(c) \/ LookMiss(c) \/ RunReturns(c) \/ RunRaises(c) \/ PutArrives(c) \/ PutLost(c)
    PROVE  \/ GetValue(_cache_key(c))
           \/ PutValue(_cache_key(c), c)
           \/ UNCHANGED redisVars
  BY DEF LookHit, LookMiss, RunReturns, RunRaises, PutArrives, PutLost

LEMMA StepRedisInv == ASSUME RedisInv, [PCNext]_pipelineCacheVars PROVE RedisInv'
<1>1. ASSUME NEW c \in Runs, GetValue(_cache_key(c)) PROVE RedisInv'
  BY <1>1, SameRedisInv DEF GetValue
<1>2. ASSUME NEW c \in Runs, PutValue(_cache_key(c), c) PROVE RedisInv'
  BY <1>2, PutRedisInv, PipelineCacheAssumption
<1>3. CASE UNCHANGED redisVars
  BY <1>3, SameRedisInv DEF redisVars
<1>4. CASE UNCHANGED pipelineCacheVars
  BY <1>3, <1>4 DEF pipelineCacheVars
<1> QED  BY <1>1, <1>2, <1>3, <1>4, CallOfServer, HousekeepingRedisInv DEF PCNext

-----------------------------------------------------------------------------
\* c has computed its result and returned it.
Computed(c) == at[c] = "returned" /\ gave[c] = [from |-> c, cached |-> FALSE]

\* What is on the server, or on its way there, was computed by a call with this key; a hit has
\* such a result.
Earned ==
    /\ DOMAIN at = Runs /\ DOMAIN gave = Runs
    /\ \A c \in puts : c \in Runs /\ Computed(c)
    /\ \A k \in RedisKeys : store[k] # Missing =>
            \E r \in Runs : store[k] = Serialized(r) /\ _cache_key(r) = k /\ Computed(r)
    /\ \A c \in Runs : at[c] \in {"new", "running"} => gave[c] = NoRun
    /\ \A c \in Runs : gave[c].cached =>
            \E r \in Runs \ Opaque :
                gave[c].from = r /\ _cache_key(r) = _cache_key(c) /\ Computed(r)

LEMMA TextOrJson ==
    ASSUME NEW v, "text" \notin DOMAIN Serialized(v)
    PROVE  v \notin Opaque /\ Decoded(Serialized(v)) = v
<1>1. v \notin Opaque
  BY DEF Serialized
<1>2. Serialized(v) = [json |-> v]
  BY <1>1 DEF Serialized
<1> QED  BY <1>1, <1>2 DEF Decoded

LEMMA InitEarned == ASSUME PCInit PROVE Earned
  BY DEF PCInit, RedisInit, Earned, NoRun

\* What was computed stays so.
LEMMA ComputedStays ==
    ASSUME Earned, NEW c \in Runs, at[c] \in {"new", "running"},
           NEW s, Goes(c, s),
           \A d \in Runs \ {c} : gave'[d] = gave[d],
           NEW r \in Runs, Computed(r)
    PROVE  r # c /\ Computed(r)'
  BY DEF Earned, Goes, Computed

LEMMA LookHitEarned == ASSUME RedisInv, Earned, NEW c \in Runs, LookHit(c) PROVE Earned'
<1>1. /\ at[c] = "new" /\ UNCHANGED <<store, puts>>
      /\ _cache_key(c) \in RedisKeys /\ store[_cache_key(c)] # Missing
  BY PipelineCacheAssumption DEF LookHit, GetValue, Present
<1>2. PICK r \in Runs : /\ store[_cache_key(c)] = Serialized(r)
                        /\ _cache_key(r) = _cache_key(c) /\ Computed(r)
  BY <1>1 DEF Earned
<1>3. CASE "text" \in DOMAIN store[_cache_key(c)]
  <2>1. Goes(c, "raised") /\ UNCHANGED gave
    BY <1>3 DEF LookHit
  <2>2. \A d \in Runs : Computed(d) => d # c /\ Computed(d)'
    BY <1>1, <2>1, ComputedStays
  <2> QED  BY <1>1, <2>1, <2>2 DEF Earned, Goes
<1>4. CASE "text" \notin DOMAIN store[_cache_key(c)]
  <2>1. r \notin Opaque /\ Decoded(store[_cache_key(c)]) = r
    BY <1>2, <1>4, TextOrJson
  <2>2. /\ Goes(c, "returned")
        /\ gave' = [gave EXCEPT ![c] = [from |-> r, cached |-> TRUE]]
    BY <1>4, <2>1 DEF LookHit
  <2>3. /\ gave'[c] = [from |-> r, cached |-> TRUE] /\ DOMAIN gave' = Runs
        /\ \A d \in Runs \ {c} : gave'[d] = gave[d]
    BY <2>2 DEF Earned
  <2>4. \A d \in Runs : Computed(d) => d # c /\ Computed(d)'
    BY <1>1, <2>2, <2>3, ComputedStays
  <2>5. /\ DOMAIN at' = Runs /\ at'[c] = "returned"
        /\ \A d \in Runs \ {c} : at'[d] = at[d]
    BY <2>2 DEF Earned, Goes
  <2>6. gave'[c].from = r
    BY <2>3
  <2>7. ASSUME NEW d \in Runs, gave'[d].cached
        PROVE  \E q \in Runs \ Opaque :
                  gave'[d].from = q /\ _cache_key(q) = _cache_key(d) /\ Computed(q)'
    <3>1. CASE d = c
      BY <1>2, <2>1, <2>4, <2>6, <3>1
    <3>2. CASE d # c
      BY <2>3, <2>4, <2>7, <3>2 DEF Earned
    <3> QED  BY <3>1, <3>2
  <2>8. \A d \in Runs : at'[d] \in {"new", "running"} => gave'[d] = NoRun
    BY <2>3, <2>5 DEF Earned
  <2>9. /\ \A d \in puts' : d \in Runs /\ Computed(d)'
        /\ \A k \in RedisKeys : store'[k] # Missing =>
              \E q \in Runs : store'[k] = Serialized(q) /\ _cache_key(q) = k /\ Computed(q)'
    BY <1>1, <2>4 DEF Earned
  <2> QED  BY <2>3, <2>5, <2>7, <2>8, <2>9 DEF Earned
<1> QED  BY <1>3, <1>4

LEMMA RunEarned ==
    ASSUME Earned, NEW c \in Runs, LookMiss(c) \/ RunReturns(c) \/ RunRaises(c)
    PROVE  Earned'
<1>1. PICK s : Goes(c, s) /\ at[c] \in {"new", "running"} /\ store' = store
  BY DEF LookMiss, RunReturns, RunRaises, GetValue, redisVars
<1>2. \/ at'[c] = "returned" /\ gave'[c] = [from |-> c, cached |-> FALSE] /\ puts' = puts \cup {c}
      \/ at'[c] \in {"running", "raised"} /\ gave'[c] = gave[c] /\ puts' = puts
  BY <1>1 DEF LookMiss, RunReturns, RunRaises, Earned, Goes
<1>3. /\ DOMAIN at' = Runs /\ DOMAIN gave' = Runs
      /\ \A d \in Runs \ {c} : at'[d] = at[d] /\ gave'[d] = gave[d]
  BY <1>1 DEF LookMiss, RunReturns, RunRaises, Earned, Goes
<1>4. \A d \in Runs : Computed(d) => d # c /\ Computed(d)'
  BY <1>1, <1>3, ComputedStays
<1>5. ~gave'[c].cached
  BY <1>1, <1>2 DEF Earned, NoRun
<1>6. \A d \in puts' : d \in Runs /\ Computed(d)'
  BY <1>2, <1>4 DEF Earned, Computed
<1>7. \A d \in Runs : at'[d] \in {"new", "running"} => gave'[d] = NoRun
  BY <1>1, <1>2, <1>3 DEF Earned
<1>8. \A d \in Runs : gave'[d].cached =>
        \E q \in Runs \ Opaque :
            gave'[d].from = q /\ _cache_key(q) = _cache_key(d) /\ Computed(q)'
  BY <1>3, <1>4, <1>5 DEF Earned
<1>9. \A k \in RedisKeys : store'[k] # Missing =>
        \E q \in Runs : store'[k] = Serialized(q) /\ _cache_key(q) = k /\ Computed(q)'
  BY <1>1, <1>4 DEF Earned
<1> QED  BY <1>3, <1>6, <1>7, <1>8, <1>9 DEF Earned

LEMMA PutEarned ==
    ASSUME RedisInv, Earned, NEW c \in Runs, PutArrives(c) \/ PutLost(c)
    PROVE  Earned'
<1>1. c \in puts /\ puts' = puts \ {c} /\ UNCHANGED <<at, gave>>
  BY DEF PutArrives, PutLost
<1>2. \A k \in RedisKeys :
        store'[k] = store[k] \/ (k = _cache_key(c) /\ store'[k] = Serialized(c))
  BY DEF PutArrives, PutLost, PutValue, SetValue, redisVars, RedisInv, RedisTypes
<1>3. \A d : Computed(d)' <=> Computed(d)
  BY <1>1 DEF Computed
<1> QED  BY <1>1, <1>2, <1>3 DEF Earned

LEMMA HousekeepingEarned ==
    ASSUME RedisInv, Earned, Housekeeping, UNCHANGED <<at, gave, puts>>
    PROVE  Earned'
<1>1. \A k \in RedisKeys : store'[k] = store[k] \/ store'[k] = Missing
  BY DEF Housekeeping, RemoveKey, Del, ClearBegins, DeleteFound, Scan, TimeGoesOn
<1>2. \A d : Computed(d)' <=> Computed(d)
  BY DEF Computed
<1> QED  BY <1>1, <1>2 DEF Earned

LEMMA StepEarned ==
    ASSUME RedisInv, Earned, [PCNext]_pipelineCacheVars
    PROVE  Earned'
<1>1. CASE UNCHANGED pipelineCacheVars
  BY <1>1 DEF pipelineCacheVars, redisVars, Earned, Computed
<1> QED  BY <1>1, LookHitEarned, RunEarned, PutEarned, HousekeepingEarned DEF PCNext

-----------------------------------------------------------------------------
\* Whichever backend a cache has, it makes the steps of that backend.
LEMMA CachesSteps ==
    ASSUME [CachesNext]_cachesVars
    PROVE  [LRUNext]_lruVars /\ [PCNext]_pipelineCacheVars
  BY DEF CachesNext, cachesVars

THEOREM CachesInvariance == CachesSpec => [](RedisInv /\ Earned)
<1>1. CachesInit => RedisInv /\ Earned
  BY InitRedisInv, InitEarned DEF CachesInit, PCInit
<1>2. RedisInv /\ Earned /\ [CachesNext]_cachesVars => RedisInv' /\ Earned'
  BY CachesSteps, StepRedisInv, StepEarned
<1> QED  BY <1>1, <1>2, PTL DEF CachesSpec

\* RedisCache.clear: at the end of its scans and deletions nothing is left of what was there
\* when it began, whatever other tasks and processes did between its commands.
THEOREM ClearIsComplete == CachesSpec => []ClearForgetsOlder
<1>1. RedisInv => ClearForgetsOlder
  BY DEF RedisInv, Swept, NoSweep, ClearForgetsOlder
<1> QED  BY <1>1, CachesInvariance, PTL

\* SearchPipeline.cached_run hands out results of the same question only, which were computed
\* and returned.
THEOREM CachedRunsAnswer == CachesSpec => []PipelineHitsAnswer
<1>1. Earned => PipelineHitsAnswer
  <2> SUFFICES ASSUME Earned, NEW c \in Runs, gave[c].cached
               PROVE  /\ Asks[gave[c].from] = Asks[c] /\ gave[c].from \notin Opaque
                      /\ gave[gave[c].from] = [from |-> gave[c].from, cached |-> FALSE]
    BY DEF PipelineHitsAnswer
  <2>1. PICK r \in Runs \ Opaque :
          gave[c].from = r /\ _cache_key(r) = _cache_key(c) /\ Computed(r)
    BY DEF Earned
  <2>2. Asks[r] = Asks[c]
    BY <2>1, PipelineCacheAssumption DEF _cache_key
  <2> QED  BY <2>1, <2>2 DEF Computed
<1> QED  BY <1>1, CachesInvariance, PTL

\* RedisCache, one step per command of the server, does what LossyCache allows: get returns the
\* latest put of the key within its time to live.
THEOREM RedisImplementsLossyCache == CachesSpec => RedisReadsLatest
<1>1. CachesInit => Remote!LInit
  BY DEF CachesInit, PCInit, RedisInit, Remote!LInit
<1>2. RedisInv /\ [CachesNext]_cachesVars => [Remote!LNext]_Remote!lvars
  <2> SUFFICES ASSUME RedisInv, [PCNext]_pipelineCacheVars
               PROVE  [Remote!LNext]_Remote!lvars
    BY CachesSteps
  <2>1. ASSUME NEW c \in Runs, GetValue(_cache_key(c)) PROVE Remote!LNext
    <3> DEFINE k == _cache_key(c)
    <3>1. k \in RedisKeys
      BY PipelineCacheAssumption
    <3>2. Present(k) => Remote!Fresh(k) /\ store[k] = latest[k]
      BY <3>1, RedisAssumption DEF Present, Dropped, Remote!Fresh, RedisInv, RedisTypes, Stays
    <3>3. Remote!Read(k)
      BY <2>1, <3>2 DEF GetValue, Remote!Read
    <3> QED  BY <3>1, <3>3 DEF Remote!LNext
  <2>2. ASSUME NEW c \in Runs, PutValue(_cache_key(c), c) PROVE Remote!LNext
    <3>1. Remote!Write(_cache_key(c), Serialized(c))
      BY <2>2 DEF PutValue, Remote!Write
    <3>2. _cache_key(c) \in RedisKeys /\ Serialized(c) \in {Serialized(v) : v \in Values}
      BY PipelineCacheAssumption
    <3> QED  BY <3>1, <3>2 DEF Remote!LNext
  <2>3. ASSUME NEW K \in SUBSET RedisKeys, Del(K) PROVE Remote!LNext
    <3>1. Remote!Forget(K)
      BY <2>3 DEF Del, Remote!Forget
    <3> QED  BY <3>1 DEF Remote!LNext
  <2>4. ASSUME got' = Missing, UNCHANGED <<latest, latestAt, clock>> PROVE Remote!LNext
    <3>1. latest = [k \in RedisKeys |-> latest[k]]
      BY DEF RedisInv, RedisTypes, Stays
    <3>2. Remote!Forget({})
      BY <2>4, <3>1 DEF Remote!Forget
    <3> QED  BY <3>2 DEF Remote!LNext
  <2>5. CASE TimeGoesOn
    BY <2>5 DEF TimeGoesOn, Remote!Pass, Remote!LNext
  <2>6. CASE Housekeeping
    <3>1. ASSUME NEW k \in RedisKeys, RemoveKey(k) PROVE Remote!LNext
      <4>1. {k} \in SUBSET RedisKeys
        OBVIOUS
      <4> QED  BY <2>3, <3>1, <4>1 DEF RemoveKey
    <3>2. CASE DeleteFound
      <4>1. sweep.found \in SUBSET RedisKeys
        BY DEF RedisInv, RedisTypes
      <4> QED  BY <2>3, <3>2, <4>1 DEF DeleteFound
    <3>3. CASE ClearBegins
      BY <2>4, <3>3 DEF ClearBegins
    <3>4. ASSUME NEW K \in SUBSET RedisKeys, Scan(K) PROVE Remote!LNext
      BY <2>4, <3>4 DEF Scan
    <3> QED  BY <2>5, <2>6, <3>1, <3>2, <3>3, <3>4 DEF Housekeeping
  <2>7. CASE UNCHANGED redisVars
    BY <2>7 DEF redisVars, Remote!lvars
  <2>8. CASE UNCHANGED pipelineCacheVars
    BY <2>7, <2>8 DEF pipelineCacheVars
  <2> QED  BY <2>1, <2>2, <2>6, <2>7, <2>8, CallOfServer DEF PCNext
<1> QED  BY <1>1, <1>2, CachesInvariance, PTL DEF CachesSpec, Remote!LSpec, RedisReadsLatest

\* Behind a processor or the pipeline cache stands a cache that keeps the promise of Cache,
\* whichever implementation the configuration chose.
THEOREM EveryCacheIsLossyCache == CachesSpec => ReadsLatestWithinTtl /\ RedisReadsLatest
<1>1. CachesInit => LRUInit
  BY DEF CachesInit
<1>2. [CachesNext]_cachesVars => [LRUNext]_lruVars
  BY CachesSteps
<1>3. CachesSpec => LRUSpec
  BY <1>1, <1>2, PTL DEF CachesSpec, LRUSpec
<1> QED  BY <1>3, LRUImplementsLossyCache, RedisImplementsLossyCache
-----------------------------------------------------------------------------
(***************************************************************************)
(* Processor.submit over the LRU cache, for any set of calls, capacity and *)
(* time to live.  The one condition is on the key function: requests with  *)
(* the same key must have the same answer (KeysSeparate), which is what    *)
(* the documentation of cache_key_fields asks of a configuration.          *)
(***************************************************************************)
KeysSeparate == \A r, s \in Calls : KeyOf[r] = KeyOf[s] => AnswerOf[r] = AnswerOf[s]

Replies == [from : Calls \union {NoCall}, cached : BOOLEAN, changed : BOOLEAN]

CPTypes ==
    /\ cache \in [Keys -> Calls \union {NoValue}]
    /\ phase \in [Calls -> {"new", "asking", "returned", "cancelled"}]
    /\ given \in [Calls -> Replies]
    /\ putTasks \in Seq(Calls)

\* A cached dict is filed under the key of the call that computed it.
Filed == \A k \in Keys : InCache(k) => KeyOf[cache[k]] = k

\* A reply comes from a call with the same key.
SameKey == \A r \in Calls : given[r].from # NoCall => KeyOf[given[r].from] = KeyOf[r]

\* A call that has not returned has been given nothing.
NothingYet ==
    \A r \in Calls : phase[r] # "returned" => given[r] = Reply(NoCall, FALSE, FALSE)

CPInv == CPTypes /\ Filed /\ SameKey /\ NothingYet /\ OnlyAnswersAreCached

-----------------------------------------------------------------------------
\* What a step of the cache can do to its entries.
Lost == \A k \in Keys : cache'[k] = cache[k] \/ cache'[k] = NoValue

LEMMA GetLoses ==
    ASSUME CPTypes, NEW k \in Keys, Get(k)
    PROVE  cache' \in [Keys -> Calls \union {NoValue}] /\ Lost
BY DEF CPTypes, Get, GetAbsent, GetExpired, GetHit, Delete, Lost, Calls

LEMMA PutFiles ==
    ASSUME CPTypes, NEW k \in Keys, NEW v \in Stored, Put(k, v)
    PROVE  /\ cache' \in [Keys -> Calls \union {NoValue}]
           /\ \A j \in Keys : \/ cache'[j] = cache[j] \/ cache'[j] = NoValue
                              \/ j = k /\ cache'[j] = v
<1>1. CASE PutUpdate(k, v)
  BY <1>1 DEF CPTypes, PutUpdate, Calls
<1>2. CASE PutNew(k, v)
  BY <1>2 DEF CPTypes, PutNew, Calls
<1> QED  BY <1>1, <1>2 DEF Put

LEMMA InitCPInv == CPInit => CPInv
<1> SUFFICES ASSUME CPInit PROVE CPInv
  OBVIOUS
<1>1. DOMAIN putTasks = {} /\ putTasks \in Seq(Calls)
  BY DEF CPInit
<1>2. CPTypes
  BY <1>1 DEF CPInit, LRUInit, CPTypes, Replies, Reply
<1>3. Filed
  BY DEF CPInit, LRUInit, Filed, InCache
<1>4. SameKey /\ NothingYet
  BY DEF CPInit, SameKey, NothingYet, Reply
<1>5. OnlyAnswersAreCached
  BY <1>1, LRUAssumption DEF CPInit, LRUInit, OnlyAnswersAreCached, Calls
<1> QED  BY <1>2, <1>3, <1>4, <1>5 DEF CPInv

\* A step that writes no entry, schedules no put and gives no reply to anybody
\* who has one keeps the invariant.
LEMMA HitCPInv == ASSUME CPInv, NEW r \in Calls, SubmitHit(r) PROVE CPInv'
<1> DEFINE k == KeyOf[r]
<1>1. /\ k \in Keys /\ cache[k] \in Calls /\ cache[k] # NoValue
      /\ cache' = cache /\ putTasks' = putTasks /\ phase[r] = "new"
      /\ phase' = [phase EXCEPT ![r] = "returned"]
      /\ given' = [given EXCEPT ![r] = Reply(cache[k], TRUE, cache[k] \in rewritten)]
  BY CachedAssumption DEF CPInv, CPTypes, SubmitHit, GetHit, InCache, Return
<1>2. CPTypes'
  BY <1>1 DEF CPInv, CPTypes, Replies, Reply
<1>3. Filed'
  BY <1>1 DEF CPInv, Filed, InCache
<1>4. SameKey'
  <2>1. KeyOf[cache[k]] = k
    BY <1>1 DEF CPInv, Filed, InCache
  <2> QED  BY <1>1, <2>1 DEF CPInv, SameKey, CPTypes, Reply
<1>5. NothingYet'
  BY <1>1 DEF CPInv, NothingYet, CPTypes
<1>6. OnlyAnswersAreCached'
  <2>1. given[r] # Reply(r, FALSE, FALSE)
    BY <1>1, CachedAssumption DEF CPInv, NothingYet, Reply
  <2>2. \A s \in Calls : s # r => given'[s] = given[s]
    BY <1>1 DEF CPInv, CPTypes
  <2> QED  BY <1>1, <2>1, <2>2 DEF CPInv, OnlyAnswersAreCached
<1> QED  BY <1>2, <1>3, <1>4, <1>5, <1>6 DEF CPInv

LEMMA MissCPInv == ASSUME CPInv, NEW r \in Calls, SubmitMiss(r) PROVE CPInv'
<1>1. /\ cache' \in [Keys -> Calls \union {NoValue}] /\ Lost
      /\ phase' = [phase EXCEPT ![r] = "asking"] /\ phase[r] = "new"
      /\ given' = given /\ putTasks' = putTasks
  <2>1. KeyOf[r] \in Keys /\ Get(KeyOf[r])
    BY CachedAssumption DEF SubmitMiss, Get
  <2> QED  BY <2>1, GetLoses DEF CPInv, SubmitMiss
<1>2. CPTypes'
  BY <1>1 DEF CPInv, CPTypes
<1>3. Filed'
  BY <1>1 DEF CPInv, Filed, InCache, Lost
<1>4. SameKey' /\ NothingYet'
  BY <1>1 DEF CPInv, SameKey, NothingYet, CPTypes
<1>5. OnlyAnswersAreCached'
  BY <1>1, LRUAssumption DEF CPInv, OnlyAnswersAreCached, Lost, Calls
<1> QED  BY <1>2, <1>3, <1>4, <1>5 DEF CPInv

LEMMA AnsweredCPInv == ASSUME CPInv, NEW r \in Calls, Answered(r) PROVE CPInv'
<1>1. /\ cache' = cache /\ putTasks' = Append(putTasks, r) /\ phase[r] = "asking"
      /\ phase' = [phase EXCEPT ![r] = "returned"]
      /\ given' = [given EXCEPT ![r] = Reply(r, FALSE, FALSE)]
  BY DEF Answered, Return, lruVars
<1>2. CPTypes'
  BY <1>1 DEF CPInv, CPTypes, Replies, Reply
<1>3. Filed' /\ NothingYet'
  BY <1>1 DEF CPInv, Filed, InCache, NothingYet, CPTypes
<1>4. SameKey'
  BY <1>1 DEF CPInv, SameKey, CPTypes, Reply
<1>5. OnlyAnswersAreCached'
  <2>1. \A s \in Calls : s # r => given'[s] = given[s]
    BY <1>1 DEF CPInv, CPTypes
  <2>2. given'[r] = Reply(r, FALSE, FALSE)
    BY <1>1 DEF CPInv, CPTypes
  <2>3. ASSUME NEW s \in Calls, s # r, NEW i \in DOMAIN putTasks', putTasks'[i] = s
        PROVE  \E j \in DOMAIN putTasks : putTasks[j] = s
    <3>1. putTasks \in Seq(Calls)
      BY DEF CPInv, CPTypes
    <3>2. /\ Len(putTasks) \in Nat /\ DOMAIN putTasks = 1..Len(putTasks)
          /\ DOMAIN putTasks' = 1..(Len(putTasks) + 1)
          /\ \A j \in 1..Len(putTasks) : putTasks'[j] = putTasks[j]
          /\ putTasks'[Len(putTasks) + 1] = r
      BY <1>1, <3>1, AppendProperties, LenProperties
    <3> QED  BY <2>3, <3>2
  <2> QED  BY <1>1, <2>1, <2>2, <2>3 DEF CPInv, OnlyAnswersAreCached
<1> QED  BY <1>2, <1>3, <1>4, <1>5 DEF CPInv

\* Errors and cancellations: the reply, if any, is no call's result.
LEMMA NoReplyCPInv == ASSUME CPInv, NEW r \in Calls, Refused(r) \/ Abandon(r) PROVE CPInv'
<1>1. /\ cache' = cache /\ putTasks' = putTasks /\ phase[r] = "asking"
      /\ phase' \in [Calls -> {"new", "asking", "returned", "cancelled"}]
      /\ \A s \in Calls : s # r => phase'[s] = phase[s]
  BY DEF CPInv, CPTypes, Refused, Abandon, Return, lruVars
<1>2. given' = given
  BY <1>1 DEF CPInv, CPTypes, NothingYet, Refused, Abandon, Return
<1>3. CPTypes'
  BY <1>1, <1>2 DEF CPInv, CPTypes
<1>4. Filed' /\ SameKey'
  BY <1>1, <1>2 DEF CPInv, Filed, InCache, SameKey
<1>5. NothingYet'
  BY <1>1, <1>2 DEF CPInv, NothingYet
<1>6. OnlyAnswersAreCached'
  BY <1>1, <1>2 DEF CPInv, OnlyAnswersAreCached
<1> QED  BY <1>3, <1>4, <1>5, <1>6 DEF CPInv

LEMMA RunPutCPInv == ASSUME CPInv, RunPut PROVE CPInv'
<1> DEFINE h == Head(putTasks)
<1>1. putTasks \in Seq(Calls) /\ putTasks # <<>>
  BY DEF CPInv, CPTypes, RunPut
<1>2. /\ h \in Calls /\ 1 \in DOMAIN putTasks /\ putTasks[1] = h
      /\ putTasks' \in Seq(Calls)
      /\ \A i \in DOMAIN putTasks' : i + 1 \in DOMAIN putTasks /\ putTasks'[i] = putTasks[i + 1]
  BY <1>1, HeadTailProperties DEF RunPut
<1>3. KeyOf[h] \in Keys /\ h \in Stored /\ Put(KeyOf[h], h) /\ phase' = phase /\ given' = given
  BY <1>2, CachedAssumption DEF RunPut, Calls
<1>4. /\ cache' \in [Keys -> Calls \union {NoValue}]
      /\ \A j \in Keys : \/ cache'[j] = cache[j] \/ cache'[j] = NoValue
                         \/ j = KeyOf[h] /\ cache'[j] = h
  BY <1>3, PutFiles DEF CPInv
<1>5. CPTypes'
  BY <1>2, <1>3, <1>4 DEF CPInv, CPTypes
<1>6. Filed'
  BY <1>4 DEF CPInv, Filed, InCache
<1>7. SameKey' /\ NothingYet'
  BY <1>3 DEF CPInv, SameKey, NothingYet
<1>8. OnlyAnswersAreCached'
  <2> SUFFICES ASSUME NEW s \in Calls,
                      \/ \E k \in Keys : cache'[k] = s
                      \/ \E i \in DOMAIN putTasks' : putTasks'[i] = s
               PROVE  given[s] = Reply(s, FALSE, FALSE)
    BY <1>3 DEF OnlyAnswersAreCached
  <2>1. s # NoValue
    BY LRUAssumption DEF Calls
  <2>2. (\E k \in Keys : cache[k] = s) \/ (\E i \in DOMAIN putTasks : putTasks[i] = s)
    BY <1>2, <1>4, <2>1
  <2> QED  BY <2>2 DEF CPInv, OnlyAnswersAreCached
<1> QED  BY <1>5, <1>6, <1>7, <1>8 DEF CPInv

LEMMA StepCPInv == CPInv /\ [CPNext]_cpVars => CPInv'
<1> SUFFICES ASSUME CPInv, [CPNext]_cpVars PROVE CPInv'
  OBVIOUS
<1>1. ASSUME NEW r \in Calls,
             SubmitHit(r) \/ SubmitMiss(r) \/ Answered(r) \/ Refused(r) \/ Abandon(r)
      PROVE  CPInv'
  BY <1>1, HitCPInv, MissCPInv, AnsweredCPInv, NoReplyCPInv
<1>2. CASE RunPut
  BY <1>2, RunPutCPInv
<1>3. ASSUME UNCHANGED <<cache, phase, given, putTasks>> PROVE CPInv'
  BY <1>3 DEF CPInv, CPTypes, Filed, InCache, SameKey, NothingYet, OnlyAnswersAreCached
<1>4. ASSUME NEW r \in Calls, Rewrite(r) PROVE CPInv'
  BY <1>3, <1>4 DEF Rewrite, lruVars
<1>5. CASE TimePasses
  BY <1>3, <1>5 DEF TimePasses, Tick
<1>6. CASE AllDone \/ UNCHANGED cpVars
  BY <1>3, <1>6 DEF AllDone, cpVars, lruVars
<1> QED  BY <1>1, <1>2, <1>4, <1>5, <1>6 DEF CPNext

-----------------------------------------------------------------------------
\* The strengthening is an invariant of submit over its cache.
THEOREM CPInvariance == CPSpec => []CPInv
BY InitCPInv, StepCPInv, PTL DEF CPSpec

\* submit never answers a request with the result of a request that has another
\* answer, if the key function separates requests with different answers.
THEOREM HitsAreSound ==
    ASSUME KeysSeparate
    PROVE  CPSpec => []HitAnswersTheQuestion
<1>1. CPInv => HitAnswersTheQuestion
  BY DEF CPInv, CPTypes, Replies, SameKey, HitAnswersTheQuestion, KeysSeparate
<1> QED  BY <1>1, CPInvariance, PTL

\* submit never writes an error to the cache, nor anything its caller did not get.
THEOREM NoErrorCached == CPSpec => []OnlyAnswersAreCached
<1>1. CPInv => OnlyAnswersAreCached
  BY DEF CPInv
<1> QED  BY <1>1, CPInvariance, PTL

-----------------------------------------------------------------------------
\* Whoever rewrites a dict has been given it by a hit.
RewrittenAfterHit ==
    \A x \in rewritten : \E s \in Calls : given[s].cached /\ given[s].from = x

Lending == RewrittenAfterHit /\ OnlyHitsShareTheirDict

\* A reply that was a hit stays what it is, and only a hit can be of a dict
\* that was changed before.
Steady ==
    /\ \A s \in Calls : given[s].cached => given'[s] = given[s]
    /\ \A s \in Calls : given'[s].changed =>
            \/ given'[s] = given[s]
            \/ ~given[s].cached /\ given'[s].from \in rewritten

LEMMA ReturnSteady ==
    ASSUME CPInv, NEW r \in Calls, phase[r] # "returned", NEW from, NEW hit, NEW changed,
           changed => from \in rewritten,
           Return(r, Reply(from, hit, changed))
    PROVE  Steady
<1>1. ~given[r].cached
  BY DEF CPInv, NothingYet, Reply
<1>2. \A s \in Calls : given'[s] = IF s = r THEN Reply(from, hit, changed) ELSE given[s]
  BY DEF CPInv, CPTypes, Return
<1> QED  BY <1>1, <1>2 DEF Steady, Reply

\* Replies come and go, nobody rewrites anything.
LEMMA SteadyLends ==
    ASSUME Lending, Steady, rewritten' = rewritten
    PROVE  Lending'
<1>1. RewrittenAfterHit'
  BY DEF Lending, RewrittenAfterHit, Steady
<1>2. OnlyHitsShareTheirDict'
  <2> SUFFICES ASSUME NEW r \in Calls, given'[r].changed
               PROVE  \E s \in Calls \ {r} : given'[s].cached /\ given'[s].from = given'[r].from
    BY DEF OnlyHitsShareTheirDict
  <2>1. CASE given'[r] = given[r]
    BY <2>1 DEF Lending, OnlyHitsShareTheirDict, Steady
  <2>2. CASE ~given[r].cached /\ given'[r].from \in rewritten
    BY <2>2 DEF Lending, RewrittenAfterHit, Steady
  <2> QED  BY <2>1, <2>2 DEF Steady
<1> QED  BY <1>1, <1>2 DEF Lending

LEMMA StepLends == ASSUME CPInv, Lending, [CPNext]_cpVars PROVE Lending'
<1>1. ASSUME NEW r \in Calls, SubmitHit(r) PROVE Lending'
  <2> DEFINE found == cache[KeyOf[r]]
             changed == found \in rewritten
  <2>1. Return(r, Reply(found, TRUE, changed)) /\ phase[r] # "returned" /\ rewritten' = rewritten
    BY <1>1 DEF SubmitHit
  <2>2. changed => found \in rewritten
    OBVIOUS
  <2> HIDE DEF found, changed
  <2>3. Steady
    BY <2>1, <2>2, ReturnSteady
  <2> QED  BY <2>1, <2>3, SteadyLends
<1>2. ASSUME NEW r \in Calls, Answered(r) \/ Refused(r) PROVE Lending'
  BY <1>2, ReturnSteady, SteadyLends DEF Answered, Refused
<1>3. ASSUME NEW r \in Calls, Rewrite(r) PROVE Lending'
  BY <1>3 DEF Rewrite, Lending, RewrittenAfterHit, OnlyHitsShareTheirDict
<1>4. ASSUME UNCHANGED <<given, rewritten>> PROVE Lending'
  BY <1>4 DEF Lending, RewrittenAfterHit, OnlyHitsShareTheirDict
<1>5. ASSUME NEW r \in Calls, SubmitMiss(r) \/ Abandon(r) PROVE Lending'
  BY <1>4, <1>5 DEF SubmitMiss, Abandon
<1>6. CASE RunPut \/ TimePasses \/ AllDone \/ UNCHANGED cpVars
  BY <1>4, <1>6 DEF RunPut, TimePasses, AllDone, cpVars
<1> QED  BY <1>1, <1>2, <1>3, <1>5, <1>6 DEF CPNext

\* {**result, "cached": True}: the dict a caller computed is its own, and one
\* that has been changed is only ever given out after another call had it from
\* the cache.
THEOREM HitsAloneShare == CPSpec => []OnlyHitsShareTheirDict
<1>1. CPInit => Lending
  BY DEF CPInit, Lending, RewrittenAfterHit, OnlyHitsShareTheirDict, Reply
<1>2. CPInv /\ Lending /\ [CPNext]_cpVars => Lending'
  BY StepLends
<1>3. Lending => OnlyHitsShareTheirDict
  BY DEF Lending
<1> QED  BY <1>1, <1>2, <1>3, CPInvariance, PTL DEF CPSpec

=============================================================================
