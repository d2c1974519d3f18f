-------------------------- MODULE ResultPageProofs --------------------------
(***************************************************************************)
(* The page of results shows the page that was turned to, for any ranking, *)
(* page size, contents and number of overlapping renders: at most one      *)
(* execution of renderPage is not superseded, and it has left exactly the  *)
(* documents that are not shown yet.                                       *)
(***************************************************************************)
EXTENDS ResultPage, SequenceTheorems, FiniteSetTheorems, TLAPS

Results == Range(load.ranked)

Answers(doc, view) == {Payload(doc, view, reached) : reached \in BOOLEAN}

Loaded ==
    /\ page \in Nat /\ renderEpoch \in Nat
    /\ load.ranked \in Seq(Results)
    /\ activeView \in Range(load.views) \union {NoView}
    /\ \A view \in Range(load.views), i \in 1..Len(load.ranked) :
            _fetch_media(load.ranked[i].doc, view) \in Nat

\* What was fetched is kept under its document and view.
DataKept == \A k \in DOMAIN VIEW_DATA : VIEW_DATA[k] \in Answers(k[1], k[2])

CardsRight ==
    /\ cards \in Seq(Range(cards))
    /\ Len(cards) <= Len(Slice(page))
    /\ \A i \in 1..Len(cards) :
        /\ cards[i].doc = Slice(page)[i].doc
        /\ Showable => cards[i].view = activeView /\ cards[i].data \in Answers(cards[i].doc, activeView)

\* A render that is not superseded goes on where the cards end.
OnTrack(r) ==
    /\ r.view = activeView
    /\ r.left \in Seq(Results) /\ r.left # <<>>
    /\ Len(r.left) = Len(Slice(page)) - Len(cards)
    /\ \A i \in 1..Len(r.left) : r.left[i] = Slice(page)[Len(cards) + i]

RendersRight ==
    /\ \A r \in renders :
        /\ r.epoch \in Nat /\ r.epoch <= renderEpoch
        /\ ~r.fetches => <<r.left[1].doc, r.view>> \in DOMAIN VIEW_DATA
        /\ NotSuperseded(r) => OnTrack(r)
    /\ \A r, s \in renders : NotSuperseded(r) /\ NotSuperseded(s) => r = s
    /\ Len(cards) = Len(Slice(page)) \/ \E r \in renders : NotSuperseded(r)

PageInv == Loaded /\ DataKept /\ CardsRight /\ RendersRight

-----------------------------------------------------------------------------
\* Rounding i * b / m, for i no larger than m, does not exceed b.
LEMMA RoundedWithin ==
    ASSUME NEW i \in Nat, NEW b \in Nat, NEW m \in Nat \ {0}, i <= m
    PROVE  RoundedTo(i * b, m) \in 0..b
<1> DEFINE num == i * b
           f == num \div m
           r == num % m
<1>1. num \in Nat /\ num <= m * b
  OBVIOUS
<1> HIDE DEF num
<1>2. f \in Nat /\ r \in 0..m - 1 /\ num = m * f + r
  BY <1>1
<1>3. RoundedTo(num, m) \in {f, f + 1} /\ (r = 0 => RoundedTo(num, m) = f)
  BY <1>2 DEF RoundedTo
<1> HIDE DEF f, r
<1>4. CASE f < b
  BY <1>2, <1>3, <1>4 DEF num
<1>5. CASE f >= b
  <2>1. m * f >= m * b
    BY <1>2, <1>5
  <2>2. m * f \in Nat /\ m * b \in Nat
    BY <1>2
  <2>3. r = 0 /\ m * f = m * b
    BY <1>1, <1>2, <2>1, <2>2
  <2>4. f = b
    BY <1>2, <2>3
  <2> QED  BY <1>2, <1>3, <2>3, <2>4 DEF num
<1> QED  BY <1>2, <1>4, <1>5

\* _evenly_spaced picks positions that exist.
LEMMA EvenlySpacedWithin ==
    ASSUME NEW len \in Nat \ {0}, NEW n \in Int
    PROVE  _evenly_spaced(len, n) \subseteq 0..(len - 1)
<1>1. CASE n >= len \/ n <= 0
  BY <1>1 DEF _evenly_spaced
<1>2. CASE ~(n >= len \/ n <= 0) /\ n = 1
  <2>1. len > 1 /\ len \div 2 \in 0..(len - 1)
    BY <1>2
  <2>2. _evenly_spaced(len, n) = {len \div 2}
    BY <1>2, <2>1 DEF _evenly_spaced
  <2> QED  BY <2>1, <2>2
<1>3. CASE ~(n >= len \/ n <= 0) /\ n # 1
  <2>1. _evenly_spaced(len, n) = {RoundedTo(i * (len - 1), n - 1) : i \in 0..(n - 1)}
    BY <1>3 DEF _evenly_spaced
  <2>2. ASSUME NEW i \in 0..(n - 1) PROVE RoundedTo(i * (len - 1), n - 1) \in 0..(len - 1)
    <3>1. i \in Nat /\ len - 1 \in Nat /\ n - 1 \in Nat \ {0} /\ i <= n - 1
      BY <1>3
    <3> QED  BY <3>1, RoundedWithin
  <2> QED  BY <2>1, <2>2
<1> QED  BY <1>1, <1>2, <1>3

\* Whatever is drawn of a document is a part of it.
LEMMA FramesExist ==
    ASSUME NEW doc, NEW view, NEW data \in Answers(doc, view), _fetch_media(doc, view) \in Nat
    PROVE  data.meta.all \subseteq 0..(_fetch_media(doc, view) - 1)
           /\ data.meta.preview \subseteq 0..(_fetch_media(doc, view) - 1)
<1>1. PICK reached \in BOOLEAN : data = Payload(doc, view, reached)
  BY DEF Answers
<1>2. data.meta = IF reached THEN view_meta(doc, view) ELSE Unavailable
  BY <1>1 DEF Payload
<1>3. CASE data.meta = Unavailable
  BY <1>3 DEF Unavailable
<1>4. CASE data.meta = view_meta(doc, view)
  <2> DEFINE n == _fetch_media(doc, view)
  <2>1. \/ data.meta.all = {} /\ data.meta.preview = {}
        \/ /\ n \in Nat \ {0} /\ data.meta.all = 0..(n - 1)
           /\ data.meta.preview = _evenly_spaced(n, ARGS.frames)
    BY <1>4 DEF view_meta
  <2> HIDE DEF n
  <2>2. CASE /\ n \in Nat \ {0} /\ data.meta.all = 0..(n - 1)
             /\ data.meta.preview = _evenly_spaced(n, ARGS.frames)
    BY <2>2, EvenlySpacedWithin, PageAssumption DEF n
  <2> QED  BY <2>1, <2>2 DEF n
<1> QED  BY <1>2, <1>3, <1>4

-----------------------------------------------------------------------------
\* The slice of a page is a sequence of results, and the first is not empty
\* unless the ranking is.
LEMMA SliceType ==
    ASSUME load.ranked \in Seq(Results), NEW n \in Nat
    PROVE  /\ Slice(n) \in Seq(Results) /\ Len(Slice(n)) \in Nat
           /\ n = 0 => (Slice(n) = <<>> <=> load.ranked = <<>>)
           /\ \A i \in 1..Len(Slice(n)) : \E j \in 1..Len(load.ranked) : Slice(n)[i] = load.ranked[j]
<1> DEFINE q == load.ranked
           first == n * PageSize + 1
           last == Min({(n + 1) * PageSize, Len(q)})
<1>1. /\ Len(q) \in Nat /\ DOMAIN q = 1..Len(q) /\ PageSize \in Nat \ {0}
      /\ \A i \in 1..Len(q) : q[i] \in Results
  BY LenProperties, ElementOfSeq, PageAssumption
<1>2. n * PageSize \in Nat /\ (n + 1) * PageSize \in Nat
  BY <1>1
<1>3. last \in Nat /\ last <= Len(q) /\ last \in {(n + 1) * PageSize, Len(q)}
  <2>1. \A a, b \in Nat : Min({a, b}) \in {a, b} /\ Min({a, b}) <= a /\ Min({a, b}) <= b
    <3> SUFFICES ASSUME NEW a \in Nat, NEW b \in Nat
                 PROVE  Min({a, b}) \in {a, b} /\ Min({a, b}) <= a /\ Min({a, b}) <= b
      OBVIOUS
    <3>1. \E x \in {a, b} : \A y \in {a, b} : x <= y
      <4>1. CASE a <= b
        BY <4>1
      <4>2. CASE b <= a
        BY <4>2
      <4> QED  BY <4>1, <4>2
    <3> QED  BY <3>1 DEF Min
  <2> HIDE DEF q
  <2> QED  BY <1>1, <1>2, <2>1
<1>4. first \in Int /\ last \in Int /\ first >= 1 /\ \A i \in first..last : i \in 1..Len(q)
  <2>1. first \in Int /\ first >= 1
    BY <1>2
  <2>2. last \in Nat /\ last <= Len(q) /\ Len(q) \in Nat
    BY <1>1, <1>3
  <2> HIDE DEF first, last, q
  <2> QED  BY <2>1, <2>2
<1>5. Slice(n) = SubSeq(q, first, last)
  BY DEF Slice
<1> HIDE DEF q, first, last
<1>6. /\ Slice(n) \in Seq(Results)
      /\ Len(Slice(n)) = IF first <= last THEN last - first + 1 ELSE 0
      /\ \A i \in 1..last - first + 1 : Slice(n)[i] = q[first + i - 1]
  <2>1. \A i \in first..last : q[i] \in Results
    BY <1>1, <1>4
  <2> QED  BY <1>4, <1>5, <2>1, SubSeqProperties
<1>7. ASSUME n = 0 PROVE Slice(n) = <<>> <=> q = <<>>
  <2>1. first = 1 /\ last \in {PageSize, Len(q)}
    <3>1. n * PageSize = 0 /\ (n + 1) * PageSize = PageSize
      BY <1>1, <1>7
    <3> QED  BY <1>3, <3>1 DEF first
  <2>2. q \in Seq(Results)
    BY DEF q
  <2>3. q = <<>> <=> Len(q) = 0
    BY <2>2, EmptySeq
  <2>4. Slice(n) = <<>> <=> Len(Slice(n)) = 0
    BY <1>6, EmptySeq
  <2>5. Len(Slice(n)) = 0 <=> last = 0
    BY <1>3, <1>6, <2>1
  <2>6. last = 0 <=> Len(q) = 0
    <3>1. PageSize \in Nat \ {0} /\ Len(q) \in Nat /\ last \in Nat /\ last <= Len(q)
      BY <1>1, <1>3
    <3> QED  BY <2>1, <3>1
  <2> QED  BY <2>3, <2>4, <2>5, <2>6
<1>8. ASSUME NEW i \in 1..Len(Slice(n))
      PROVE  \E j \in 1..Len(q) : Slice(n)[i] = q[j]
  <2>1. first + i - 1 \in 1..Len(q) /\ i \in 1..last - first + 1
    BY <1>4, <1>6
  <2> QED  BY <1>6, <2>1
<1>9. Len(Slice(n)) \in Nat
  BY <1>6, LenProperties
<1> QED  BY <1>6, <1>7, <1>8, <1>9 DEF q

LEMMA InOrderIsSeq ==
    ASSUME NEW X, Cardinality(X) \in Nat
    PROVE  InOrder(X) \in Seq({InOrder(X)[i] : i \in 1..Cardinality(X)})
<1> DEFINE e(i) == CHOOSE x \in X : Cardinality({y \in X : Position(y) < Position(x)}) = i - 1
           S == {InOrder(X)[i] : i \in 1..Cardinality(X)}
<1>1. InOrder(X) = [i \in 1..Cardinality(X) |-> e(i)]
  BY DEF InOrder
<1> HIDE DEF e
<1>2. \A i \in 1..Cardinality(X) : e(i) = InOrder(X)[i]
  BY <1>1
<1>3. \A i \in 1..Cardinality(X) : e(i) \in S
  BY <1>2
<1> HIDE DEF S
<1>4. [i \in 1..Cardinality(X) |-> e(i)] \in Seq(S)
  BY <1>3, IsASeq
<1> QED  BY <1>1, <1>4 DEF S

\* The order of the views is a sequence, of however many views.
LEMMA ViewOrderIsSeq ==
    ASSUME NEW info, IsFiniteSet(DOMAIN info.views)
    PROVE  /\ Len(view_order(info)) \in Nat
           /\ DOMAIN view_order(info) = 1..Len(view_order(info))
           /\ view_order(info) = <<>> \/ 1 \in DOMAIN view_order(info)
<1> DEFINE views == DOMAIN info.views
           media == IF _media_view(info) = NoView THEN <<>> ELSE <<_media_view(info)>>
           video == IF "video" \in views /\ _media_view(info) # "video" THEN <<"video">> ELSE <<>>
           head == media \o video
           rest == views \ Range(head)
           others == InOrder(rest)
           S == {_media_view(info), "video"} \union {others[i] : i \in 1..Cardinality(rest)}
<1>1. view_order(info) = head \o others
  BY DEF view_order
<1>2. media \in Seq(S) /\ video \in Seq(S)
  <2>1. _media_view(info) \in S /\ "video" \in S
    OBVIOUS
  <2> HIDE DEF S
  <2>2. <<>> \in Seq(S) /\ \A x \in S : <<x>> \in Seq(S)
    BY EmptySeq
  <2> QED  BY <2>1, <2>2
<1>4. head \in Seq(S)
  <2> HIDE DEF media, video, S
  <2> QED  BY <1>2, ConcatProperties
<1>5. Cardinality(rest) \in Nat
  <2>1. rest \in SUBSET views /\ IsFiniteSet(views)
    OBVIOUS
  <2> HIDE DEF rest, views
  <2> QED  BY <2>1, FS_Subset, FS_CardinalityType
<1>6. others \in Seq(S)
  <2>1. {others[i] : i \in 1..Cardinality(rest)} \subseteq S
    OBVIOUS
  <2> HIDE DEF S, rest
  <2>2. others \in Seq({others[i] : i \in 1..Cardinality(rest)})
    BY <1>5, InOrderIsSeq
  <2> HIDE DEF others
  <2> QED  BY <2>1, <2>2, SeqMonotonic
<1> HIDE DEF head, others, S
<1>7. view_order(info) \in Seq(S)
  BY <1>1, <1>4, <1>6, ConcatProperties
<1> QED  BY <1>7, LenProperties, EmptySeq

\* A list put together item by item.
LEMMA MadeFrom ==
    ASSUME NEW f, NEW n \in Nat, DOMAIN f = 1..n, f = [i \in 1..n |-> f[i]]
    PROVE  Made(f) = f /\ f \in Seq({f[i] : i \in 1..n})
<1> DEFINE X == {f[i] : i \in 1..n}
<1>1. \A i \in 1..n : f[i] \in X
  OBVIOUS
<1> HIDE DEF X
<1>2. [i \in 1..n |-> f[i]] \in Seq(X)
  BY <1>1, IsASeq
<1>3. f \in Seq(X) /\ Len(f) = n
  BY <1>2, LenProperties
<1>4. SubSeq(f, 1, n) = f
  BY <1>3
<1> QED  BY <1>3, <1>4 DEF Made, X

LEMMA SortedIsList ==
    ASSUME NEW scores, NEW n \in Nat, DOMAIN scores = 1..n
    PROVE  DOMAIN Sorted(scores) = 1..n /\ Sorted(scores) = [i \in 1..n |-> Sorted(scores)[i]]
<1> DEFINE order == ListBy(1..n, {p \in (1..n) \X (1..n) : Before(scores, p[1], p[2])})
           s == [r \in 1..n |-> scores[order[r]]]
<1> HIDE DEF order
<1>1. Sorted(scores) = Made(s)
  BY DEF Sorted, Arranged, order
<1>2. DOMAIN s = 1..n /\ s = [i \in 1..n |-> s[i]]
  OBVIOUS
<1> HIDE DEF s
<1>3. Made(s) = s
  BY <1>2, MadeFrom
<1> QED  BY <1>1, <1>2, <1>3

LEMMA InitPageInv == ASSUME PageInit PROVE PageInv
<1>1. PICK url \in PageRequests, avail \in Answered, works \in BOOLEAN :
          load = PageFor(url, avail, works) /\ activeView = InitialView(url, load)
  BY DEF PageInit
<1>2. load.ranked \in Seq(Results)
  <2>1. CASE load.ranked = <<>>
    BY <2>1, EmptySeq
  <2>2. CASE load.ranked # <<>>
    <3> DEFINE scores == Rankings[load.pipeline]
    <3>1. load.ranked = Sorted(scores)
      BY <1>1, <2>2 DEF PageFor
    <3>2. load.pipeline \in DOMAIN Rankings
      BY <1>1, <2>2, PageAssumption
    <3>3. scores \in Seq({scores[i] : i \in DOMAIN scores})
      BY <3>2, PageAssumption
    <3>4. DOMAIN scores = 1..Len(scores) /\ Len(scores) \in Nat
      BY <3>3, LenProperties
    <3> HIDE DEF scores
    <3>5. load.ranked = [i \in 1..Len(scores) |-> load.ranked[i]]
      BY <3>1, <3>4, SortedIsList
    <3>6. \A i \in 1..Len(scores) : load.ranked[i] \in Results
      <4>1. DOMAIN load.ranked = 1..Len(scores)
        BY <3>1, <3>4, SortedIsList
      <4> QED  BY <4>1 DEF Range, Results
    <3> DEFINE r == load.ranked
    <3> HIDE DEF r
    <3>7. [i \in 1..Len(scores) |-> r[i]] \in Seq(Results)
      BY <3>4, <3>6, IsASeq DEF r
    <3> QED  BY <3>5, <3>7 DEF r
  <2> QED  BY <2>1, <2>2
<1>3. activeView \in Range(load.views) \union {NoView}
  <2>1. PICK info : load.views = view_order(info) /\ IsFiniteSet(DOMAIN info.views)
    <3> DEFINE c == Chosen(url.collection, ARGS.collection, DOMAIN avail.collection, "")
               info == IF c \in DOMAIN avail.collection THEN avail.collection[c] ELSE NoViews
    <3>1. load.views = view_order(info)
      BY <1>1 DEF PageFor
    <3>2. CASE c \in DOMAIN avail.collection
      <4> HIDE DEF c
      <4>1. avail = Avail
        BY <3>2 DEF Answered
      <4> QED  BY <3>1, <3>2, <4>1, PageAssumption
    <3>3. CASE c \notin DOMAIN avail.collection
      <4>1. DOMAIN info.views = {}
        <5> HIDE DEF c
        <5> QED  BY <3>3 DEF NoViews
      <4> HIDE DEF info
      <4> QED  BY <3>1, <4>1, FS_EmptySet
    <3> QED  BY <3>2, <3>3
  <2>2. load.views = <<>> \/ load.views[1] \in Range(load.views)
    BY <2>1, ViewOrderIsSeq DEF Range
  <2> QED  BY <1>1, <2>2 DEF InitialView
<1>4. \A view \in Range(load.views), i \in 1..Len(load.ranked) :
          _fetch_media(load.ranked[i].doc, view) \in Nat
  <2>1. \A view \in Range(load.views), i \in DOMAIN load.ranked :
            _fetch_media(load.ranked[i].doc, view) \in Nat
    BY <1>1, PageAssumption
  <2>2. DOMAIN load.ranked = 1..Len(load.ranked)
    BY <1>2, LenProperties
  <2> QED  BY <2>1, <2>2
<1>5. Loaded
  BY <1>2, <1>3, <1>4 DEF PageInit, Loaded
<1>6. /\ Slice(page) \in Seq(Results) /\ Len(Slice(page)) \in Nat
      /\ Slice(page) = <<>> <=> load.ranked = <<>>
  BY <1>2, SliceType DEF PageInit
<1>7. DataKept
  BY DEF PageInit, DataKept
<1>8. cards = <<>> /\ Len(cards) = 0 /\ CardsRight
  BY <1>6, EmptySeq DEF PageInit, CardsRight
<1>9. RendersRight
  <2>1. CASE load.ranked = <<>>
    <3>1. renders = {} /\ Len(Slice(page)) = 0
      BY <1>6, <2>1, EmptySeq DEF PageInit
    <3> QED  BY <1>8, <3>1 DEF RendersRight
  <2>2. CASE load.ranked # <<>>
    <3> DEFINE r == [epoch |-> 1, left |-> Slice(page), view |-> activeView, fetches |-> TRUE]
    <3>1. renders = {r} /\ renderEpoch = 1
      BY <2>2 DEF PageInit
    <3>2. r.epoch = 1 /\ r.left = Slice(page) /\ r.view = activeView /\ r.fetches = TRUE
      OBVIOUS
    <3> HIDE DEF r
    <3>3. OnTrack(r)
      BY <1>6, <1>8, <2>2, <3>2 DEF OnTrack
    <3> QED  BY <3>1, <3>2, <3>3 DEF RendersRight, NotSuperseded
  <2> QED  BY <2>1, <2>2
<1> QED  BY <1>5, <1>7, <1>8, <1>9 DEF PageInv

-----------------------------------------------------------------------------
\* renderPage forgets the cards, and no render that was under way counts.
LEMMA RenderPageKeeps ==
    ASSUME PageInv, NEW n \in Nat, NEW view \in Range(load.views) \union {NoView},
           RenderPage(n, view), load' = load, page' = n, activeView' = view, VIEW_DATA' = VIEW_DATA
    PROVE  PageInv'
<1> DEFINE e == renderEpoch + 1
<1>1. /\ cards' = <<>> /\ renderEpoch' = e /\ e \in Nat /\ e = renderEpoch + 1 /\ renderEpoch \in Nat
      /\ renders' = renders \union Awaiting(e, Slice(n), view)
  BY DEF RenderPage, PageInv, Loaded
<1> HIDE DEF e
<1>2. /\ Slice(n) \in Seq(Results) /\ Len(Slice(n)) \in Nat /\ Slice(page)' = Slice(n)
      /\ Results' = Results
  BY SliceType DEF PageInv, Loaded, Slice, Results
<1>3. Loaded'
  BY <1>1, <1>2 DEF PageInv, Loaded
<1>4. DataKept'
  BY DEF PageInv, DataKept, Answers, Payload
<1>5. Len(cards') = 0 /\ CardsRight'
  BY <1>1, <1>2, EmptySeq DEF CardsRight
<1>6. \A r \in renders : r.epoch \in Nat /\ r.epoch < e /\ r.epoch # renderEpoch'
  <2>1. \A r \in renders : r.epoch \in Nat /\ r.epoch <= renderEpoch
    BY DEF PageInv, RendersRight
  <2> QED  BY <1>1, <2>1
<1>7. CASE Slice(n) = <<>>
  <2>1. renders' = renders /\ Len(Slice(n)) = 0
    BY <1>1, <1>2, <1>7, EmptySeq DEF Awaiting
  <2>2. RendersRight'
    BY <1>1, <1>2, <1>5, <1>6, <2>1 DEF PageInv, RendersRight, NotSuperseded
  <2> QED  BY <1>3, <1>4, <1>5, <2>2 DEF PageInv
<1>8. CASE Slice(n) # <<>>
  <2>0. PICK new : new = [epoch |-> e, left |-> Slice(n), view |-> view,
                          fetches |-> <<Slice(n)[1].doc, view>> \notin DOMAIN VIEW_DATA]
    OBVIOUS
  <2>1. renders' = renders \union {new}
    BY <1>1, <1>8, <2>0 DEF Awaiting
  <2>2. /\ new.epoch = e /\ new.left = Slice(n) /\ new.view = view
        /\ ~new.fetches => <<Slice(n)[1].doc, view>> \in DOMAIN VIEW_DATA
    BY <2>0
  <2>3. OnTrack(new)'
    BY <1>1, <1>2, <1>5, <1>8, <2>2 DEF OnTrack
  <2>4. \A r \in renders' : NotSuperseded(r)' => r = new
    BY <1>1, <1>6, <2>1 DEF NotSuperseded
  <2>5. NotSuperseded(new)'
    BY <1>1, <2>2 DEF NotSuperseded
  <2>6. \A r \in renders' : /\ r.epoch \in Nat /\ r.epoch <= renderEpoch'
                            /\ ~r.fetches => <<r.left[1].doc, r.view>> \in DOMAIN VIEW_DATA'
    <3>1. new.epoch \in Nat /\ new.epoch <= renderEpoch'
      BY <1>1, <2>2
    <3>2. ~new.fetches => <<new.left[1].doc, new.view>> \in DOMAIN VIEW_DATA'
      BY <2>2
    <3>3. \A r \in renders : ~r.fetches => <<r.left[1].doc, r.view>> \in DOMAIN VIEW_DATA'
      BY DEF PageInv, RendersRight
    <3>4. \A r \in renders : r.epoch \in Nat /\ r.epoch <= renderEpoch'
      BY <1>1, <1>6
    <3> QED  BY <2>1, <3>1, <3>2, <3>3, <3>4
  <2>7. \A r \in renders' : NotSuperseded(r)' => OnTrack(r)'
    BY <2>3, <2>4 DEF OnTrack
  <2>8. RendersRight'
    <3>1. new \in renders'
      BY <2>1
    <3>2. (\A s, u \in renders : NotSuperseded(s) /\ NotSuperseded(u) => s = u)'
      BY <2>4
    <3>3. (\E s \in renders : NotSuperseded(s))'
      BY <2>5, <3>1
    <3>4. (\A s \in renders : /\ s.epoch \in Nat /\ s.epoch <= renderEpoch
                              /\ ~s.fetches => <<s.left[1].doc, s.view>> \in DOMAIN VIEW_DATA
                              /\ NotSuperseded(s) => OnTrack(s))'
      BY <2>6, <2>7
    <3> QED  BY <3>2, <3>3, <3>4 DEF RendersRight
  <2> QED  BY <1>3, <1>4, <1>5, <2>8 DEF PageInv
<1> QED  BY <1>7, <1>8

\* A card that goes on is the next of the page; a superseded render only ends.
LEMMA ContinueKeeps ==
    ASSUME PageInv, NEW r \in renders, NEW card, Continue(r, card), DataKept',
           DOMAIN VIEW_DATA \subseteq DOMAIN VIEW_DATA',
           card.doc = r.left[1].doc,
           NotSuperseded(r) /\ Showable =>
               card.view = activeView /\ card.data \in Answers(card.doc, activeView)
    PROVE  PageInv'
<1>1. UNCHANGED <<load, page, activeView, renderEpoch>>
  BY DEF Continue
<1>2. Slice(page)' = Slice(page) /\ Showable' = Showable /\ Results' = Results
  BY <1>1 DEF Slice, Showable, Results
<1>3. Loaded' /\ \A s : NotSuperseded(s)' = NotSuperseded(s)
  BY <1>1, <1>2 DEF PageInv, Loaded, NotSuperseded
<1>4. Slice(page) \in Seq(Results) /\ Len(Slice(page)) \in Nat /\ Len(cards) \in Nat
  BY SliceType, LenProperties DEF PageInv, Loaded, CardsRight
<1>5. CASE ~NotSuperseded(r)
  <2>1. cards' = cards /\ renders' = renders \ {r}
    BY <1>5 DEF Continue
  <2>2. CardsRight'
    BY <1>1, <1>2, <2>1 DEF PageInv, CardsRight, Answers, Payload
  <2>3. \A s : OnTrack(s)' = OnTrack(s)
    BY <1>1, <1>2, <2>1 DEF OnTrack
  <2>4. RendersRight'
    BY <1>1, <1>2, <1>3, <1>5, <2>1, <2>3 DEF PageInv, RendersRight
  <2> QED  BY <1>3, <2>2, <2>4 DEF PageInv
<1>6. CASE NotSuperseded(r)
  <2>1. /\ cards' = Append(cards, card)
        /\ renders' = (renders \ {r}) \union Awaiting(r.epoch, Tail(r.left), activeView)
    BY <1>6 DEF Continue
  <2>2. OnTrack(r) /\ r.epoch = renderEpoch /\ r.epoch \in Nat
    BY <1>6 DEF PageInv, RendersRight, NotSuperseded
  <2>3. \A s \in renders \ {r} : ~NotSuperseded(s)
    BY <1>6 DEF PageInv, RendersRight
  <2> DEFINE n == Len(cards)
             rest == Tail(r.left)
  <2>4. /\ Len(r.left) \in Nat \ {0} /\ Len(r.left) = Len(Slice(page)) - n
        /\ r.left[1] = Slice(page)[n + 1]
        /\ \A i \in 1..Len(r.left) : r.left[i] = Slice(page)[n + i]
    <3>1. Len(r.left) \in Nat \ {0}
      BY <2>2, EmptySeq DEF OnTrack
    <3>2. /\ Len(r.left) = Len(Slice(page)) - n
          /\ \A i \in 1..Len(r.left) : r.left[i] = Slice(page)[n + i]
      BY <2>2 DEF OnTrack
    <3>3. 1 \in 1..Len(r.left)
      BY <3>1
    <3> QED  BY <3>1, <3>2, <3>3
  <2>5. /\ rest \in Seq(Results) /\ Len(rest) = Len(r.left) - 1
        /\ \A i \in 1..Len(rest) : rest[i] = r.left[i + 1]
    BY <2>2, HeadTailProperties DEF OnTrack
  <2>6. /\ cards' \in Seq(Range(cards) \union {card}) /\ Len(cards') = n + 1
        /\ \A i \in 1..n : cards'[i] = cards[i]
        /\ cards'[n + 1] = card
    <3>1. cards \in Seq(Range(cards) \union {card}) /\ card \in Range(cards) \union {card}
      BY SeqMonotonic DEF PageInv, CardsRight
    <3> QED  BY <2>1, <3>1, AppendProperties
  <2> HIDE DEF n, rest
  <2>7. CardsRight'
    <3>1. cards' \in Seq(Range(cards'))
      BY <2>6, SeqOfRange
    <3>2. Len(cards') <= Len(Slice(page)) /\ n \in Nat
      BY <1>4, <2>4, <2>6 DEF n
    <3>3. ASSUME NEW i \in 1..Len(cards')
          PROVE  /\ cards'[i].doc = Slice(page)[i].doc
                 /\ Showable => /\ cards'[i].view = activeView
                                /\ cards'[i].data \in Answers(cards'[i].doc, activeView)
      <4>1. CASE i \in 1..n
        BY <2>6, <4>1 DEF PageInv, CardsRight, n
      <4>2. CASE i = n + 1
        BY <1>6, <2>4, <2>6, <4>2
      <4> QED  BY <2>6, <3>2, <4>1, <4>2
    <3>4. \A doc, view : Answers(doc, view)' = Answers(doc, view)
      BY DEF Answers, Payload
    <3>5. Range(cards)' = Range(cards')
      BY DEF Range
    <3> QED  BY <1>1, <1>2, <3>1, <3>2, <3>3, <3>4, <3>5 DEF CardsRight
  <2>8. CASE rest = <<>>
    <3>1. renders' = renders \ {r} /\ Len(rest) = 0
      BY <2>1, <2>8, EmptySeq DEF Awaiting, rest
    <3>2. Len(cards') = Len(Slice(page))
      BY <1>4, <2>4, <2>5, <2>6, <3>1 DEF n
    <3>3. RendersRight'
      BY <1>1, <1>2, <1>3, <2>3, <3>1, <3>2 DEF PageInv, RendersRight
    <3> QED  BY <1>3, <2>7, <3>3 DEF PageInv
  <2>9. CASE rest # <<>>
    <3>0. PICK new : new = [epoch |-> r.epoch, left |-> rest, view |-> activeView,
                            fetches |-> <<rest[1].doc, activeView>> \notin DOMAIN VIEW_DATA]
      OBVIOUS
    <3>1. renders' = (renders \ {r}) \union {new}
      BY <2>1, <2>9, <3>0 DEF Awaiting, rest
    <3>2. /\ new.epoch = r.epoch /\ new.left = rest /\ new.view = activeView
          /\ ~new.fetches => <<rest[1].doc, activeView>> \in DOMAIN VIEW_DATA
      BY <3>0
    <3>3. OnTrack(new)'
      <4>1. Len(rest) = Len(Slice(page)) - Len(cards') /\ n \in Nat
        BY <1>4, <2>4, <2>5, <2>6 DEF n
      <4>2. \A i \in 1..Len(rest) : rest[i] = Slice(page)[Len(cards') + i]
        <5> SUFFICES ASSUME NEW i \in 1..Len(rest) PROVE rest[i] = Slice(page)[Len(cards') + i]
          OBVIOUS
        <5>1. Len(r.left) \in Nat /\ Len(rest) = Len(r.left) - 1 /\ n \in Nat /\ i \in Nat
          BY <2>4, <2>5, <4>1
        <5>2. i + 1 \in 1..Len(r.left) /\ n + (i + 1) = (n + 1) + i
          BY <5>1
        <5> QED  BY <2>4, <2>5, <2>6, <5>2
      <4> QED  BY <1>1, <1>2, <2>5, <2>9, <3>2, <4>1, <4>2 DEF OnTrack
    <3>4. \A s \in renders' : NotSuperseded(s)' => s = new
      BY <1>3, <2>3, <3>1
    <3>5. NotSuperseded(new)'
      BY <1>1, <2>2, <3>2 DEF NotSuperseded
    <3>6. \A s \in renders' : /\ s.epoch \in Nat /\ s.epoch <= renderEpoch'
                              /\ ~s.fetches => <<s.left[1].doc, s.view>> \in DOMAIN VIEW_DATA'
      <4>1. new.epoch \in Nat /\ new.epoch <= renderEpoch'
        BY <1>1, <2>2, <3>2
      <4>2. ~new.fetches => <<new.left[1].doc, new.view>> \in DOMAIN VIEW_DATA'
        BY <3>2
      <4> QED  BY <1>1, <3>1, <4>1, <4>2 DEF PageInv, RendersRight
    <3>7. \A s \in renders' : NotSuperseded(s)' => OnTrack(s)'
      BY <3>3, <3>4 DEF OnTrack
    <3>8. RendersRight'
      <4>1. new \in renders'
        BY <3>1
      <4>2. (\A s, u \in renders : NotSuperseded(s) /\ NotSuperseded(u) => s = u)'
        BY <3>4
      <4>3. (\E s \in renders : NotSuperseded(s))'
        BY <3>5, <4>1
      <4>4. (\A s \in renders : /\ s.epoch \in Nat /\ s.epoch <= renderEpoch
                                /\ ~s.fetches => <<s.left[1].doc, s.view>> \in DOMAIN VIEW_DATA
                                /\ NotSuperseded(s) => OnTrack(s))'
        BY <3>6, <3>7
      <4> QED  BY <4>2, <4>3, <4>4 DEF RendersRight
    <3> QED  BY <1>3, <2>7, <3>8 DEF PageInv
  <2> QED  BY <2>8, <2>9
<1> QED  BY <1>5, <1>6

LEMMA ToggleKeeps ==
    ASSUME PageInv, NEW i \in DOMAIN cards, Toggle(i)
    PROVE  PageInv'
<1>1. /\ cards' = [cards EXCEPT ![i].all = ~@]
      /\ UNCHANGED <<load, page, activeView, VIEW_DATA, renderEpoch, renders>>
  BY DEF Toggle
<1>2. Slice(page)' = Slice(page) /\ Showable' = Showable /\ Results' = Results
  BY <1>1 DEF Slice, Showable, Results
<1>3. /\ cards \in Seq(Range(cards)) /\ Len(cards) \in Nat /\ DOMAIN cards = 1..Len(cards)
  BY LenProperties DEF PageInv, CardsRight
<1> DEFINE new == [cards[i] EXCEPT !.all = ~@]
<1>4. cards' = [cards EXCEPT ![i] = new]
  BY <1>1
<1>5. cards' \in Seq(Range(cards) \union {new}) /\ Len(cards') = Len(cards)
  <2>1. cards \in Seq(Range(cards) \union {new})
    BY <1>3, SeqMonotonic
  <2> HIDE DEF new
  <2> QED  BY <1>3, <1>4, <2>1, ExceptSeq
<1>6. \A j \in 1..Len(cards) : /\ cards'[j].doc = cards[j].doc /\ cards'[j].view = cards[j].view
                               /\ cards'[j].data = cards[j].data
  BY <1>3, <1>4
<1>7. CardsRight'
  <2>1. cards' \in Seq(Range(cards')) /\ Range(cards)' = Range(cards')
    BY <1>5, SeqOfRange DEF Range
  <2>2. \A doc, view : Answers(doc, view)' = Answers(doc, view)
    BY DEF Answers, Payload
  <2> QED  BY <1>1, <1>2, <1>5, <1>6, <2>1, <2>2 DEF PageInv, CardsRight
<1>8. Loaded' /\ DataKept'
  BY <1>1, <1>2 DEF PageInv, Loaded, DataKept, Answers, Payload
<1>9. RendersRight'
  BY <1>1, <1>2, <1>5 DEF PageInv, RendersRight, OnTrack, NotSuperseded
<1> QED  BY <1>7, <1>8, <1>9 DEF PageInv

LEMMA NothingToShowKeeps ==
    ASSUME PageInv, NEW r \in renders, NothingToShow(r)
    PROVE  PageInv'
<1> DEFINE card == NoCollection(r.left[1].doc)
<1>1. ~Showable /\ Continue(r, card) /\ VIEW_DATA' = VIEW_DATA
  BY DEF NothingToShow
<1>2. card.doc = r.left[1].doc
  BY DEF NoCollection
<1>3. DataKept'
  BY <1>1 DEF PageInv, DataKept, Answers, Payload
<1> HIDE DEF card
<1> QED  BY <1>1, <1>2, <1>3, ContinueKeeps

LEMMA FromCacheKeeps ==
    ASSUME PageInv, NEW r \in renders, FromCache(r)
    PROVE  PageInv'
<1> DEFINE doc == r.left[1].doc
           data == VIEW_DATA[<<doc, r.view>>]
           card == buildViewNode(doc, activeView, data)
<1>1. ~r.fetches /\ Continue(r, card) /\ VIEW_DATA' = VIEW_DATA
  BY DEF FromCache
<1>2. card.doc = doc /\ card.view = activeView /\ card.data = data
  BY DEF buildViewNode
<1>3. data \in Answers(doc, r.view)
  <2>1. <<doc, r.view>> \in DOMAIN VIEW_DATA
    BY <1>1 DEF PageInv, RendersRight
  <2> DEFINE k == <<doc, r.view>>
  <2>2. k[1] = doc /\ k[2] = r.view /\ VIEW_DATA[k] \in Answers(k[1], k[2])
    BY <2>1 DEF PageInv, DataKept
  <2> QED  BY <2>2
<1>4. NotSuperseded(r) => r.view = activeView
  BY DEF PageInv, RendersRight, OnTrack
<1>5. DataKept'
  BY <1>1 DEF PageInv, DataKept, Answers, Payload
<1> HIDE DEF card, data
<1> QED  BY <1>1, <1>2, <1>3, <1>4, <1>5, ContinueKeeps

LEMMA ArrivesKeeps ==
    ASSUME PageInv, NEW r \in renders, NEW reached \in BOOLEAN, Arrives(r, reached)
    PROVE  PageInv'
<1> DEFINE doc == r.left[1].doc
           data == Payload(doc, r.view, reached)
           key == <<doc, r.view>>
           card == buildViewNode(doc, activeView, data)
<1>1. /\ VIEW_DATA' = [k \in DOMAIN VIEW_DATA \union {key} |->
                          IF k = key THEN data ELSE VIEW_DATA[k]]
      /\ Continue(r, card)
  BY DEF Arrives
<1>2. card.doc = doc /\ card.view = activeView /\ card.data = data
  BY DEF buildViewNode
<1>3. data \in Answers(doc, r.view) /\ key[1] = doc /\ key[2] = r.view
  BY DEF Answers
<1>4. NotSuperseded(r) => r.view = activeView
  BY DEF PageInv, RendersRight, OnTrack
<1>5. \A d, view : Answers(d, view)' = Answers(d, view)
  BY DEF Answers, Payload
<1> HIDE DEF card, data, key
<1>6. DataKept' /\ DOMAIN VIEW_DATA \subseteq DOMAIN VIEW_DATA'
  BY <1>1, <1>3, <1>5 DEF PageInv, DataKept
<1> QED  BY <1>1, <1>2, <1>3, <1>4, <1>6, ContinueKeeps

LEMMA StepPageInv ==
    ASSUME PageInv, [PageNext]_pageVars
    PROVE  PageInv'
<1>1. CASE UNCHANGED pageVars
  <2>1. UNCHANGED <<load, page, activeView, VIEW_DATA, renderEpoch, renders, cards>>
    BY <1>1 DEF pageVars
  <2>2. /\ Slice(page)' = Slice(page) /\ Showable' = Showable /\ Results' = Results
        /\ Range(cards)' = Range(cards)
        /\ \A doc, view : Answers(doc, view)' = Answers(doc, view)
    BY <2>1 DEF Slice, Showable, Results, Range, Answers, Payload
  <2>3. Loaded' /\ DataKept' /\ CardsRight'
    BY <2>1, <2>2 DEF PageInv, Loaded, DataKept, CardsRight
  <2>4. RendersRight'
    BY <2>1, <2>2 DEF PageInv, RendersRight, OnTrack, NotSuperseded
  <2> QED  BY <2>3, <2>4 DEF PageInv
<1>2. ASSUME NEW n \in 0..(nPages - 1), TurnTo(n) PROVE PageInv'
  <2>1. n \in Nat
    OBVIOUS
  <2>2. /\ RenderPage(n, activeView) /\ page' = n /\ load' = load /\ activeView' = activeView
        /\ VIEW_DATA' = VIEW_DATA
    BY <1>2 DEF TurnTo
  <2>3. activeView \in Range(load.views) \union {NoView}
    BY DEF PageInv, Loaded
  <2> QED  BY <2>1, <2>2, <2>3, RenderPageKeeps
<1>3. ASSUME NEW view \in Range(load.views), SwitchTo(view) PROVE PageInv'
  <2>1. /\ RenderPage(page, view) /\ page' = page /\ load' = load /\ activeView' = view
        /\ VIEW_DATA' = VIEW_DATA
    BY <1>3 DEF SwitchTo
  <2>2. page \in Nat
    BY DEF PageInv, Loaded
  <2> QED  BY <2>1, <2>2, RenderPageKeeps
<1>4. ASSUME NEW r \in renders,
             NothingToShow(r) \/ FromCache(r) \/ \E reached \in BOOLEAN : Arrives(r, reached)
      PROVE  PageInv'
  BY <1>4, NothingToShowKeeps, FromCacheKeeps, ArrivesKeeps
<1>5. ASSUME NEW i \in DOMAIN cards, Toggle(i) PROVE PageInv'
  BY <1>5, ToggleKeeps
<1> QED  BY <1>1, <1>2, <1>3, <1>4, <1>5 DEF PageNext

-----------------------------------------------------------------------------
\* At most one execution of renderPage in scripts/webui.py is not superseded; it
\* is in the active view and has left the results of the page after those that
\* have a card, so that the cards of two executions never mix.
THEOREM PageInvariance == PageSpec => []PageInv
<1>1. PageInit => PageInv
  BY InitPageInv
<1>2. PageInv /\ [PageNext]_pageVars => PageInv'
  BY StepPageInv
<1> QED  BY <1>1, <1>2, PTL DEF PageSpec

\* The page shows the first results of the page that was turned to, each with
\* its own content in the active view, and only frames that exist, whatever the
\* order of turns, tab switches and arrivals, and however many renders overlap.
THEOREM PageIsTheChosenOne == PageSpec => []ShowsTheChosenPage
<1>1. PageInv => ShowsTheChosenPage
  <2>1. SUFFICES ASSUME PageInv PROVE ShowsTheChosenPage
    OBVIOUS
  <2>2. /\ DOMAIN cards = 1..Len(cards) /\ Len(cards) \in Nat /\ Len(cards) <= Len(Slice(page))
        /\ Len(Slice(page)) \in Nat
    BY <2>1, LenProperties, SliceType DEF PageInv, Loaded, CardsRight
  <2>3. ASSUME NEW i \in 1..Len(cards)
        PROVE  /\ cards[i].doc = Slice(page)[i].doc
               /\ Showable => /\ cards[i].view = activeView
                              /\ cards[i].data \in Answers(cards[i].doc, activeView)
                              /\ Frames(cards[i]) \subseteq 0..(_fetch_media(cards[i].doc, activeView) - 1)
    <3>1. /\ cards[i].doc = Slice(page)[i].doc
          /\ Showable => /\ cards[i].view = activeView
                         /\ cards[i].data \in Answers(cards[i].doc, activeView)
      BY <2>1 DEF PageInv, CardsRight
    <3>2. PICK j \in 1..Len(load.ranked) : Slice(page)[i] = load.ranked[j]
      <4>1. i \in 1..Len(Slice(page))
        BY <2>2
      <4> QED  BY <2>1, <4>1, SliceType DEF PageInv, Loaded
    <3>3. ASSUME Showable
          PROVE  Frames(cards[i]) \subseteq 0..(_fetch_media(cards[i].doc, activeView) - 1)
      <4>1. activeView \in Range(load.views)
        BY <2>1, <3>3 DEF PageInv, Loaded, Showable
      <4>2. _fetch_media(cards[i].doc, activeView) \in Nat
        BY <2>1, <3>1, <3>2, <4>1 DEF PageInv, Loaded
      <4>3. Frames(cards[i]) \in {cards[i].data.meta.all, cards[i].data.meta.preview}
        BY DEF Frames
      <4> QED  BY <3>1, <3>3, <4>2, <4>3, FramesExist
    <3> QED  BY <3>1, <3>3
  <2>4. renders = {} => Len(cards) = Len(Slice(page))
    BY <2>1 DEF PageInv, RendersRight
  <2> QED  BY <2>2, <2>3, <2>4 DEF ShowsTheChosenPage, Answers
<1> QED  BY <1>1, PageInvariance, PTL

=============================================================================
