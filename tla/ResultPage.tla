----------------------------- MODULE ResultPage -----------------------------
(***************************************************************************)
(* scripts/webui.py: the page of results.  index_page runs the pipeline    *)
(* and bakes the ranking into the page (Load); from then on the page is    *)
(* driven by its reader, who turns pages and switches views, while the     *)
(* cards are put in one by one as the content of each document arrives.    *)
(* Several executions of renderPage overlap: each is a record of renders,  *)
(* waiting for the content of the first document it has left.              *)
(*                                                                         *)
(* What RoutIR answers is external: the ranking of a pipeline, /avail and  *)
(* the content of a document, each of which may also fail.                 *)
(***************************************************************************)
EXTENDS Ranking, Functions, FiniteSetsExt

CONSTANTS
    ARGS,           \* [engine, collection, pipeline, frames]: the options of the script
    PageRequests,   \* [q, engine, collection, pipeline, tab]: the URLs of the page
    Avail,          \* [search, collection]: what /avail answers
    Rankings,       \* Rankings[pipeline]: the scores that /pipeline answers
    Contents,       \* Contents[view][doc]: its kind, text or bytes, and what its bytes
                    \* are: their type and the number of parts
    MediaPrefs,     \* the names of views with keyframes, the preferred first
    Alphabet,       \* the names of collections, engines and views, sorted
    PageSize,
    MaxRenders      \* bound on the renders of one page

Unset == "unset"
Custom == "__custom__"
NoView == ""

VARIABLES
    load,           \* what index_page put into the page
    page,
    activeView,
    VIEW_DATA,      \* /view payloads by document and view
    renderEpoch,
    renders,        \* the executions of renderPage that wait for a payload
    cards           \* what the page shows

pageVars == <<load, page, activeView, VIEW_DATA, renderEpoch, renders, cards>>

-----------------------------------------------------------------------------
Position(name) == CHOOSE i \in DOMAIN Alphabet : Alphabet[i] = name

LeastBy(S, Key(_)) == CHOOSE x \in S : \A y \in S : Key(x) <= Key(y)

First(S) == LeastBy(S, Position)

\* A value of the URL, else the option of the script, else the first one offered.
Chosen(given, option, offered, none) ==
    CASE given # Unset -> given
      [] given = Unset /\ option # "" -> option
      [] OTHER -> IF offered = {} THEN none ELSE First(offered)

BytesViews(views) == {v \in DOMAIN views : views[v] = "bytes"}

PrefRank(view) ==
    Min({i \in DOMAIN MediaPrefs : MediaPrefs[i] = view} \union {Len(MediaPrefs) + 1})

\* Ties of the preference go to the default view.
_media_view(info) ==
    IF BytesViews(info.views) = {} THEN NoView
    ELSE LET order(v) == 2 * PrefRank(v) + (IF v = info.default THEN 0 ELSE 1)
         IN  LeastBy(BytesViews(info.views), order)

InOrder(S) == [i \in 1..Cardinality(S) |->
                  CHOOSE x \in S : Cardinality({y \in S : Position(y) < Position(x)}) = i - 1]

\* The view with keyframes first, then the video, then the others by name.
view_order(info) ==
    LET views == DOMAIN info.views
        media == IF _media_view(info) = NoView THEN <<>> ELSE <<_media_view(info)>>
        video == IF "video" \in views /\ _media_view(info) # "video" THEN <<"video">> ELSE <<>>
        head == media \o video
    IN  head \o InOrder(views \ Range(head))

NoViews == [default |-> NoView, views |-> <<>>]

\* index_page.  A failing /avail leaves nothing to choose from; a failing or an
\* empty pipeline leaves no results.
PageFor(url, avail, works) ==
    LET collection == Chosen(url.collection, ARGS.collection, DOMAIN avail.collection, "")
        engine == Chosen(url.engine, ARGS.engine, avail.search, Custom)
        pipeline == IF engine # Custom THEN engine
                    ELSE IF url.pipeline # "" THEN url.pipeline ELSE ARGS.pipeline
        info == IF collection \in DOMAIN avail.collection
                THEN avail.collection[collection] ELSE NoViews
    IN  [collection |-> collection, pipeline |-> pipeline,
         views |-> view_order(info), media |-> _media_view(info),
         ranked |-> IF url.q # "" /\ pipeline # "" /\ works THEN Sorted(Rankings[pipeline]) ELSE <<>>]

\* What /avail answers: nothing when it fails.
Answered == {Avail, [search |-> {}, collection |-> <<>>]}

\* The number of parts of a document.  The answer for a view of kind text has no
\* data, so that there is nothing of it to show.
_fetch_media(doc, view) ==
    LET content == Contents[view][doc]
    IN  IF content.kind = "bytes" THEN content.n ELSE 0

\* RoutIR ranks for every pipeline that a page can be opened with, and has every
\* document that the page then shows, in so many parts if it is one of bytes.
ASSUME PageAssumption ==
    /\ PageSize \in Nat \ {0} /\ ARGS.frames \in Int
    /\ \A pipeline \in DOMAIN Rankings :
            Rankings[pipeline] \in Seq({Rankings[pipeline][i] : i \in DOMAIN Rankings[pipeline]})
    /\ \A name \in DOMAIN Avail.collection : IsFiniteSet(DOMAIN Avail.collection[name].views)
    /\ \A url \in PageRequests, avail \in Answered, works \in BOOLEAN :
            LET loaded == PageFor(url, avail, works)
            IN  /\ loaded.ranked # <<>> => loaded.pipeline \in DOMAIN Rankings
                /\ \A view \in Range(loaded.views), i \in DOMAIN loaded.ranked :
                        _fetch_media(loaded.ranked[i].doc, view) \in Nat

\* The tab of the URL, else the view with keyframes, else the first one.
InitialView(url, loaded) ==
    LET views == Range(loaded.views)
    IN  CASE url.tab \in views -> url.tab
          [] url.tab \notin views /\ loaded.media \in views -> loaded.media
          [] OTHER -> IF loaded.views = <<>> THEN NoView ELSE loaded.views[1]

-----------------------------------------------------------------------------
\* _evenly_spaced: indices count from 0, halves are rounded to even.
RoundedTo(num, den) ==
    LET floor == num \div den
        twice == 2 * (num % den)
    IN  IF twice > den \/ (twice = den /\ floor % 2 = 1) THEN floor + 1 ELSE floor

_evenly_spaced(len, n) ==
    CASE n >= len \/ n <= 0 -> 0..(len - 1)
      [] n = 1 /\ len > 1 -> {len \div 2}
      [] OTHER -> {RoundedTo(i * (len - 1), n - 1) : i \in 0..(n - 1)}

\* view_meta, when RoutIR could be reached.  The type of the parts is sniffed:
\* bytes can be text too.
view_meta(doc, view) ==
    LET n == _fetch_media(doc, view)
        type == Contents[view][doc].type
    IN  CASE n = 0 -> [type |-> "empty", all |-> {}, preview |-> {}]
          [] n > 0 /\ type = "image" ->
                [type |-> "image", all |-> 0..(n - 1), preview |-> _evenly_spaced(n, ARGS.frames)]
          [] OTHER -> [type |-> type, all |-> {}, preview |-> {}]

Unavailable == [type |-> "error", all |-> {}, preview |-> {}]

Payload(doc, view, reached) ==
    [doc |-> doc, view |-> view, meta |-> IF reached THEN view_meta(doc, view) ELSE Unavailable]

\* The view that a card is built for is the active one at that time, which the
\* payload need not be of.
buildViewNode(doc, view, data) == [doc |-> doc, view |-> view, data |-> data, all |-> FALSE]

NoCollection(doc) == [doc |-> doc, view |-> NoView, data |-> <<>>, all |-> FALSE]

Showable == load.collection # "" /\ activeView # NoView

-----------------------------------------------------------------------------
nPages == Max({1, (Len(load.ranked) + PageSize - 1) \div PageSize})

Slice(n) ==
    SubSeq(load.ranked, n * PageSize + 1, Min({(n + 1) * PageSize, Len(load.ranked)}))

\* renderCard up to its await: a payload that is cached is not asked for again.
Awaiting(epoch, left, view) ==
    IF left = <<>> THEN {}
    ELSE {[epoch |-> epoch, left |-> left, view |-> view,
           fetches |-> <<left[1].doc, view>> \notin DOMAIN VIEW_DATA]}

PageInit ==
    /\ \E url \in PageRequests, avail \in Answered, works \in BOOLEAN :
            /\ load = PageFor(url, avail, works)
            /\ activeView = InitialView(url, load)
    /\ page = 0
    /\ VIEW_DATA = <<>>
    /\ renderEpoch = 1
    /\ cards = <<>>
    /\ renders = IF load.ranked = <<>> THEN {}
                 ELSE {[epoch |-> 1, left |-> Slice(0), view |-> activeView, fetches |-> TRUE]}

\* renderPage up to its first await.
RenderPage(n, view) ==
    /\ renderEpoch < MaxRenders
    /\ renderEpoch' = renderEpoch + 1
    /\ cards' = <<>>
    /\ renders' = renders \union Awaiting(renderEpoch + 1, Slice(n), view)

\* The buttons of renderPager.
TurnTo(n) ==
    /\ n \in {page - 1, page + 1} /\ n \in 0..(nPages - 1)
    /\ page' = n
    /\ RenderPage(n, activeView)
    /\ UNCHANGED <<load, activeView, VIEW_DATA>>

\* The tabs: there are none without a collection or without results.
SwitchTo(view) ==
    /\ load.collection # "" /\ load.ranked # <<>>
    /\ view \in Range(load.views) \ {activeView}
    /\ activeView' = view
    /\ RenderPage(page, view)
    /\ UNCHANGED <<load, page, VIEW_DATA>>

\* Seeded fault: a render goes on as long as its page is the one shown.
StillOnPage(r) == \E i \in DOMAIN Slice(page) : Slice(page)[i].doc = r.left[1].doc

NotSuperseded(r) == r.epoch = renderEpoch

\* The render goes on with the card of its document, or stops.
Continue(r, card) ==
    /\ IF NotSuperseded(r)
       THEN /\ cards' = Append(cards, card)
            /\ renders' = (renders \ {r}) \union Awaiting(r.epoch, Tail(r.left), activeView)
       ELSE /\ renders' = renders \ {r}
            /\ UNCHANGED cards
    /\ UNCHANGED <<load, page, activeView, renderEpoch>>

NothingToShow(r) ==
    /\ ~Showable
    /\ Continue(r, NoCollection(r.left[1].doc))
    /\ UNCHANGED VIEW_DATA

FromCache(r) ==
    /\ Showable /\ ~r.fetches
    /\ Continue(r, buildViewNode(r.left[1].doc, activeView, VIEW_DATA[<<r.left[1].doc, r.view>>]))
    /\ UNCHANGED VIEW_DATA

\* What arrives, an error too, is kept for as long as the page is open.
Arrives(r, reached) ==
    LET doc == r.left[1].doc
        data == Payload(doc, r.view, reached)
    IN  /\ Showable /\ r.fetches
        /\ VIEW_DATA' = [k \in DOMAIN VIEW_DATA \union {<<doc, r.view>>} |->
                            IF k = <<doc, r.view>> THEN data ELSE VIEW_DATA[k]]
        /\ Continue(r, buildViewNode(doc, activeView, data))

\* "show all N frames" and "show fewer".
Toggle(i) ==
    /\ cards[i].data # <<>> /\ cards[i].data.meta.all # cards[i].data.meta.preview
    /\ cards' = [cards EXCEPT ![i].all = ~@]
    /\ UNCHANGED <<load, page, activeView, VIEW_DATA, renderEpoch, renders>>

PageNext ==
    \/ \E n \in 0..(nPages - 1) : TurnTo(n)
    \/ \E view \in Range(load.views) : SwitchTo(view)
    \/ \E r \in renders : NothingToShow(r) \/ FromCache(r) \/ \E reached \in BOOLEAN : Arrives(r, reached)
    \/ \E i \in DOMAIN cards : Toggle(i)

PageSpec == PageInit /\ [][PageNext]_pageVars

-----------------------------------------------------------------------------
Frames(card) == IF card.all THEN card.data.meta.all ELSE card.data.meta.preview

\* "A rapid tab/page switch abandons the in-flight one instead of interleaving
\* cards from two renders": at all times the page shows the first documents of
\* the page that was turned to, in the order of their scores and none twice, each
\* with what RoutIR has of it in the view that is active: frames of its own, bytes
\* of its own type, nothing for a view of kind text, or the failure to get it; and
\* once nothing is in flight all of them.
ShowsTheChosenPage ==
    /\ Len(cards) <= Len(Slice(page))
    /\ \A i \in DOMAIN cards :
        /\ cards[i].doc = Slice(page)[i].doc
        /\ Showable => /\ cards[i].view = activeView
                       /\ cards[i].data \in {Payload(cards[i].doc, activeView, reached) : reached \in BOOLEAN}
                       /\ Frames(cards[i]) \subseteq 0..(_fetch_media(cards[i].doc, activeView) - 1)
    /\ renders = {} => Len(cards) = Len(Slice(page))
=============================================================================
