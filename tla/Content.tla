------------------------------- MODULE Content ------------------------------
(***************************************************************************)
(* How a document's content is looked up: the views of a collection        *)
(* (collections/views), the ContentProcessor in front of them, the two     *)
(* /content endpoints, and the RelayContentProcessor of a server that      *)
(* imports the collection.                                                 *)
(*                                                                         *)
(* A payload is [view, doc, parts]: which view of which document it shows, *)
(* in how many blobs (a text is one).  Both processors keep their answers  *)
(* in a cache that may drop an entry at any time and fills it in a task of *)
(* its own (LRUCache and CachedProcessor have the details), so a look-up   *)
(* finds what was once answered, or misses.                                *)
(***************************************************************************)
EXTENDS Integers, FiniteSets

CONSTANTS
    Views,          \* CollectionConfig.views
    Backend,        \* of a view: "text_jsonl", "path_template", "path_glob" or "tar"
    DocIds,
    Parts,          \* Parts[view][doc]: the files, members or line found for an id
    Sites,          \* [relayed, link, default]: where a pipeline's collection is
    NoView          \* a request without a view

ASSUME ContentAssumption ==
    /\ NoView \notin Views
    /\ Parts \in [Views -> [DocIds -> Nat]]

VARIABLES
    site,
    kept,           \* the answers of ContentProcessor, by its cache key
    relayed         \* the answers of RelayContentProcessor, by its cache key

contentVars == <<site, kept, relayed>>

NoContent == [error |-> "not found"]

\* Each backend class has one kind.
Kind(view) == IF Backend[view] = "text_jsonl" THEN "text" ELSE "bytes"

\* A glob contains every id: none of its files is an empty payload.  A tar view
\* resolves the shard of the id and matches its members; no match is no id.
HasId(view, doc) == Backend[view] = "path_glob" \/ Parts[view][doc] > 0

BackendPayload(view, doc) == [view |-> view, doc |-> doc, parts |-> Parts[view][doc]]

Resolved(view) == IF view = NoView THEN site.default ELSE view

\* Seeded fault: the key leaves the view out.
KeyWithoutView(view, doc) == <<site.default, doc>>

_view_id_key(view, doc) == <<Resolved(view), doc>>

\* ContentProcessor._submit.
ReadBackend(view, doc) ==
    IF Resolved(view) \in Views /\ HasId(Resolved(view), doc)
    THEN BackendPayload(Resolved(view), doc)
    ELSE NoContent

Cached(cache, key) == IF key \in DOMAIN cache THEN {cache[key]} ELSE {}

\* ContentProcessor.submit: what it may answer, and what it then keeps.
HostAnswers(view, doc) ==
    Cached(kept, _view_id_key(view, doc)) \union {ReadBackend(view, doc)}

Keeping(cache, key, ret) ==
    IF ret = NoContent THEN cache
    ELSE [k \in {key} \union DOMAIN cache |-> IF k = key THEN ret ELSE cache[k]]

-----------------------------------------------------------------------------
\* POST /content refuses a view it knows to hold bytes; bytes of the default
\* view it fails to encode.
RestContent(view, ret) ==
    IF \/ view \in Views /\ Kind(view) = "bytes"
       \/ ret = NoContent
       \/ Kind(ret.view) = "bytes"
    THEN NoContent ELSE ret

\* The Content RPC carries either.
GrpcContent(view, ret) == ret

OverLink(ret) == IF site.link = "rest" THEN RestContent(NoView, ret) ELSE GrpcContent(NoView, ret)

\* RelayContentProcessor._submit sends the id only; its key is the id as well.
RelayReply(ret) == OverLink(ret)

RelayKey(view, doc) == doc

-----------------------------------------------------------------------------
ContentInit ==
    /\ site \in Sites
    /\ kept = <<>>
    /\ relayed = <<>>

\* The server of the collection answers one request for a content.
HostServes(view, doc, ret) ==
    /\ ret \in HostAnswers(view, doc)
    /\ kept' = Keeping(kept, _view_id_key(view, doc), ret)
    /\ UNCHANGED <<site, relayed>>

\* A client of that server asks over REST or gRPC.
Ask(view, doc) == \E ret \in HostAnswers(view, doc) : HostServes(view, doc, ret)

=============================================================================
