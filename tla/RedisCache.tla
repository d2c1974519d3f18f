----------------------------- MODULE RedisCache -----------------------------
(***************************************************************************)
(* processors/cache.py, class RedisCache: the entries are in a Redis       *)
(* server, which several processes may share, and every method suspends    *)
(* for each of its commands.  A command is one step, at the moment the     *)
(* server executes it; connect does not wait for the server.               *)
(*                                                                         *)
(* The capacity is not enforced.  Keys and values travel as JSON: a value  *)
(* that JSON cannot express is stored as its str(), and read as that text. *)
(***************************************************************************)
EXTENDS Naturals

CONSTANTS
    RedisKeys,      \* the keys under key_prefix
    Values,         \* the values that are put
    Opaque,         \* those that JSON cannot express
    Missing,        \* None
    RedisTtl,       \* int(ttl): 0 stands for every value that is not positive
    MaxClock        \* bound of the clock

ASSUME RedisAssumption == RedisTtl \in Nat

VARIABLES
    store,          \* the value under each key
    setAt,          \* when it was set
    clock,          \* the time of the Redis server
    got,            \* what the latest GET returned
    sweep,          \* the clear under way: the keys not scanned, those to be deleted
    latest, latestAt, \* history: the latest put of a key not removed since, and its time
    older           \* history: the keys not put again since the clear began

redisVars == <<store, setAt, clock, got, sweep, latest, latestAt, older>>

NoSweep == [left |-> {}, found |-> {}]

RedisInit ==
    /\ store = [k \in RedisKeys |-> Missing]
    /\ setAt = [k \in RedisKeys |-> 0]
    /\ clock = 0
    /\ got = Missing
    /\ sweep = NoSweep
    /\ latest = [k \in RedisKeys |-> Missing]
    /\ latestAt = [k \in RedisKeys |-> 0]
    /\ older = {}

\* json.dumps, or str; then json.loads, or the text itself.
Serialized(v) == IF v \in Opaque THEN [text |-> v] ELSE [json |-> v]

Decoded(w) == IF "json" \in DOMAIN w THEN w.json ELSE w.text

\* Seeded fault: set in the place of setex.
NeverDropped(k) == FALSE

\* Redis drops an entry when its time to live is over.
Dropped(k) == RedisTtl > 0 /\ clock - setAt[k] >= RedisTtl
Present(k) == store[k] # Missing /\ ~Dropped(k)

GetValue(k) ==
    /\ got' = IF Present(k) THEN store[k] ELSE Missing
    /\ UNCHANGED <<store, setAt, clock, sweep, latest, latestAt, older>>

\* setex: the value with a new time to live.
SetValue(k, v) ==
    /\ store' = [store EXCEPT ![k] = v]
    /\ setAt' = [setAt EXCEPT ![k] = clock]

PutValue(k, v) ==
    /\ SetValue(k, Serialized(v))
    /\ got' = Missing
    /\ latest' = [latest EXCEPT ![k] = Serialized(v)]
    /\ latestAt' = [latestAt EXCEPT ![k] = clock]
    /\ older' = older \ {k}
    /\ UNCHANGED <<clock, sweep>>

\* DEL of a set of keys.
Del(K) ==
    /\ store' = [k \in RedisKeys |-> IF k \in K THEN Missing ELSE store[k]]
    /\ latest' = [k \in RedisKeys |-> IF k \in K THEN Missing ELSE latest[k]]
    /\ got' = Missing
    /\ UNCHANGED <<setAt, clock, latestAt, older>>

RemoveKey(k) == Del({k}) /\ UNCHANGED sweep

\* clear: SCAN from cursor 0.
ClearBegins ==
    /\ sweep = NoSweep
    /\ sweep' = [left |-> RedisKeys, found |-> {}]
    /\ older' = {k \in RedisKeys : Present(k)}
    /\ got' = Missing
    /\ UNCHANGED <<store, setAt, clock, latest, latestAt>>

\* Seeded fault: the loop ends with the first batch.
ScanOnce(K) ==
    /\ sweep.left # {} /\ sweep.found = {} /\ K \subseteq sweep.left /\ K # {}
    /\ sweep' = [left |-> {}, found |-> {k \in K : Present(k)}]
    /\ got' = Missing
    /\ UNCHANGED <<store, setAt, clock, latest, latestAt, older>>

\* One SCAN visits some more of the keys and returns those that are there.
Scan(K) ==
    /\ sweep.left # {} /\ sweep.found = {} /\ K \subseteq sweep.left /\ K # {}
    /\ sweep' = [left |-> sweep.left \ K, found |-> {k \in K : Present(k)}]
    /\ got' = Missing
    /\ UNCHANGED <<store, setAt, clock, latest, latestAt, older>>

\* What was found is deleted, also what was put again meanwhile.
DeleteFound ==
    /\ sweep.found # {}
    /\ Del(sweep.found)
    /\ sweep' = [sweep EXCEPT !.found = {}]

TimeGoesOn ==
    /\ clock < MaxClock
    /\ clock' = clock + 1
    /\ got' = Missing
    /\ UNCHANGED <<store, setAt, sweep, latest, latestAt, older>>

Housekeeping ==
    \/ \E k \in RedisKeys : RemoveKey(k)
    \/ ClearBegins \/ DeleteFound \/ \E K \in SUBSET RedisKeys : Scan(K)
    \/ TimeGoesOn

-----------------------------------------------------------------------------
\* RedisCache implements LossyCache, at the moments the server executes the
\* commands: what is read is the latest put, within its time to live.
Remote == INSTANCE LossyCache WITH
    Keys <- RedisKeys, Stored <- {Serialized(v) : v \in Values}, NoValue <- Missing,
    Ttl <- RedisTtl, newest <- latest, putAt <- latestAt, now <- clock, reply <- got

RedisReadsLatest == Remote!LSpec

\* When a clear is over, nothing is left that was there when it began, however
\* gets, puts and removals came between its scans and deletions.
ClearForgetsOlder == sweep = NoSweep => \A k \in older : ~Present(k)

=============================================================================
