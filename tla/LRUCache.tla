------------------------------ MODULE LRUCache ------------------------------
(***************************************************************************)
(* processors/cache.py, class LRUCache: an OrderedDict, least recently     *)
(* used key first, and a dict of timestamps beside it.  The methods are    *)
(* coroutines that never suspend (get awaits only remove), so each of them *)
(* is one action.                                                          *)
(***************************************************************************)
EXTENDS Naturals, Sequences, FiniteSets

CONSTANTS
    Keys,
    Stored,         \* the values that are put
    NoValue,        \* an absent key, and None returned by get
    NoStamp,
    Capacity,       \* capacity: 0 stands for every value that is not positive
    Ttl,            \* ttl: likewise
    MaxTime         \* bound of the clock

ASSUME LRUAssumption ==
    /\ NoValue \notin Stored
    /\ Capacity \in Nat /\ Ttl \in Nat
    /\ NoStamp \notin Nat

VARIABLES
    order,          \* the keys of cache in OrderedDict order
    cache,          \* the value under each key
    timestamps,
    now,            \* time.time()
    reply,          \* what the latest call returned
    newest, putAt,  \* history: the latest put of a key not removed since, and its time
    since           \* history: the keys used since a key was last used

lruVars == <<order, cache, timestamps, now, reply, newest, putAt, since>>

-----------------------------------------------------------------------------
InCache(k) == cache[k] # NoValue

Place(k) == CHOOSE i \in DOMAIN order : order[i] = k

\* The order without k, which is in it.
Without(k) ==
    [i \in 1..(Len(order) - 1) |-> IF i < Place(k) THEN order[i] ELSE order[i + 1]]

LRUInit ==
    /\ order = <<>>
    /\ cache = [k \in Keys |-> NoValue]
    /\ timestamps = [k \in Keys |-> NoStamp]
    /\ now = 0
    /\ reply = NoValue
    /\ newest = [k \in Keys |-> NoValue]
    /\ putAt = [k \in Keys |-> 0]
    /\ since = [k \in Keys |-> {}]

\* k is used now: by a put, or by a get that finds it.
Use(k) == since' = [j \in Keys |-> IF j = k THEN {} ELSE since[j] \union {k}]

Expired(k) == Ttl > 0 /\ now - timestamps[k] > Ttl

\* Seeded fault: the timestamp stays behind.
DeleteEntryOnly(k) ==
    /\ order' = Without(k)
    /\ cache' = [cache EXCEPT ![k] = NoValue]
    /\ UNCHANGED timestamps

\* del cache[k]; del timestamps[k].
Delete(k) ==
    /\ order' = Without(k)
    /\ cache' = [cache EXCEPT ![k] = NoValue]
    /\ timestamps' = [timestamps EXCEPT ![k] = NoStamp]

GetAbsent(k) ==
    /\ ~InCache(k)
    /\ reply' = NoValue
    /\ UNCHANGED <<order, cache, timestamps, now, newest, putAt, since>>

GetExpired(k) ==
    /\ InCache(k) /\ Expired(k)
    /\ Delete(k)
    /\ reply' = NoValue
    /\ newest' = [newest EXCEPT ![k] = NoValue]
    /\ UNCHANGED <<now, putAt, since>>

\* Seeded fault: the hit renews the timestamp.
RenewOnHit(k) ==
    /\ order' = Append(Without(k), k)
    /\ timestamps' = [timestamps EXCEPT ![k] = now]

\* Seeded fault: the hit leaves the order alone, as a first-in first-out cache does.
KeepPlace(k) == UNCHANGED <<order, timestamps>>

\* move_to_end.
MoveToEnd(k) ==
    /\ order' = Append(Without(k), k)
    /\ UNCHANGED timestamps

GetHit(k) ==
    /\ InCache(k) /\ ~Expired(k)
    /\ MoveToEnd(k)
    /\ reply' = cache[k]
    /\ Use(k)
    /\ UNCHANGED <<cache, now, newest, putAt>>

Get(k) == GetAbsent(k) \/ GetExpired(k) \/ GetHit(k)

\* put of a key that is in the cache, expired or not.
PutUpdate(k, v) ==
    /\ InCache(k)
    /\ order' = Append(Without(k), k)
    /\ cache' = [cache EXCEPT ![k] = v]
    /\ timestamps' = [timestamps EXCEPT ![k] = now]

\* len(cache) > capacity, once the new key is in.
OverCapacity == Capacity > 0 /\ Len(order) + 1 > Capacity

\* popitem(last=False): the head, which is not the new key since Capacity > 0.
Evicted == IF OverCapacity THEN {Head(order)} ELSE {}

\* put of a new key.
PutNew(k, v) ==
    /\ ~InCache(k)
    /\ order' = Append(IF OverCapacity THEN Tail(order) ELSE order, k)
    /\ cache' = [j \in Keys |->
                    IF j = k THEN v ELSE IF j \in Evicted THEN NoValue ELSE cache[j]]
    /\ timestamps' = [j \in Keys |->
                    IF j = k THEN now ELSE IF j \in Evicted THEN NoStamp ELSE timestamps[j]]

Put(k, v) ==
    /\ PutUpdate(k, v) \/ PutNew(k, v)
    /\ reply' = NoValue
    /\ newest' = [newest EXCEPT ![k] = v]
    /\ putAt' = [putAt EXCEPT ![k] = now]
    /\ Use(k)
    /\ UNCHANGED now

Remove(k) ==
    /\ InCache(k)
    /\ Delete(k)
    /\ reply' = NoValue
    /\ newest' = [newest EXCEPT ![k] = NoValue]
    /\ UNCHANGED <<now, putAt, since>>

Clear ==
    /\ order' = <<>>
    /\ cache' = [k \in Keys |-> NoValue]
    /\ timestamps' = [k \in Keys |-> NoStamp]
    /\ reply' = NoValue
    /\ newest' = [k \in Keys |-> NoValue]
    /\ UNCHANGED <<now, putAt, since>>

Tick ==
    /\ now < MaxTime
    /\ now' = now + 1
    /\ reply' = NoValue
    /\ UNCHANGED <<order, cache, timestamps, newest, putAt, since>>

LRUNext ==
    \/ \E k \in Keys : Get(k) \/ Remove(k) \/ \E v \in Stored : Put(k, v)
    \/ Clear
    \/ Tick

LRUSpec == LRUInit /\ [][LRUNext]_lruVars

-----------------------------------------------------------------------------
\* The types of the attributes and of the histories.
LRUTypeOK ==
    /\ order \in Seq(Keys)
    /\ cache \in [Keys -> Stored \union {NoValue}]
    /\ timestamps \in [Keys -> Nat \union {NoStamp}]
    /\ now \in Nat
    /\ reply \in Stored \union {NoValue}
    /\ newest \in [Keys -> Stored \union {NoValue}]
    /\ putAt \in [Keys -> Nat]
    /\ since \in [Keys -> SUBSET Keys]

\* The OrderedDict and the dict beside it have the same keys, and no key has
\* two places: neither timestamps[key] in get nor the two dels can raise KeyError.
DictsAgree ==
    /\ \A i, j \in DOMAIN order : order[i] = order[j] => i = j
    /\ \A k \in Keys : InCache(k) <=> \E i \in DOMAIN order : order[i] = k
    /\ \A k \in Keys : InCache(k) <=> timestamps[k] # NoStamp

\* With a positive capacity the cache never holds more entries than that.
CapacityRespected == Capacity > 0 => Len(order) <= Capacity

\* Recency: a key that was put and is gone, without having been removed or
\* found expired, was displaced by at least Capacity other keys, each used after
\* its own last use.  The cache keeps the Capacity most recently used keys.
DisplacedByCapacityOthers ==
    \A k \in Keys :
        newest[k] # NoValue /\ ~InCache(k) =>
            Capacity > 0 /\ Cardinality(since[k]) >= Capacity

\* LRUCache implements LossyCache: through updates, evictions, expiry and
\* recency moves, a hit is the latest put of that very key within its lifetime,
\* and a hit does not make an entry live longer.
Lossy == INSTANCE LossyCache
ReadsLatestWithinTtl == Lossy!LSpec

=============================================================================
