----------------------------- MODULE LossyCache -----------------------------
(***************************************************************************)
(* What a Cache (processors/cache.py) promises to the processor in front   *)
(* of which it stands: an entry may be gone at any time, but what is read  *)
(* is the latest value put under that key, no older than the time to live, *)
(* and a key that was removed stays absent until it is put again.          *)
(***************************************************************************)
EXTENDS Naturals

CONSTANTS Keys, Stored, NoValue, Ttl

VARIABLES
    newest,     \* the latest value put under each key
    putAt,      \* when it was put
    now,
    reply       \* what the latest call of get returned

lvars == <<newest, putAt, now, reply>>

LInit ==
    /\ newest = [k \in Keys |-> NoValue]
    /\ putAt = [k \in Keys |-> 0]
    /\ now = 0
    /\ reply = NoValue

Fresh(k) == newest[k] # NoValue /\ (Ttl > 0 => now - putAt[k] <= Ttl)

Read(k) ==
    /\ reply' = NoValue \/ (Fresh(k) /\ reply' = newest[k])
    /\ UNCHANGED <<newest, putAt, now>>

Write(k, v) ==
    /\ newest' = [newest EXCEPT ![k] = v]
    /\ putAt' = [putAt EXCEPT ![k] = now]
    /\ reply' = NoValue
    /\ UNCHANGED now

Forget(K) ==
    /\ newest' = [k \in Keys |-> IF k \in K THEN NoValue ELSE newest[k]]
    /\ reply' = NoValue
    /\ UNCHANGED <<putAt, now>>

Pass ==
    /\ now' = now + 1
    /\ reply' = NoValue
    /\ UNCHANGED <<newest, putAt>>

LNext ==
    \/ \E k \in Keys : Read(k) \/ \E v \in Stored : Write(k, v)
    \/ \E K \in SUBSET Keys : Forget(K)
    \/ Pass

LSpec == LInit /\ [][LNext]_lvars

=============================================================================
