-------------------------- MODULE CachedProcessor ---------------------------
(***************************************************************************)
(* processors/abstract.py, Processor.submit: a cache in front of _submit.  *)
(* A miss suspends in _submit; its result is written to the cache by a     *)
(* task created just before the reply, which runs later.  A hit returns    *)
(* the very dict that is in the cache.                                     *)
(*                                                                         *)
(* The cached dict made of the result of call r is named r.                *)
(***************************************************************************)
EXTENDS LRUCache

CONSTANTS
    KeyOf,      \* cache_key(item) of every call
    AnswerOf,   \* what the engine computes for the item of every call
    NoCall      \* stands for an error, and for no reply yet

Calls == Stored

ASSUME CachedAssumption ==
    /\ KeyOf \in [Calls -> Keys]
    /\ DOMAIN AnswerOf = Calls
    /\ NoCall \notin Calls

VARIABLES
    phase,      \* where each submit is
    given,      \* the reply: whose result, was it a hit, and had it been rewritten
    putTasks,   \* the tasks of cache.put that have not run, oldest first
    rewritten,  \* the cached dicts some caller has changed in place
    written     \* history: the calls whose put has run

cpVars == <<lruVars, phase, given, putTasks, rewritten, written>>

-----------------------------------------------------------------------------
Reply(r, hit, changed) == [from |-> r, cached |-> hit, changed |-> changed]

CPInit ==
    /\ LRUInit
    /\ phase = [r \in Calls |-> "new"]
    /\ given = [r \in Calls |-> Reply(NoCall, FALSE, FALSE)]
    /\ putTasks = <<>>
    /\ rewritten = {}
    /\ written = {}

Return(r, reply_) ==
    /\ phase' = [phase EXCEPT ![r] = "returned"]
    /\ given' = [given EXCEPT ![r] = reply_]

\* cache.get finds the key: the cached dict itself is returned.
SubmitHit(r) ==
    /\ phase[r] = "new"
    /\ GetHit(KeyOf[r])
    /\ LET found == cache[KeyOf[r]] IN Return(r, Reply(found, TRUE, found \in rewritten))
    /\ UNCHANGED <<putTasks, rewritten, written>>

\* cache.get finds nothing, or an expired entry: submit awaits _submit.
SubmitMiss(r) ==
    /\ phase[r] = "new"
    /\ GetAbsent(KeyOf[r]) \/ GetExpired(KeyOf[r])
    /\ phase' = [phase EXCEPT ![r] = "asking"]
    /\ UNCHANGED <<given, putTasks, rewritten, written>>

\* _submit returned a result: the put is scheduled, a fresh dict is returned.
Answered(r) ==
    /\ phase[r] = "asking"
    /\ putTasks' = Append(putTasks, r)
    /\ Return(r, Reply(r, FALSE, FALSE))
    /\ UNCHANGED <<lruVars, rewritten, written>>

\* Seeded fault: a result with "error" is cached like any other.
ErrorIsCached(r) ==
    /\ phase[r] = "asking"
    /\ putTasks' = Append(putTasks, r)
    /\ Return(r, Reply(NoCall, FALSE, FALSE))
    /\ UNCHANGED <<lruVars, rewritten, written>>

\* _submit returned a dict with "error", or raised: nothing is cached.
Refused(r) ==
    /\ phase[r] = "asking"
    /\ Return(r, Reply(NoCall, FALSE, FALSE))
    /\ UNCHANGED <<lruVars, putTasks, rewritten, written>>

\* The task that awaits submit is cancelled.
Abandon(r) ==
    /\ phase[r] = "asking"
    /\ phase' = [phase EXCEPT ![r] = "cancelled"]
    /\ UNCHANGED <<lruVars, given, putTasks, rewritten, written>>

\* Seeded fault: the key is the one of the latest call, not of the one that ran.
PutUnderLatestKey ==
    /\ putTasks # <<>>
    /\ Put(KeyOf[putTasks[Len(putTasks)]], Head(putTasks))
    /\ putTasks' = Tail(putTasks)
    /\ written' = written \union {Head(putTasks)}
    /\ UNCHANGED <<phase, given, rewritten>>

\* Seeded fault: one task writes and the others are dropped.
PutOnce ==
    /\ putTasks # <<>>
    /\ Put(KeyOf[Head(putTasks)], Head(putTasks))
    /\ putTasks' = <<>>
    /\ written' = written \union {Head(putTasks)}
    /\ UNCHANGED <<phase, given, rewritten>>

\* The event loop runs the oldest cache.put task; put never suspends.
RunPut ==
    /\ putTasks # <<>>
    /\ Put(KeyOf[Head(putTasks)], Head(putTasks))
    /\ putTasks' = Tail(putTasks)
    /\ written' = written \union {Head(putTasks)}
    /\ UNCHANGED <<phase, given, rewritten>>

\* Seeded fault: the dict put into the cache is the one the caller gets.
RewriteAny(r) ==
    /\ given[r].from # NoCall
    /\ rewritten' = rewritten \union {given[r].from}
    /\ UNCHANGED <<lruVars, phase, given, putTasks, written>>

\* The caller replaces "scores" in the dict it was given, as SearchPipeline.run
\* does with the reply of a rerank stage (a list becomes a dict).
Rewrite(r) ==
    /\ given[r].cached
    /\ rewritten' = rewritten \union {given[r].from}
    /\ UNCHANGED <<lruVars, phase, given, putTasks, written>>

TimePasses == Tick /\ UNCHANGED <<phase, given, putTasks, rewritten, written>>

\* Every call is over and every put has run.
AllDone ==
    /\ \A r \in Calls : phase[r] \in {"returned", "cancelled"}
    /\ putTasks = <<>>
    /\ UNCHANGED cpVars

CPNext ==
    \/ \E r \in Calls : \/ SubmitHit(r) \/ SubmitMiss(r)
                        \/ Answered(r) \/ Refused(r) \/ Abandon(r)
                        \/ Rewrite(r)
    \/ RunPut
    \/ TimePasses
    \/ AllDone

CPSpec == CPInit /\ [][CPNext]_cpVars

\* The event loop runs every scheduled task.
CPFairSpec == CPSpec /\ WF_cpVars(RunPut)

-----------------------------------------------------------------------------
\* A hit holds what the engine would have computed for the caller's own item:
\* a result travels from one call to another only through an entry that both
\* calls own the key of, whatever was put, displaced or expired in between.
HitAnswersTheQuestion ==
    \A r \in Calls : given[r].from # NoCall => AnswerOf[given[r].from] = AnswerOf[r]

\* No failure is remembered: every dict in the cache, and every dict on its way
\* there, is a copy of a result its own caller was given.
OnlyAnswersAreCached ==
    \A r \in Calls :
        (\E k \in Keys : cache[k] = r) \/ (\E i \in DOMAIN putTasks : putTasks[i] = r)
            => given[r] = Reply(r, FALSE, FALSE)

\* "eventually consistent": every computed answer is written to the cache,
\* however many calls answer before the first task runs.
EventuallyWritten ==
    \A r \in Calls : given[r].from = r ~> r \in written

\* {**result, "cached": True} is a copy: what the caller that computed a result
\* does to its dict reaches nobody, and a caller can only be given a rewritten
\* dict after a hit has handed that dict to another one.
OnlyHitsShareTheirDict ==
    \A r \in Calls : given[r].changed =>
        \E s \in Calls \ {r} : given[s].cached /\ given[s].from = given[r].from

=============================================================================
