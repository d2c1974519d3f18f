--------------------------- MODULE PipelineCache ---------------------------
(***************************************************************************)
(* pipeline/pipeline.py, SearchPipeline.cached_run over a RedisCache: the  *)
(* results of whole pipelines, by pipeline, query, collection and runtime  *)
(* arguments.  Every step of a request is a step between two awaits; the   *)
(* put runs in a task of its own after the reply.                          *)
(***************************************************************************)
EXTENDS RedisCache

CONSTANTS
    Runs,           \* the calls of cached_run
    Asks            \* what each asks: [pipeline, query, collection, kwargs]

VARIABLES
    at,             \* where each call is
    gave,           \* what it returned: whose result, and the cached flag
    puts            \* the put tasks that have not reached the server

pipelineCacheVars == <<redisVars, at, gave, puts>>

NoRun == [from |-> Missing, cached |-> FALSE]

PCInit ==
    /\ RedisInit
    /\ at = [c \in Runs |-> "new"]
    /\ gave = [c \in Runs |-> NoRun]
    /\ puts = {}

\* Seeded fault: runtime_kwargs are no part of the key.
KeyWithoutKwargs(c) == <<Asks[c].pipeline, Asks[c].query, Asks[c].collection>>

\* repr(self.pipeline), the query, the collection, the used runtime arguments.
_cache_key(c) == <<Asks[c].pipeline, Asks[c].query, Asks[c].collection, Asks[c].kwargs>>

\* A result is named by the call that computed it, and an ask says these four things.
ASSUME PipelineCacheAssumption ==
    /\ Runs \subseteq Values
    /\ \A c \in Runs :
        /\ _cache_key(c) \in RedisKeys
        /\ Asks[c] = [pipeline |-> Asks[c].pipeline, query |-> Asks[c].query,
                      collection |-> Asks[c].collection, kwargs |-> Asks[c].kwargs]

Goes(c, where) == at' = [at EXCEPT ![c] = where]

\* A hit is copied: {**cached, "cached": True}.  A text cannot be.
LookHit(c) ==
    /\ at[c] = "new"
    /\ Present(_cache_key(c))
    /\ GetValue(_cache_key(c))
    /\ LET found == store[_cache_key(c)]
       IN  IF "text" \in DOMAIN found
           THEN Goes(c, "raised") /\ UNCHANGED gave
           ELSE Goes(c, "returned") /\
                gave' = [gave EXCEPT ![c] = [from |-> Decoded(found), cached |-> TRUE]]
    /\ UNCHANGED puts

LookMiss(c) ==
    /\ at[c] = "new"
    /\ ~Present(_cache_key(c))
    /\ GetValue(_cache_key(c))
    /\ Goes(c, "running")
    /\ UNCHANGED <<gave, puts>>

\* run returns; the put is left to a task.
RunReturns(c) ==
    /\ at[c] = "running"
    /\ Goes(c, "returned")
    /\ gave' = [gave EXCEPT ![c] = [from |-> c, cached |-> FALSE]]
    /\ puts' = puts \union {c}
    /\ UNCHANGED redisVars

\* from_string refuses the pipeline, its services or its runtime arguments; Redis
\* cannot be reached for the GET; or run raises or is cancelled.
RunRaises(c) ==
    /\ at[c] \in {"new", "running"}
    /\ Goes(c, "raised")
    /\ UNCHANGED <<redisVars, gave, puts>>

\* The puts reach the server in any order, over connections of their own.
PutArrives(c) ==
    /\ c \in puts
    /\ PutValue(_cache_key(c), c)
    /\ puts' = puts \ {c}
    /\ UNCHANGED <<at, gave>>

\* Redis cannot be reached: the exception of the task is seen by nobody.
PutLost(c) ==
    /\ c \in puts
    /\ puts' = puts \ {c}
    /\ UNCHANGED <<redisVars, at, gave>>

PCNext ==
    \/ \E c \in Runs : \/ LookHit(c) \/ LookMiss(c)
                       \/ RunReturns(c) \/ RunRaises(c)
                       \/ PutArrives(c) \/ PutLost(c)
    \/ Housekeeping /\ UNCHANGED <<at, gave, puts>>

-----------------------------------------------------------------------------
\* A pipeline's cached result goes to requests with the same question only, and
\* only a result that was computed, returned and can be read back is handed out.
PipelineHitsAnswer ==
    \A c \in Runs : gave[c].cached =>
        LET r == gave[c].from
        IN  /\ Asks[r] = Asks[c]
            /\ r \notin Opaque /\ gave[r] = [from |-> r, cached |-> FALSE]

=============================================================================
