------------------------------- MODULE Caches -------------------------------
(***************************************************************************)
(* The two implementations of Cache, of which a processor or the pipeline  *)
(* cache gets one: LRUCache in the process, or, with a redis_url,          *)
(* RedisCache (Processor.__init__, load_config).                           *)
(***************************************************************************)
EXTENDS LRUCache, PipelineCache

VARIABLE backend

cachesVars == <<lruVars, pipelineCacheVars, backend>>

CachesInit == backend \in {"lru", "redis"} /\ LRUInit /\ PCInit

CachesNext ==
    /\ \/ backend = "lru" /\ LRUNext /\ UNCHANGED pipelineCacheVars
       \/ backend = "redis" /\ PCNext /\ UNCHANGED lruVars
    /\ UNCHANGED backend

CachesSpec == CachesInit /\ [][CachesNext]_cachesVars

=============================================================================
