SPECIFICATION CachesSpec
CHECK_DEADLOCK FALSE
SYMMETRY Symmetry
CONSTANTS
    Keys = {k1, k2, k3, k4}
    Stored = {v1, v2}
    NoValue = none
    NoStamp = never
    Capacity = 2
    Ttl = 1
    MaxTime = 3
    r1 = r1
    r2 = r2
    r3 = r3
    Runs = {r1, r2, r3}
    RedisKeys <- MCKeys
    Values = {r1, r2, r3}
    Opaque = {r3}
    Missing = missing
    RedisTtl = 2
    MaxClock = 3
    Asks <- MCAsks
INVARIANTS
    DictsAgree
    DisplacedByCapacityOthers
    ClearForgetsOlder
    PipelineHitsAnswer
PROPERTIES
    ReadsLatestWithinTtl
    RedisReadsLatest
