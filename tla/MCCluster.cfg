SPECIFICATION ClusterFairSpec
CHECK_DEADLOCK FALSE
CONSTANTS
    s1 = s1
    s2 = s2
    s3 = s3
    Servers = {s1, s2, s3}
    Sites <- MCSites
    Chunks = 2
INVARIANTS
    ServesWholeArchives
    CirclesNeedARestart
PROPERTIES
    RestRefusalsAreFinal
    EveryServerSettles
