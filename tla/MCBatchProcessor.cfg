SPECIFICATION FairSpec
CONSTANTS
    Requests = {1, 2, 3}
    Items <- MCItems
    ItemOf <- MCItemOf
    Values <- MCValues
    NoValue = none
    BatchSize = 2
    Compute <- ScoreResult
INVARIANTS
    BatchingTransparent
    NoneLostNoneOvertaken
    WakeUpsAreSound
    OnlyCancelledLeak
PROPERTIES
    EveryCallerReturns
    ServesInOrder
