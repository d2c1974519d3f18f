SPECIFICATION CPFairSpec
CONSTANTS
    Stored = {1, 2, 3, 4}
    Keys <- LoadedKeys
    KeyOf <- LoadedKeyOf
    AnswerOf <- MCSearchAnswerOf
    NoCall = nocall
    NoValue = none
    NoStamp = never
    Capacity = 2
    Ttl = 1
    MaxTime = 2
INVARIANTS
    HitAnswersTheQuestion
    OnlyAnswersAreCached
    OnlyHitsShareTheirDict
PROPERTY
    EventuallyWritten
