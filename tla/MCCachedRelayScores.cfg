SPECIFICATION CPSpec
CONSTANTS
    Stored = {1, 2}
    Keys <- MCKeys
    KeyOf <- MCKeyOf
    AnswerOf <- MCScoreAnswerOf
    NoCall = nocall
    NoValue = none
    NoStamp = never
    Capacity = 2
    Ttl = 1
    MaxTime = 2
INVARIANT HitAnswersTheQuestion
