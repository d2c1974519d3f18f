SPECIFICATION Spec
CONSTANTS
    t1 = t1
    t2 = t2
    Tasks <- MCTasks
    Retries = 1
    MaxOps = 4
INVARIANTS
    OnlyRacesLeak
    ClosedIsForgotten
    ForeignErrorsExplained
PROPERTY
    EveryOperationEnds
CHECK_DEADLOCK FALSE
