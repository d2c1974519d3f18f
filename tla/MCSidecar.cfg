SPECIFICATION Spec
CONSTANTS
    p1 = p1
    p2 = p2
    Processes <- MCProcesses
    Candidates = 2
    StampOf <- MCStampOf
    MaxVersions = 2
    MaxStarts = 3
SYMMETRY MCSymmetry
INVARIANTS
    SidecarsAreWhole
    StampsAreHonest
    IndexFitsFile
CHECK_DEADLOCK FALSE
