SPECIFICATION DocSpec
CONSTANTS
    Views = {"ocr", "frames", "audio"}
    Backend <- MCBackend
    DocIds = {"d1", "d2"}
    Parts <- MCParts
    Sites <- MCSites
    NoView = "none"
    Tasks = {1, 2, 3, 4, 5}
    KeyFor <- MCKeyFor
    Bytes <- MCBytes
    MaxBytes = 4
    NoCap = nocap
INVARIANTS
    EachGetsItsContent
    CapHolds
