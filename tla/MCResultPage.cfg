SPECIFICATION PageSpec
CONSTANTS
    ARGS <- MCARGS
    PageRequests <- MCPageRequests
    Avail <- MCAvail
    Rankings <- MCRankings
    Contents <- MCContents
    MediaPrefs <- MCMediaPrefs
    Alphabet <- MCAlphabet
    PageSize = 2
    MaxRenders = 4
INVARIANTS
    ShowsTheChosenPage
CHECK_DEADLOCK FALSE
