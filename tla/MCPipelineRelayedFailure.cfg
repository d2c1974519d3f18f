SPECIFICATION PipeSpec
CONSTANTS
    Requests <- MCRequests
    Queries <- MCQueries
    MaxDepth = 5
    Services <- MCServices
    AliasBodies <- MCAliasBodies
    ViewKinds <- MCViewKinds
    DefaultViews <- MCDefaultViews
    Readable = {1, 2, 3}
    Hits <- MCHits
    Score <- MCScore
    SubQueries <- MCSubQueries
    Rerankers <- MCRerankers
    Fusions <- MCFusions
    RelayOf <- MCRelayOf
    AutoRegistered = {"auto", "splitter"}
    BytesScorers = {"vlm"}
    Failing = {"flaky"}
    rerank_multiplier = 1
    rerank_topk_max = 2
    Limits <- NoLimits
    Collections = {"news"}
    FlakyLink = "grpc"
    WithExpander = FALSE
INVARIANTS
    FailuresSurface
CHECK_DEADLOCK FALSE
