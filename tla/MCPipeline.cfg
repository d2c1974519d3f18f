SPECIFICATION PipeSpec
CONSTANTS
    Requests <- MCRequests
    Queries <- MCQueries
    MaxDepth = 5
    Services <- MCServices
    AliasBodies <- MCAliasBodies
    ViewKinds <- MCViewKinds
    DefaultViews <- MCDefaultViews
    Readable = {1, 2, 3}
    Hits <- MCHits
    Score <- MCScore
    SubQueries <- MCSubQueries
    Rerankers <- MCRerankers
    Fusions <- MCFusions
    RelayOf <- MCRelayOf
    AutoRegistered = {"auto", "splitter"}
    BytesScorers = {"vlm"}
    Failing = {"flaky"}
    rerank_multiplier = 1
    rerank_topk_max = 2
    Limits <- AllLimits
    Collections = {"", "news", "shots"}
    FlakyLink = "rest"
    WithExpander = TRUE
INVARIANTS
    RunFindsWhatItNeeds
    AnswersAreWhole
    LimitKeepsTheBest
    RerankKeepsTheCandidates
    RerankersReadTheirTexts
    TransportsAgree
    
    AliasMeansItsBody
    
PROPERTIES
    EveryPipelineEnds
CHECK_DEADLOCK FALSE
