SPECIFICATION PipelineSpec
CONSTANTS
    v1 = v1
    v2 = v2
    dflt = dflt
    NumFields = 1
    ChainLen <- TwoLen
    OnFail <- OneFail
    HasDefault = {}
    Optional = {}
    Default <- MCDefault
    Vals <- MCVals
    Faults = {"absent", "failed"}
    Version <- MCVersion
    NoValue = NoValue
    NoVersion = NoVersion
    DefaultVersion = DefaultVersion
    Acceptable <- AnyConfig
    DerivedOf <- NoDerived
    HistoryN = 0
    QueueDepth = 1
    BootstrapOn = FALSE
    Writes = {TRUE}
    NoConfig = NoConfig
    MaxVersion = 9
    Native <- FirstRef
    Faulty <- FirstRef
    NoUpdate = NoUpdate
    MaxMoves = 2
CHECK_DEADLOCK FALSE
PROPERTIES
    Converges
