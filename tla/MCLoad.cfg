SPECIFICATION LoadSpec
CONSTANTS
    v1 = v1
    v2 = v2
    dflt = dflt
    NumFields = 3
    ChainLen <- MCLens
    OnFail <- MCPolicy
    HasDefault <- MCHasDefault
    Optional <- MCOptional
    Default <- MCDefault
    Vals <- MCVals
    Faults = {"failed"}
    Version <- MCVersion
    NoValue = NoValue
    NoVersion = NoVersion
    DefaultVersion = DefaultVersion
    Acceptable <- MCAcceptable
    DerivedOf <- NoDerived
    HistoryN = 0
    QueueDepth = 1
    BootstrapOn = TRUE
    Writes = {TRUE}
    NoConfig = NoConfig
    MaxVersion = 2
    FieldScheme <- MCSchemes
    Batched <- MCBatched
    Leased = {v2}
    Reporting = {1, 2}
VIEW MCView
CHECK_DEADLOCK FALSE
INVARIANTS
    DiskIsCurrent
    StatusIsTrue
    FallbackIsDeserved
    DoctorForetells
PROPERTY
    SnapshotSurvives
    ToolIsTrue
