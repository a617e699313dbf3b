SPECIFICATION Spec
CONSTANTS
    v1 = v1
    v2 = v2
    dflt = dflt
    NumFields = 2
    ChainLen <- SingleLens
    OnFail <- MixedPolicy
    HasDefault = {1}
    Optional = {}
    Default <- MCDefault
    Vals <- MCVals
    Faults = {"failed"}
    Version <- MCVersion
    NoValue = NoValue
    NoVersion = NoVersion
    DefaultVersion = DefaultVersion
    Acceptable <- MCAcceptable
    DerivedOf <- MCDerived
    HistoryN = 1
    QueueDepth = 1
    BootstrapOn = FALSE
    Writes = {TRUE, FALSE}
    NoConfig = NoConfig
    MaxVersion = 3
CHECK_DEADLOCK FALSE
INVARIANTS
    ChangeFieldsExact
    HistoryIsTheAppliedPast
    SettledIsApplied
PROPERTIES
    EveryMoveAnnounced
