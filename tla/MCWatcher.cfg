SPECIFICATION FairSpec
CONSTANTS
    Callers = {c1}
    Handler = handler
    Hook = hook
    None = none
    Issues <- MCIssues
    MaxVersion = 3
    Depth = 1
    SourcesEnd = FALSE
    HandlerCloses = FALSE
PROPERTIES
    KeepsPromise
    CallsReturn
    NewestAnnounced
