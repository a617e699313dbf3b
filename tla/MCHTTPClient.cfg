SPECIFICATION Spec
CONSTANTS
    c1 = c1
    c2 = c2
    Callers = {c1, c2}
    web = web
    doc = doc
    other = other
    nac = nac
    Keys = {web, other, doc, nac}
    Revalidated = {web, other, nac}
    Memoized = {doc}
    Replicated = {nac}
    Throttled = {doc}
    Programs <- MCPrograms
    Plain = {nac}
    None = None
    Issuer <- MCIssuer
    MaxEntries = 1
    TTL = 1
    Gap = 1
    Lifetime = 2
    Leeway = 1
    Kinds = {"not_found", "rate_limited"}
    TokenKinds = {"unknown", "not_found"}
    MaxVersion <- MCMaxVersion
    MaxFaults <- MCMaxFaults
    MaxTime = 2
CHECK_DEADLOCK FALSE
INVARIANTS
    TokenShared
    KindIsDeserved
    AnswerIsCurrent
    BoundedStaleness
PROPERTY
    CallsReturn
