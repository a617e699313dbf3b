CONSTANTS
    Callers = {c1}
    Refs = {r1, r2}
    LoneCallers = {c1, c2}
    LoneRefs = {r1}
    Served <- AllServed
    Misread <- Misreadings
    Sparing = {"heroku", "cloudflare-kv", "aws-sm", "aws-ps", "mamori"}
    MaxMoves = 1
SPECIFICATION Spec
INVARIANTS
    VerdictIsDeserved
    CloseIsFinal
