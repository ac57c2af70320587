CONSTANTS
    Versions = {"v1", "v2", "v3"}
    Default = Default
    Listeners = {l1, l2}
    Main = Main
    Requests = {q1, q2}
    MaxDeliveries = 2
    None = None
    Parsed <- MCParsed
    Callers <- MCCallers
    KeyKind <- MCKeyKind
    Covers <- MCCovers
SPECIFICATION Spec
SYMMETRY GoroutineSymmetry
INVARIANTS
    TypeOK
    QuietConfigInForce
    CalmRequestsJudged
CHECK_DEADLOCK FALSE
