CONSTANTS
    Versions = {"v1", "v2"}
    Default = Default
    Listeners = {l1}
    Main = Main
    Requests = {}
    MaxDeliveries = 1
    None = None
    Parsed <- MCParsed
    Callers <- MCCallers
    KeyKind <- MCKeyKind
    Covers <- MCCovers
SPECIFICATION Spec
INVARIANTS
    KeysFollowConfig
CHECK_DEADLOCK FALSE
