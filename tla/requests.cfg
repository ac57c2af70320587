CONSTANTS
    Configs <- MCConfigs
    Requests = {q1, q2}
    Addresses = {a1}
    Statuses = {200, 500}
    GrpcCodes = {"NotFound", "Unavailable"}
    CacheTTL = 1
    MaxTime = 2
    MaxArrivals = 5
    MaxChanges = 1
    None = None
SPECIFICATION Spec
SYMMETRY RequestSymmetry
INVARIANTS
    TypeOK
    BurstBounded
    ExtensionsBounded
    ConnectionsOwned
PROPERTIES
    OpensOnRecentFailures
CHECK_DEADLOCK FALSE
