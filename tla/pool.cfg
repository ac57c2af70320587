CONSTANTS
    IDs = {"n1", "n2"}
    Instances <- MCInstances
    KeyOrder <- MCKeyOrder
    PickCycle = 2
    Slots = {r1, r2}
    Requests = {q1, q2}
    Strategies = {"random"}
    FirstStrategy = "weighted_round_robin"
    RegistryPrefix = "/nexus/services"
    ResolverPrefix = "/nexus/services"
    Protocol = None
    MaxChanges = 3
    MaxUpdates = 1
    MaxFaults = 1
    None = None
SPECIFICATION Spec
SYMMETRY SlotSymmetry
INVARIANTS
    TypeOK
    ListFollows
    PoolOwnsResolvers
    WeightedFair
    SlicesStayWhole
PROPERTIES
    PicksFromList
CHECK_DEADLOCK FALSE
