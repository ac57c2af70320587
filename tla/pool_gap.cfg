CONSTANTS
    IDs = {"n1", "n2"}
    Instances <- MCInstances
    KeyOrder <- MCKeyOrder
    PickCycle = 2
    Slots = {r1}
    Requests = {q1}
    Strategies = {"round_robin"}
    FirstStrategy = "weighted_round_robin"
    RegistryPrefix = "/nexus/services"
    ResolverPrefix = "/nexus/services"
    Protocol = None
    MaxChanges = 1
    MaxUpdates = 1
    MaxFaults = 1
    None = None
SPECIFICATION Spec
INVARIANTS
    PooledListIsCurrent
CHECK_DEADLOCK FALSE
