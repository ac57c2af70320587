CONSTANTS
    Hosts = {"h1", "h2"}
    Multi = {"h2"}
    IDs = {"n1", "n2", "n3"}
    Offers <- MCOffers
    MaxLeases = 4
    MaxFaults = 1
    None = None
SPECIFICATION FairSpec
INVARIANTS
    TypeOK
    RegisteredIsListed
PROPERTIES
    DepartedAreDropped
    ImplementsDirectory
CHECK_DEADLOCK FALSE
