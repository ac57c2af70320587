CONSTANTS
    Admins = {"a1", "a2"}
    Clients = {"c1", "c2"}
    Handlers = {h1, h2}
    Values = {"v1", "v2"}
    Formats = {"yaml"}
    Percentages = {}
    AdminOps = {"save", "publish", "delete"}
    MaxOps = 4
    MaxFaults = 0
    Listening = {}
    Stoppers = {}
    None = None
    Digests <- MCDigests
    Md5 <- MCMd5
    Bucket <- MCBucket
SPECIFICATION Spec
SYMMETRY HandlerSymmetry
INVARIANTS
    TypeOK
    NoSendOnClosedChannel
    ListenersAreWaiting
    SubscribedIsWoken
PROPERTIES
    FreshAnswer
