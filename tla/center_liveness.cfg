CONSTANTS
    Admins = {"a1"}
    Clients = {"c1"}
    Handlers = {"h1"}
    Values = {"v1", "v2"}
    Formats = {"yaml"}
    Percentages = {50}
    AdminOps = {"save", "publish", "rule"}
    MaxOps = 4
    MaxFaults = 1
    Listening = {"c1"}
    Stoppers = {"c1"}
    None = None
    Digests <- MCDigests
    Md5 <- MCMd5
    Bucket <- MCBucket
SPECIFICATION FairSpec
PROPERTIES
    HandlersReturn
    StopReturns
    Convergence
CHECK_DEADLOCK FALSE
