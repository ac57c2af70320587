CONSTANTS
    Admins = {"a1"}
    Clients = {"c1"}
    Handlers = {"h1"}
    Values = {"v1", "v2"}
    Formats = {"yaml"}
    Percentages = {50}
    AdminOps = {"save", "publish"}
    MaxOps = 4
    MaxFaults = 0
    Listening = {"c1"}
    Stoppers = {}
    None = None
    Digests <- MCDigests
    Md5 <- MCMd5
    Bucket <- MCBucket
SPECIFICATION Spec
INVARIANT ListenerEndsOnCache
