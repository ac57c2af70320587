CONSTANTS
    Admins = {a1}
    Clients = {"c1"}
    Handlers = {"h1"}
    Values = {"v1", "v2"}
    Formats = {"yaml", "json"}
    Percentages = {0, 50}
    AdminOps = {"save", "publish", "delete", "rule", "deleteRule", "deleteNamespace"}
    MaxOps = 3
    MaxFaults = 0
    None = None
    Digests <- MCDigests
    Md5 <- MCMd5
    Bucket <- MCBucket
SPECIFICATION StoreSpec
INVARIANT ReleasedFormat
CHECK_DEADLOCK FALSE
