CONSTANTS
    Admins = {a1, a2, a3}
    Clients = {"c1"}
    Handlers = {"h1"}
    Values = {"v1", "v2"}
    Formats = {"yaml", "json"}
    Percentages = {0, 50}
    AdminOps = {"save", "publish", "delete", "rule", "deleteRule", "deleteNamespace"}
    MaxOps = 6
    MaxFaults = 1
    None = None
    Digests <- MCDigests
    Md5 <- MCMd5
    Bucket <- MCBucket
SPECIFICATION StoreSpec
SYMMETRY AdminSymmetry
INVARIANTS
    StoreTypeOK
    RowsIntact
    PublishedFromOwnDraft
CHECK_DEADLOCK FALSE
