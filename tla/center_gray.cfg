CONSTANTS
    Admins = {"a1", "a2"}
    Clients = {"c2"}
    Handlers = {h1, h2}
    Values = {"v1", "v2"}
    Formats = {"yaml"}
    Percentages = {50, 80}
    AdminOps = {"save", "publish", "rule", "deleteRule", "deleteNamespace"}
    MaxOps = 4
    MaxFaults = 1
    Listening = {}
    Stoppers = {}
    None = None
    Digests <- MCDigests
    Md5 <- MCMd5
    Bucket <- MCBucket
SPECIFICATION Spec
SYMMETRY HandlerSymmetry
INVARIANTS
    CachesIntact
    DraftsStayPrivate
PROPERTIES
    ImplementsRelease
