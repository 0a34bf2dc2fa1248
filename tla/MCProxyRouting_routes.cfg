SPECIFICATION LiveSpec
CONSTANTS
    IDs = {i1, i2}
    RawDomains = {"a.example", "A.example.", "b.example", " "}
    Domains = {"a.example", "b.example"}
    Normalize <- Spelling
    NoDomain = NoDomain
    Upstreams = {"u1", "u2"}
    NoUpstream = NoUpstream
    Settings = {"default", "guarded"}
    DefaultSettings = "default"
    NoDeployment = NoDeployment
    NoRoute = NoRoute
    MaxSaves = 2
    MaxSwaps = 1
    MaxRestarts = 1
PROPERTY RoutesFollowStore
INVARIANT RouteOldOrNew
