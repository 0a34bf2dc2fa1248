SPECIFICATION LiveSpec
CONSTANTS
    IDs = {i1}
    RawDomains = {"a.example"}
    Domains = {"a.example"}
    Normalize <- Spelling
    NoDomain = NoDomain
    Upstreams = {"u1", "u2"}
    NoUpstream = NoUpstream
    Settings = {"default", "guarded"}
    DefaultSettings = "default"
    NoDeployment = NoDeployment
    NoRoute = NoRoute
    MaxSaves = 2
    MaxSwaps = 1
    MaxRestarts = 0
PROPERTY RemovedNotRouted
