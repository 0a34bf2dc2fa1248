SPECIFICATION Spec
CONSTANTS
    IDs = {d1}
    Names = {"web"}
    Images = {i1, i2}
    Ports = {}
    Domains = {}
    NoDomain = NoDomain
    NoDeployment = NoDeployment
    Clients = {u1}
    Requested <- PlainConfigs
    MaxOps = 2
    CIDs = {c1, c2}
    CNames <- ContainerNames
    NextName <- NextNames
    NoContainer = NoContainer
    BaseDelay = 1
    MaxDelay = 3
    MaxFaults = 0
INVARIANT ConcurrentSavesApplied
