SPECIFICATION LiveSpec
CONSTANTS
    IDs = {d1, d2}
    Names = {"web", "web-next"}
    Images = {i1}
    Ports = {p1}
    Domains = {lotsenapp}
    NoDomain = NoDomain
    NoDeployment = NoDeployment
    Clients = {u1}
    Requested <- PortConfigs
    MaxOps = 2
    CIDs = {c1, c2, c3}
    CNames <- ContainerNames
    NextName <- NextNames
    NoContainer = NoContainer
    BaseDelay = 1
    MaxDelay = 3
    MaxFaults = 1
INVARIANT OrphansAreDeleted
PROPERTIES
    DeployEnds
    DeletedCleanedUp
    ExitNoticed
    TransientRetried
    StaleContainersGo
