SPECIFICATION Spec
CONSTANTS
    IDs = {d1}
    Names = {"web"}
    Images = {i1, i2}
    Ports = {}
    Domains = {}
    NoDomain = NoDomain
    NoDeployment = NoDeployment
    Clients = {u1}
    Requested <- PlainConfigs
    MaxOps = 3
    CIDs = {c1, c2, c3, c4}
    CNames <- ContainerNames
    NextName <- NextNames
    NoContainer = NoContainer
    BaseDelay = 2
    MaxDelay = 3
    MaxFaults = 2
INVARIANTS
    OldKeptOnFailedReplace
    HealthyIsBacked
    NoStaleContainers
PROPERTIES
    NoResurrection
    RetryBackoff
SYMMETRY Symmetry
