SPECIFICATION Spec
CONSTANTS
    IDs = {d1}
    Names = {"web"}
    Images = {i1, i2}
    Ports = {p1}
    Domains = {}
    NoDomain = NoDomain
    NoDeployment = NoDeployment
    Clients = {u1}
    Requested <- OnePortConfigs
    MaxOps = 2
    CIDs = {c1, c2, c3}
    CNames <- ContainerNames
    NextName <- NextNames
    NoContainer = NoContainer
    BaseDelay = 1
    MaxDelay = 3
    MaxFaults = 1
INVARIANT OldSurvivesFailedRedeploy
