SPECIFICATION Spec
CONSTANTS
    IDs = {1, 2}
    HostPorts = {2}
    ContainerPorts = {80, 443}
    Protocols = {"tcp", "udp"}
    RangeMin = 1
    RangeMax = 3
    WebPorts = {80}
    MaxSpecs = 2
    MaxOps = 3
INVARIANTS BindingsDistinct RequestBound UpstreamsAgree
CHECK_DEADLOCK FALSE
