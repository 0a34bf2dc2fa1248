SPECIFICATION LiveSpec
CONSTANTS
    IDs = {1, 2}
    Names = {"web"}
    Images = {"v1"}
    Ports = {}
    Domains = {}
    NoDomain = NoDomain
    NoDeployment = NoDeployment
    Prefixes = {"docker.io", "ghcr.io"}
    NoRegistry = NoRegistry
    Processes = {"api", "orchestrator"}
    Threads = {api1, api2, orch}
    Reconciler = orch
    ProcessOf <- Owner
    Requests <- FileRequests
    RequestsOf <- RequestsBy
    NoThread = NoThread
    NoRequest = NoRequest
    MaxFaults = 1
    MaxCalls = 3
INVARIANTS FileDecodes PrefixesUnique
PROPERTIES ImplementsAtomicStore CallsReturn
CHECK_DEADLOCK FALSE
