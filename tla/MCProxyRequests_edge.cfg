SPECIFICATION Spec
CONSTANTS
    Requests = {r1, r2, r3}
    Matching = {r1, r2, r3}
    HourLength = 2
    Retention = 1
    PageSize = 1
    MaxTime = 3
    NoFile = NoFile
    c1 = c1
    app = app
    Clients = {c1}
    NoClient = NoClient
    Hosts = {app, dashboard}
    Dashboard = dashboard
    Kinds <- MCKinds
    Policies <- MCPolicies
    NoRoute = NoRoute
    Threshold = 2
    Window = 1
    BlockFor = 1
    MaxEvents = 1
INVARIANTS TypeOK RecentKept PagesComplete BlocksEarned BlocksEnd 
SYMMETRY Symmetry
CHECK_DEADLOCK FALSE
