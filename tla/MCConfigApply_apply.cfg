\* One write of the API anywhere around plans and applies of four files.
SPECIFICATION Spec
CONSTANTS
    app = app  web = web  s0 = s0  s1 = s1  s2 = s2  s3 = s3  m1 = m1  m2 = m2
    p = p  raw = raw  u1 = u1  u2 = u2  h1 = h1  h2 = h2
    IDs = {d1, d2, d3}
    RegIDs = {r1, r2}
    Names = {app, web}
    Specs = {s0, s1, s2, s3}
    Domains = {m1, m2}
    NoDomain = NoDomain
    Prefixes = {p, raw}
    NormalOf <- MCNormalOf
    KeptOf <- MCKeptOf
    PortsOf <- MCPortsOf
    Users = {u1, u2}
    Hosts = {h1, h2}
    Documents <- MCDocuments
    Seeds <- MCSeeds
    None = None
    MaxWrites = 1
    MaxCommands = 3
INVARIANTS TypeOK LeftoversReported
PROPERTIES OnlyApproved StatusIsCurrent HandoverKeepsDomain
SYMMETRY Symmetry
CHECK_DEADLOCK FALSE
