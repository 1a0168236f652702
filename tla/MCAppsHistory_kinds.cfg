CONSTANTS
    c1 = c1
    h1 = h1
    r1 = r1
    r2 = r2
    Containers = {c1}
    Hosts = {h1}
    Streamed = {}
    Found = {}
    Reqs = {r1, r2}
    Ports <- OnePort
    HostPort <- MCHostPort
    NoSlug = NoSlug
    NoRecord = NoRecord
    NoContainer = NoContainer
    NoReq = NoReq
    Faults = {"disk", "hangup"}
SPECIFICATION HistorySpec
INVARIANTS NoOrphan WorksAlone
SYMMETRY ReqSymmetry
