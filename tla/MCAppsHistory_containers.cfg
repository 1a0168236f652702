CONSTANTS
    c1 = c1
    c2 = c2
    r1 = r1
    r2 = r2
    Containers = {c1, c2}
    Hosts = {}
    Streamed = {}
    Found = {}
    Reqs = {r1, r2}
    Ports <- TwoPorts
    HostPort <- MCHostPort
    NoSlug = NoSlug
    NoRecord = NoRecord
    NoContainer = NoContainer
    NoReq = NoReq
    Faults = {"crash", "hangup"}
SPECIFICATION HistorySpec
SYMMETRY ContainerSymmetry
INVARIANTS PortsDistinct
PROPERTIES OnlyRemovalDeletes PurgeSparesInstalled
