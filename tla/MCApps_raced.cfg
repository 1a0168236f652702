CONSTANTS
    c1 = c1
    h1 = h1
    s1 = s1
    r1 = r1
    r2 = r2
    Containers = {c1}
    Hosts = {h1}
    Streamed = {s1}
    Found = {s1}
    Reqs = {r1, r2}
    Ports <- OnePort
    HostPort <- MCHostPort
    NoSlug = NoSlug
    NoRecord = NoRecord
    NoContainer = NoContainer
    NoReq = NoReq
    Faults = {"engine"}
SPECIFICATION RacedSpec
INVARIANTS FlagIsHonest FoundStays
PROPERTY FlagLowered
