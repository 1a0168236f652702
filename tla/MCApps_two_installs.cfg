CONSTANTS
    c1 = c1
    r1 = r1
    r2 = r2
    Containers = {c1}
    Hosts = {}
    Streamed = {}
    Found = {}
    Reqs = {r1, r2}
    Ports <- OnePort
    HostPort <- MCHostPort
    NoSlug = NoSlug
    NoRecord = NoRecord
    NoContainer = NoContainer
    NoReq = NoReq
    Faults = {}
SPECIFICATION Spec
INVARIANT OneInstall
