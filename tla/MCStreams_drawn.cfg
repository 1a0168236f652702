CONSTANTS
    u1 = u1
    r1 = r1
    r2 = r2
    User = {u1}
    Admin = u1
    Request = {r1, r2}
    NoOne = NoOne
    Faults = {"kill", "reboot", "slow", "elsewhere", "wedge", "vnc", "reload", "crash"}
SPECIFICATION FairSpec
INVARIANTS WrittenIsLoaded Reachable ClearGround
PROPERTIES Ends
