CONSTANTS
    k1 = k1
    k2 = k2
    r1 = r1
    r2 = r2
    r3 = r3
    b1 = b1
    b2 = b2
    b3 = b3
    Key = {k1, k2}
    Request = {r1, r2, r3}
    Bridge = {b1, b2, b3}
    NoOne = NoOne
    Asked <- OneOrTwo
    Room = 1
    Faults = {"refuse", "idle", "die", "deaf"}
SPECIFICATION FairSpec
INVARIANTS OwnAnswer OneUntilEvicted
PROPERTIES Answered
