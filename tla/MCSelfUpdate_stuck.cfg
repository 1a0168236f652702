CONSTANTS
    h1 = h1
    h2 = h2
    s1 = s1
    s2 = s2
    s3 = s3
    Handlers = {h1, h2}
    Scripts = {s1, s2, s3}
    NoScript = NoScript
    HasSystemd = TRUE
    HasFlock = TRUE
    Overlaps = {"hand"}
    Faults = {}
SPECIFICATION Spec
INVARIANT StatusHonest
