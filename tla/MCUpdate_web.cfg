CONSTANTS
    h1 = h1
    h2 = h2
    s1 = s1
    s2 = s2
    s3 = s3
    Handlers = {h1, h2}
    Scripts = {s1, s2, s3}
    NoScript = NoScript
    HasSystemd = TRUE
    HasFlock = FALSE
    Overlaps = {"check"}
    Faults = {"launch"}
    w1 = w1
    w2 = w2
    rd = rd
    a = a
    b = b
    i1 = i1
    i2 = i2
    i3 = i3
    Caller = {w1, w2}
    Onlooker = {rd}
    Values = {a, b}
    Inodes = {i1, i2, i3}
    NoInode = NoInode
    NoFile = NoFile
    Empty = Empty
    Torn = Torn
    PublishFaults = {"disk", "crash"}
SPECIFICATION UpdateSpec
INVARIANTS StatusHonest ReadsWhole
PROPERTIES UpdateSettles ImplementsAtomicFile
