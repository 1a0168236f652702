CONSTANTS
    h1 = h1
    h2 = h2
    s1 = s1
    s2 = s2
    s3 = s3
    Handlers = {h1, h2}
    Scripts = {s1, s2, s3}
    NoScript = NoScript
    HasSystemd = TRUE
    HasFlock = TRUE
    Overlaps = {"check", "hand"}
    Faults = {"launch", "early", "kill", "crash", "power"}
    Chunks = 3
    PtyRoom = 1
    QueueRoom = 1
    Bytes = 2
    SocketRoom = 2
    a = a
    b = b
    n = n
    App = {a, b}
    OwnOrigin = {b}
    Name = {n}
    WebDesk = WebDesk
    MaxPairs = 3
    CertificateFaults = {"readonly", "full", "kill"}
    MaxLine = 4
    MaxFrame = 4
    MaxData = 2
    MaxFrames = 2
    root = root
    boot = boot
    x = x
    y = y
    Mount = {root, boot}
    RootMount = root
    Level = {x, y}
    Null = Null
    MaxMessages = 4
    cron = cron
    timer = timer
    Service = {cron}
    OtherUnit = {timer}
    MaxMoves = 2
    Releases = {"fedora", "el9", "el10"}
    MaxByHand = 1
SPECIFICATION PartsSpec
INVARIANTS PartsTypeOK OneUpdate RunningShown OutputKept InOrder OwnCookies
    Decodes SampleRight PanelTrue HostServed
PROPERTIES ShellReaped ThreadEnds RelayEnds Told Arrives PairKept
CHECK_DEADLOCK FALSE
