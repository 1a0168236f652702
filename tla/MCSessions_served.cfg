CONSTANTS
    t1 = t1
    t2 = t2
    r1 = r1
    r2 = r2
    f1 = f1
    v1 = v1
    Tokens = {t1, t2}
    Reqs = {r1, r2}
    Files = {f1}
    Values = {v1}
    Gone = Gone
    Torn = Torn
    Mixed = Mixed
    NoReq = NoReq
    NoJob = NoJob
    NoAnswer = NoAnswer
    Failed = Failed
    Faults = {"hangup", "killed", "crash"}
SPECIFICATION FairSpec
INVARIANTS OwnAnswer NoStrayHelper
PROPERTIES WritesEnd LockLetGo SignedOutHelperGoes
