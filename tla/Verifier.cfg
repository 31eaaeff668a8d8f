SPECIFICATION VerifierFairSpec
CONSTANTS
    Users = {u1}
    Systems = {ext, house}
    Requests = {t1, t2}
    Keys = {k1}
    NoKey = NoKey
    BigintMax = 3
    MaxAmount = 2
    MaxFailures = 1
    MayTruncate = FALSE
CHECK_DEADLOCK FALSE
INVARIANTS VerifierTypeOK NoFalseAlarm
PROPERTIES OkMeansSound CorruptionReported LoopStops
