SPECIFICATION VerifierSpec
CONSTANTS
    Users = {u1}
    Systems = {ext, house}
    Requests = {t1, t2}
    Keys = {k1}
    NoKey = NoKey
    BigintMax = 3
    MaxAmount = 2
    MaxFailures = 1
    MayTruncate = TRUE
CHECK_DEADLOCK FALSE
SYMMETRY Transfers
PROPERTY OkMeansSound
