SPECIFICATION Spec
CONSTANTS
    u1 = u1
    u2 = u2
    ext = ext
    house = house
    k1 = k1
    k2 = k2
    Users = {u1, u2}
    Systems = {ext}
    Keys = {k1, k2}
    NoKey = NoKey
    NoTx = NoTx
    BigintMax = 3
    MaxId = 4
    Rank <- MCRank
    Requests = {r1, r2, r3}
    MaxConns = 2
    Params <- MixedParams
SYMMETRY Callers
INVARIANTS TypeOK IInv AuditClean NoOverdraft FundsReserved AnswersNamePosting HoldsNothingOutside
PROPERTY ImplementsLedger
