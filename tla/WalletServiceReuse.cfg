SPECIFICATION ServiceSpec
CONSTANTS
    u1 = u1
    u2 = u2
    ext = ext
    k1 = k1
    k2 = k2
    k3 = k3
    Users = {u1, u2}
    Systems = {ext}
    External = ext
    Requests = {r1, r2, r3}
    Keys = {k1, k2, k3}
    NoKey = NoKey
    NoTx = NoTx
    BigintMax = 4
    MaxId = 3
    MaxConns = 2
    Rank <- MCRank
    Http <- ReuseHttp
    Params <- ServiceParams
SYMMETRY Callers
PROPERTY ReportsUserBalance

