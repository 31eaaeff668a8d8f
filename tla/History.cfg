SPECIFICATION HistorySpec
CONSTANTS
    u1 = u1
    u2 = u2
    ext = ext
    Users = {u1, u2}
    Systems = {ext}
    Owner = u1
    Requests = {1, 2, 3, 4}
    Keys = {k1}
    NoKey = NoKey
    BigintMax = 1
    MaxTime = 2
    DefaultLimit = 2
    MaxLimit = 3
    NoLimit = NoLimit
    NoCursor = NoCursor
    Garbled = Garbled
    Moves <- Deposits
    RawLimits <- Limits
INVARIANTS HistoryTypeOK NewestFirst NothingSkipped NextPageHasItems
