SPECIFICATION AuthSpec
CONSTANTS
    lower = lower
    upper = upper
    right = right
    wrong = wrong
    Blank = Blank
    Stray = Stray
    Calls = {c1, c2, c3, c4}
    Emails = {lower, upper, Blank}
    Passwords = {right, wrong, Blank}
    GoodEmails = {lower, upper}
    GoodPasswords = {right, wrong}
    Normal <- MCNormal
    Forms <- MCForms
    AccessTTL = 1
    RefreshTTL = 2
    MaxTime = 2
CONSTRAINT OneOdd
SYMMETRY Callers
INVARIANTS
    AuthTypeOK RegisteredOnce LoginIsRight SpentIsFinal OnlyLiveTokens
    RefusalExplained RotationRevokesFirst
PROPERTY ImplementsSessions
