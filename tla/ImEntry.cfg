SPECIFICATION EntrySpec
CONSTANTS
    c1 = c1
    c2 = c2
    c3 = c3
    a1 = a1
    a2 = a2
    t1 = t1
    t2 = t2
    Clients = {c1, c2, c3}
    Apps = {a1, a2}
    Tokens = {t1, t2}
    MaxTries = 3
    Minute = 2
    Rate = 1
    None = None
    All = All
    Instances <- MCInstances
INVARIANTS RevokedIsClosed GiveUpReported GuestsBounded
PROPERTY ClientReturns
CHECK_DEADLOCK FALSE
