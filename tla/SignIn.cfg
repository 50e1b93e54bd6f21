SPECIFICATION Spec
CONSTANTS
    Flows = {"f1", "f2"}
    Deliver <- HowDelivered
    Subject <- Openid
    UnionKey <- Unionid
    Phones = {"p", "q"}
    Callbacks = {c1, c2}
    Requests = {r1, r2}
    InitIds <- Tables
    Instances <- Cases
    MaxTries = 2
    MaxCodes = 2
SYMMETRY Symmetric
CHECK_DEADLOCK FALSE
INVARIANTS TriesBounded UnionKeyOneOwner OneLoginPerFlow
