SPECIFICATION FenceSpec
CONSTANTS
    Logins = {l1}
    Admins = {a1, a2}
SYMMETRY Perms
CHECK_DEADLOCK FALSE
INVARIANTS
    FenceTypeOK
    FreezeFence
    ResetFence
PROPERTY AccessSpec
