SPECIFICATION Spec
CONSTANTS
    v1 = v1
    v2 = v2
    v3 = v3
    r1 = r1
    r2 = r2
    Instances <- MCInstances
    Idle = 3
    Rotate = 2
    Extend = 1
    CacheTTL = 1
    MinGrace = 1
    ExtLockTTL = 1
    IndexFloor = 2
    MaxTokens = 3
SYMMETRY Perms
CHECK_DEADLOCK FALSE
INVARIANTS CachedWithinMaxLifetime IndexCoversSessions EpochNotLaundered RetiredTokenDies
