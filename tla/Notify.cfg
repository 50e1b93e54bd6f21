SPECIFICATION Spec
CONSTANTS
    Clients = {c1, c2}
    Providers = {"a", "b"}
    Vars = {"x"}
    Attempts = 3
    CacheMax = 1
    Instances <- Cases
SYMMETRY Symmetric
CHECK_DEADLOCK FALSE
INVARIANTS NoDuplicate SettingsApplied
PROPERTY DoneSticks
