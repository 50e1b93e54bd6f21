SPECIFICATION Spec
CONSTANTS
    Ops = {o1, o2}
    GatewayOps = {o1}
    Watchers = {{}}
    Keys = {"k1", "k2"}
    Contents <- SomeContents
    KeepVersions = 1
    BufSize = 1
    MaxFaults = 0
    MaxIM = 1
CHECK_DEADLOCK FALSE
INVARIANTS GatewayFollows
