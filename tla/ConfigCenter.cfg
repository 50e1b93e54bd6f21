SPECIFICATION LiveSpec
CONSTANTS
    Ops = {o1, o2}
    GatewayOps = {o1}
    Watchers = {{}, {"struct"}, {"map"}}
    Keys = {"k1", "k2"}
    Contents <- SomeContents
    KeepVersions = 1
    BufSize = 1
    MaxFaults = 1
    MaxIM = 1
CHECK_DEADLOCK FALSE
INVARIANTS AckedVersionKept QuietReflects
PROPERTIES NeverOlder ChangeArrives
