SPECIFICATION Spec
CONSTANTS
    Nodes = {n1, n2}
    Conns = {a, b}
    Policies = {"replace", "reject", "limit"}
    Limit = 1
    FaultKinds = {"crash", "cut", "loss", "remove", "kick", "renew"}
    MaxFaults = 1
    MaxKicks = 1
SYMMETRY Perms
INVARIANTS InServiceIsRouted WithinPolicy
