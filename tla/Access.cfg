SPECIFICATION Spec
CONSTANTS
    base = base
    child = child
    heir = heir
    again = again
    rG = rG
    p1 = p1
    p2 = p2
    k1 = k1
    k2 = k2
    u1 = u1
    a1 = a1
    a2 = a2
    ad1 = ad1
    ad2 = ad2
    l1 = l1
    l2 = l2
    app1 = app1
    app2 = app2
    s1 = s1
    s2 = s2
    RoleIds = {base, child, heir, again, rG}
    CodeOf <- MCCodeOf
    Perms = {p1, p2}
    Keys = {k1, k2}
    Users = {u1}
    AKs = {a1, a2}
    Depth = 6
    None = None
    Window = 1
    NonceCapacity = 1
    Minute = 2
    Admins = {ad1, ad2}
    Oldest = ad1
    Logins = {l1, l2}
    Apps = {app1, app2}
    AppCode <- MCAppCode
    ImSecrets = {s1, s2}
    SecretTTL = 1
    ImTTL = 1
    CredTTL = 1
    Instances <- MCInstances
INVARIANTS TablesSound QuietDecides NonceOnce UsageKept SessionFence ReplacedOnce CredentialLapses
PROPERTY PolicySettles
CHECK_DEADLOCK FALSE
