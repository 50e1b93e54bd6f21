------------------------------ MODULE MCAccess ------------------------------
(* Instances of Console.                                                   *)
EXTENDS Console, TLC

CONSTANTS base, child, heir, again, rG, p1, p2, k1, k2, u1, a1, a2, ad1, ad2, l1, l2, app1, app2, s1, s2

MCCodeOf == base :> "base" @@ child :> "child" @@ heir :> "heir" @@ again :> "child" @@ rG :> "GUEST"

Grants(pairs) == [x \in RoleIds \X Perms |-> IF x \in DOMAIN pairs THEN pairs[x] ELSE ""]

Quiescent ==
    [roles |-> {base, child, rG},
     parent |-> [r \in RoleIds |-> IF r = child THEN base ELSE None],
     grants |-> Grants(<<base, p1>> :> "allow" @@ <<rG, p2>> :> "allow"),
     keyOf |-> (p1 :> k1 @@ p2 :> k2), keys |-> [a \in AKs |-> "absent"], ops |-> {},
     ready |-> TRUE, timer |-> FALSE, faults |-> 0, kinds |-> {},
     ticks |-> 0, stale |-> FALSE, flushers |-> {}, reqs |-> {},
     admins |-> [a \in Admins |-> [name |-> "", pw |-> "", status |-> "absent"]],
     logins |-> [l \in Logins |-> [name |-> "", pw |-> ""]], changes |-> {},
     apps |-> {}, imSecret |-> None, calls |-> {}]

Request(id, by, ak, nonce, ts) ==
    [id |-> id, by |-> by, ak |-> ak, nonce |-> nonce, ts |-> ts, good |-> TRUE, ip |-> TRUE, user |-> u1, key |-> k1]

Op(do, fields) == [do |-> do, by |-> None] @@ fields

(* Changes of the graph and of the grants, with a gap.                     *)
Grant(r, p, e) == Op("grant", [id |-> r, perm |-> p, effect |-> e])

Graphs ==
    [Quiescent EXCEPT !.kinds = {"gap"}, !.faults = 1,
       !.ops = {Op("updateRole", [id |-> child, parent |-> None]), Op("deleteRole", [id |-> base]),
                Grant(child, p2, "deny"), Op("createRole", [id |-> heir, parent |-> child])}]

Points ==
    [Quiescent EXCEPT !.kinds = {"gap"}, !.faults = 1,
       !.ops = {Op("report", [perm |-> p2, key |-> k2]), Op("rename", [perm |-> p1, key |-> k2]),
                Op("deletePerm", [perm |-> p2]), Grant(rG, p1, "deny"), Grant(child, p1, "deny")}]

(* A role under two overlapping UpdateRole; codes written while their role *)
(* goes, and comes back.                                                   *)
Cycles ==
    [Quiescent EXCEPT !.roles = {base, child, heir, rG},
       !.keys = [a \in AKs |-> "base"],
       !.reqs = {[Request(1, "key", a1, 1, 2) EXCEPT !.good = FALSE]},
       !.ops = {Op("updateRole", [id |-> base, parent |-> heir]), Op("updateRole", [id |-> heir, parent |-> child]),
                Grant(heir, p2, "allow")}]

Writes ==
    [Quiescent EXCEPT
       !.ops = {Op("userRoles", [user |-> u1, codes |-> {"child", "base"}]), Op("defaultRole", [code |-> "child"]),
                Op("deleteRole", [id |-> child]), Op("createRole", [id |-> again, parent |-> None])},
       !.reqs = {Request(1, "user", a1, 1, 2)}]

(* The periodic refresh against everything that is not announced.          *)
Periodic ==
    [Quiescent EXCEPT !.timer = TRUE, !.kinds = {"say", "fetch", "gap"}, !.faults = 1,
       !.ops = {Grant(child, p1, "deny"), Op("createRole", [id |-> heir, parent |-> child])}]

(* A key that is bound anew, disabled and deleted while it is used.        *)
Keyed ==
    [Quiescent EXCEPT !.keys = [a \in AKs |-> IF a = a1 THEN "child" ELSE "absent"],
       !.kinds = {"gap"}, !.faults = 1, !.stale = TRUE,
       !.ops = {Op("bindKey", [ak |-> a1, code |-> "base"]), Op("keyStatus", [ak |-> a1, status |-> "DISABLED"])},
       !.reqs = {Request(1, "key", a1, 1, 2), [Request(2, "key", a1, 2, 2) EXCEPT !.ip = FALSE]}]

Keys2 ==
    [Keyed EXCEPT !.kinds = {"lookup"}, !.ops = {Op("deleteKey", [ak |-> a1]), Op("createKey", [ak |-> a2, code |-> "child"]),
                Op("bindKey", [ak |-> a2, code |-> "GUEST"]), Op("deleteRole", [id |-> child])},
       !.reqs = {Request(1, "nobody", a1, 1, 2), Request(2, "key", a1, 2, 2)}]

Roleless ==
    [Quiescent EXCEPT !.roles = {}, !.parent = [r \in RoleIds |-> None], !.grants = Grants(<<>>),
       !.keys = [a \in AKs |-> None]]

(* Replays in a table of one, and uses that are reported with errors.      *)
Replays ==
    [Roleless EXCEPT !.ticks = 2,
       !.reqs = {Request(1, "key", a1, 1, 2), Request(2, "key", a1, 1, 2), Request(3, "key", a1, 2, 3)}]

Reports ==
    [Roleless EXCEPT !.ticks = 2, !.flushers = Flushers, !.kinds = {"usage"}, !.faults = 2,
       !.reqs = {Request(1, "key", a1, 1, 2), Request(2, "key", a1, 2, 4)}]

(* Two administrators, two logins, and what changes the accounts.          *)
Account(name, pw) == [name |-> name, pw |-> pw, status |-> "ACTIVE"]
Change(by, name, old, new) == [do |-> "change", by |-> by, name |-> name, old |-> old, new |-> new]
Reset == [do |-> "reset", new |-> "pw9"]

Accounts1 ==
    [Quiescent EXCEPT !.admins = ad1 :> Account("admin", "pw1") @@ ad2 :> Account("root", "pw2"),
       !.logins = l1 :> [name |-> "admin", pw |-> "pw1"] @@ l2 :> [name |-> "root", pw |-> "pw2"],
       !.kinds = {"bump"}, !.faults = 1,
       !.changes = {Change(l1, "admin", "pw1", "pw3"), Reset, [do |-> "logout", by |-> l2]},
       !.ops = {[Grant(child, p1, "deny") EXCEPT !.by = l2]}]

Accounts2 ==
    [Accounts1 EXCEPT !.logins = l1 :> [name |-> "admin", pw |-> "pw1"] @@ l2 :> [name |-> "admin", pw |-> "pw1"],
       !.changes = {Change(l1, "admin", "pw1", "pw3"), Change(l2, "chief", "pw1", ""), Reset}, !.ops = {}]

Bootstrap ==
    [Quiescent EXCEPT !.logins = l1 :> [name |-> "admin", pw |-> "pw0"] @@ l2 :> [name |-> "", pw |-> ""],
       !.changes = {[do |-> "bootstrap", name |-> "admin", new |-> "pw0"], Reset, Change(l1, "admin", "pw0", "pw3")}]

(* A code that changes hands while its servers call, with entries of a     *)
(* life of one tick; fp-im's secret rotated and an application closed      *)
(* under calls of fp-im and streams to it.                                 *)
MCAppCode == [a \in Apps |-> "shop"]
Call(id, via, as, secret) == [id |-> id, via |-> via, as |-> as, secret |-> secret, own |-> s1]

Resold ==
    [Quiescent EXCEPT !.ticks = 1, !.apps = {app1},
       !.ops = {Op("appStatus", [app |-> app1, status |-> "DISABLED"]), Op("deleteApp", [app |-> app1]),
                Op("createApp", [app |-> app2])},
       !.calls = {Call(1, "app", "shop", app1), Call(2, "app", "shop", app1)}]

Rotated ==
    [Quiescent EXCEPT !.ticks = 1, !.apps = {app1}, !.imSecret = s1,
       !.ops = {Op("rotate", [secret |-> s2])},
       !.calls = {Call(1, "im", app1, s1), Call(2, "im", app1, s1), Call(3, "gate", "shop", app1)}]

Closed ==
    [Rotated EXCEPT !.ops = {Op("setIM", [app |-> app1, im |-> FALSE]), Op("appStatus", [app |-> app1, status |-> "DISABLED"])},
       !.calls = {Call(1, "gate", "shop", app1), Call(2, "gate", "shop", app1)}]

MCInstances ==
    {Graphs, Points, Cycles, Writes, Periodic, Keyed, Keys2, Replays, Reports, Accounts1, Accounts2, Bootstrap,
     Resold, Rotated, Closed}

=============================================================================
