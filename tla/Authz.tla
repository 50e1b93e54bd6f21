------------------------------- MODULE Authz -------------------------------
(***************************************************************************)
(* Roles, permission points and the policy that fp compiles from them and  *)
(* every SDK keeps a copy of.                                              *)
(*                                                                         *)
(* The tables are those of service/authz.go and permission.go.  A call of  *)
(* the console is one entry of inst.ops: it runs once, in as many steps as *)
(* it has database statements that others can come between, and announces  *)
(* its change afterwards.  A transaction is one step.  The SDK (client.go) *)
(* fetches the policy in its Watch loop, and in a second goroutine from    *)
(* time to time; decisions are taken from the copy alone (authzcore).      *)
(*                                                                         *)
(* One application and one SDK process.  The relay between fp's Redis and  *)
(* the Watch stream is RevokePush: here an event is on the stream when it  *)
(* is published, or lost with the stream.                                  *)
(***************************************************************************)
EXTENDS Integers, Sequences, FiniteSets, FiniteSetsExt

CONSTANTS
    RoleIds, CodeOf,   \* rows of role, and their codes: ids are new, codes may come back
    Perms, Keys,       \* rows of permission, and their keys
    Users,
    AKs,               \* access keys
    Depth,             \* the 64 of wouldCycle and effectiveFor
    Instances,         \* the instances to consider (see Init)
    None

GuestRoleKey == "GUEST"
AdminRoleKey == "ADMIN"
Codes == {CodeOf[r] : r \in RoleIds}

ASSUME AuthzAssumption ==
    /\ CodeOf \in [RoleIds -> STRING] /\ Depth \in Nat \ {0}
    /\ Cardinality(RoleIds) < Depth
    /\ None \notin RoleIds \cup Perms \cup Keys \cup Codes
    /\ \A i \in Instances :
         /\ i.roles \subseteq RoleIds  \* the rows at the beginning
         /\ i.parent \in [RoleIds -> RoleIds \cup {None}]
         /\ i.grants \in [RoleIds \X Perms -> {"", "allow", "deny"}]
         /\ i.keyOf \in [Perms -> Keys]
         /\ i.keys \in [AKs -> {CodeOf[r] : r \in i.roles} \cup {None, "absent"}]
         /\ \A x \in RoleIds \X Perms : i.grants[x] # "" => x[1] \in i.roles
         /\ \A o \in i.ops : o.do \in {"report", "rename"} => o.key \in Keys
         /\ IsFiniteSet(i.ops)         \* the calls of the console
         /\ i.ready \in BOOLEAN        \* whether the SDK has its first policy already
         /\ i.timer \in BOOLEAN        \* whether the periodic refresh runs
         /\ i.faults \in Nat           \* bound: failures
         /\ i.kinds \subseteq {"say", "fetch", "gap", "lookup", "usage", "bump"}

VARIABLES
    inst, faults,
    roles, parent,     \* role: the rows; parent_id
    perms,             \* permission: per row its key, None if absent
    grants,            \* role_permission
    userRoles,         \* user_role
    defaultRole,       \* application.default_role_key
    akeys,             \* access_key: status and role
    pc,                \* per call of the console: where it is
    up, stream,        \* the Watch stream and what is on it
    ref,               \* per refresher: its GetPolicy under way
    snap,              \* Authz.compiled, None until ready
    raced, overlap,    \* history: codes deleted under a write; UpdateRole calls overlapped
    silent,            \* history: codes of roles created with a parent, which nobody announces
    missed             \* history: an announcement, or a fetch it asked for, failed

tableVars  == <<roles, parent, perms, grants, userRoles, defaultRole, akeys>>
policyVars == <<ref, snap>>
wireVars   == <<up, stream>>
histVars   == <<raced, overlap, silent>>
authzVars  == <<inst, faults, tableVars, pc, wireVars, policyVars, histVars, missed>>

Refreshers == {"watch", "timer"}
Live == {CodeOf[r] : r \in roles}
Fault(kind) == kind \in inst.kinds /\ faults < inst.faults /\ faults' = faults + 1

-----------------------------------------------------------------------------
(* The compiled policy.                                                    *)

Graph == [roles |-> roles, parent |-> parent]

(* direct[role][key], from the rows of role_permission and permission.     *)
Direct(r, k) ==
    LET ps == {p \in Perms : perms[p] = k /\ grants[r, p] # ""} IN
    IF ps = {} THEN "" ELSE grants[r, CHOOSE p \in ps : TRUE]

(* The role n steps up from r.                                             *)
Up(g, r) ==
    LET up_[n \in 0..Depth] ==
          IF n = 0 THEN r
          ELSE IF up_[n - 1] \in g.roles THEN g.parent[up_[n - 1]] ELSE None
    IN up_

(* Variant: what an ancestor says overrides what the role itself says.     *)
effectiveForLast(g, r, k) ==
    LET u == Up(g, r)
        out[n \in 0..(Depth - 1)] ==
          LET e == IF u[n] = None THEN "" ELSE Direct(u[n], k) IN
          IF n = 0 THEN e ELSE IF e # "" THEN e ELSE out[n - 1]
    IN out[Depth - 1]

(* What is written first, nearer to the role, is not overwritten.          *)
effectiveFor(g, r, k) ==
    LET u == Up(g, r)
        out[n \in 0..(Depth - 1)] ==
          LET e == IF u[n] = None THEN "" ELSE Direct(u[n], k) IN
          IF n = 0 THEN e ELSE IF out[n - 1] # "" THEN out[n - 1] ELSE e
    IN out[Depth - 1]

(* CompilePolicy with the role graph g, which was read before the grants.  *)
CompilePolicy(g) ==
    [c \in Codes |->
       LET rs == {r \in g.roles : CodeOf[r] = c}
           Having(e) == {k \in Keys : \E r \in rs : effectiveFor(g, r, k) = e}
       IN [allow |-> Having("allow"), deny |-> Having("deny")]]

(* What a user's session carries, from the time it was opened.             *)
EffectiveRoles(u) == userRoles[u] \cup ({defaultRole} \ {None})

(* Snapshot.AllowWith.                                                     *)
AllowWith(s, codes, k) ==
    \/ AdminRoleKey \in codes
    \/ /\ \A c \in codes \cap Codes : k \notin s[c].deny
       /\ \E c \in codes \cap Codes : k \in s[c].allow

(* Authz.Allow: GUEST belongs to everyone but the access keys.             *)
Allow(codes, isKey, k) ==
    IF AdminRoleKey \in codes THEN "yes"
    ELSE IF snap = None THEN "unavailable"
    ELSE IF AllowWith(snap, codes \cup (IF isKey THEN {} ELSE {GuestRoleKey}), k) THEN "yes" ELSE "no"

-----------------------------------------------------------------------------
Idle == [at |-> "idle", graph |-> None, policy |-> None]

AuthzInit ==
    /\ inst \in Instances /\ faults = 0
    /\ roles = inst.roles /\ parent = inst.parent /\ grants = inst.grants
    /\ perms = [p \in Perms |-> IF \E r \in RoleIds : grants[r, p] # "" THEN inst.keyOf[p] ELSE None]
    /\ userRoles = [u \in Users |-> {}] /\ defaultRole = None
    /\ akeys = [k \in AKs |-> IF inst.keys[k] = "absent" THEN [status |-> "absent", role |-> None]
                                ELSE [status |-> "ACTIVE", role |-> inst.keys[k]]]
    /\ pc = [o \in inst.ops |-> [at |-> "todo", cur |-> None, n |-> 0]]
    /\ up = TRUE /\ ref = [g \in Refreshers |-> Idle]
    /\ \/ inst.ready /\ stream = <<>> /\ snap = CompilePolicy(Graph)
       \/ ~inst.ready /\ stream = <<[kind |-> "ready"]>> /\ snap = None
    /\ raced = {} /\ overlap = FALSE /\ silent = {} /\ missed = FALSE

-----------------------------------------------------------------------------
(* The console's calls.  A call starts when it is chosen, goes on to its   *)
(* next step, and ends; the ones that change the policy end with "say".    *)

At(o, do, at) == o.do = do /\ pc[o].at = at
Step(o, at)   == pc' = [pc EXCEPT ![o].at = at]
End(o)        == Step(o, "end")

CallRest == UNCHANGED <<inst, faults, wireVars, policyVars, missed>>

CreateRole(o) ==
    /\ At(o, "createRole", "todo") /\ End(o)
    /\ IF /\ CodeOf[o.id] \notin Live
          /\ o.parent = None \/ (o.parent \in roles /\ CodeOf[o.parent] # AdminRoleKey)
         THEN /\ roles' = roles \cup {o.id} /\ parent' = [parent EXCEPT ![o.id] = o.parent]
              /\ silent' = IF o.parent = None THEN silent ELSE silent \cup {CodeOf[o.id]}
         ELSE UNCHANGED <<roles, parent, silent>>
    /\ UNCHANGED <<perms, grants, userRoles, defaultRole, akeys, raced, overlap>> /\ CallRest

(* UpdateRole: the checks before wouldCycle.                               *)
UpdateRole(o) ==
    /\ At(o, "updateRole", "todo")
    /\ pc' = [pc EXCEPT ![o] =
         IF o.parent = None THEN [at |-> "write", cur |-> None, n |-> 0]
         ELSE IF \/ o.parent = o.id
                 \/ o.id \notin roles
                 \/ CodeOf[o.id] \in {GuestRoleKey, AdminRoleKey}
                 \/ o.parent \in roles /\ CodeOf[o.parent] = AdminRoleKey
           THEN [at |-> "end", cur |-> None, n |-> 0]
           ELSE [at |-> "walk", cur |-> o.parent, n |-> 0]]
    /\ overlap' = (overlap \/ \E p \in inst.ops : p # o /\ p.do = "updateRole"
                                                   /\ pc[p].at \in {"walk", "write"})
    /\ UNCHANGED <<tableVars, raced, silent>> /\ CallRest

(* One query of wouldCycle.                                                *)
wouldCycle(o) ==
    LET w == pc[o] IN
    /\ At(o, "updateRole", "walk")
    /\ pc' = [pc EXCEPT ![o] =
         IF w.cur = None \/ w.n = Depth THEN [w EXCEPT !.at = "write"]
         ELSE IF w.cur = o.id THEN [w EXCEPT !.at = "end"]
         ELSE IF w.cur \notin roles THEN [w EXCEPT !.at = "write"]
         ELSE [w EXCEPT !.cur = parent[w.cur], !.n = @ + 1]]
    /\ UNCHANGED <<tableVars, histVars>> /\ CallRest

UpdateRoleWrites(o) ==
    /\ At(o, "updateRole", "write")
    /\ IF o.id \in roles /\ (o.parent = None \/ o.parent \in roles)
         THEN parent' = [parent EXCEPT ![o.id] = o.parent] /\ Step(o, "say")
         ELSE UNCHANGED parent /\ End(o)
    /\ UNCHANGED <<roles, perms, grants, userRoles, defaultRole, akeys, histVars>> /\ CallRest

(* Calls that checked that the code exists and have not written it yet.    *)
Writing(c) ==
    \E o \in inst.ops :
        /\ pc[o].at = "write"
        /\ \/ o.do = "userRoles" /\ c \in o.codes
           \/ o.do = "defaultRole" /\ o.code = c

(* Variant: the users' arrays are left alone.                              *)
StripRoleNot(c) == UNCHANGED <<userRoles, defaultRole>>

(* The code goes from the users' arrays and from the application's default.*)
StripRole(c) ==
    /\ userRoles' = [u \in Users |-> userRoles[u] \ {c}]
    /\ defaultRole' = IF defaultRole = c THEN None ELSE defaultRole

(* One transaction: refused while a key is bound to the role; rows that    *)
(* refer to it by id cascade or fall back to no parent.                    *)
DeleteRole(o) ==
    LET c == CodeOf[o.id] IN
    /\ At(o, "deleteRole", "todo")
    /\ IF \/ o.id \notin roles
          \/ c \in {GuestRoleKey, AdminRoleKey}
          \/ \E k \in AKs : akeys[k].role = c
         THEN End(o) /\ UNCHANGED <<roles, parent, grants, userRoles, defaultRole, raced>>
         ELSE /\ roles' = roles \ {o.id}
              /\ parent' = [r \in RoleIds |-> IF r = o.id \/ parent[r] = o.id THEN None ELSE parent[r]]
              /\ grants' = [x \in RoleIds \X Perms |-> IF x[1] = o.id THEN "" ELSE grants[x]]
              /\ StripRole(c)
              /\ raced' = IF Writing(c) THEN raced \cup {c} ELSE raced
              /\ Step(o, "say")
    /\ UNCHANGED <<perms, akeys, overlap, silent>> /\ CallRest

(* The roles of a user: the codes are counted, then the row is written.    *)
SetUserRoles(o) ==
    /\ At(o, "userRoles", "todo")
    /\ IF o.codes \subseteq Live THEN Step(o, "write") ELSE End(o)
    /\ UNCHANGED <<tableVars, histVars>> /\ CallRest

SetUserRolesWrites(o) ==
    /\ At(o, "userRoles", "write") /\ End(o)
    /\ userRoles' = [userRoles EXCEPT ![o.user] = o.codes]
    /\ UNCHANGED <<roles, parent, perms, grants, defaultRole, akeys, histVars>> /\ CallRest

SetDefaultRole(o) ==
    /\ At(o, "defaultRole", "todo")
    /\ IF o.code \in Live \cup {None} THEN Step(o, "write") ELSE End(o)
    /\ UNCHANGED <<tableVars, histVars>> /\ CallRest

SetDefaultRoleWrites(o) ==
    /\ At(o, "defaultRole", "write") /\ End(o)
    /\ defaultRole' = o.code
    /\ UNCHANGED <<roles, parent, perms, grants, userRoles, akeys, histVars>> /\ CallRest

(* ReportPermissions and CreatePermission: a point is added, never changed.*)
ReportPermissions(o) ==
    /\ At(o, "report", "todo") /\ End(o)
    /\ perms' = IF \E p \in Perms : perms[p] = o.key THEN perms ELSE [perms EXCEPT ![o.perm] = o.key]
    /\ UNCHANGED <<roles, parent, grants, userRoles, defaultRole, akeys, histVars>> /\ CallRest

UpdatePermission(o) ==
    /\ At(o, "rename", "todo")
    /\ IF perms[o.perm] = None \/ \E p \in Perms \ {o.perm} : perms[p] = o.key
         THEN End(o) /\ UNCHANGED perms
         ELSE Step(o, "say") /\ perms' = [perms EXCEPT ![o.perm] = o.key]
    /\ UNCHANGED <<roles, parent, grants, userRoles, defaultRole, akeys, histVars>> /\ CallRest

DeletePermission(o) ==
    /\ At(o, "deletePerm", "todo")
    /\ IF perms[o.perm] = None
         THEN End(o) /\ UNCHANGED <<perms, grants>>
         ELSE /\ Step(o, "say")
              /\ perms' = [perms EXCEPT ![o.perm] = None]
              /\ grants' = [x \in RoleIds \X Perms |-> IF x[2] = o.perm THEN "" ELSE grants[x]]
    /\ UNCHANGED <<roles, parent, userRoles, defaultRole, akeys, histVars>> /\ CallRest

(* An effect that is granted needs both rows; ADMIN gets none, GUEST no    *)
(* deny.  Withdrawing one is announced in any case.                        *)
SetRolePermission(o) ==
    /\ At(o, "grant", "todo")
    /\ IF /\ o.effect # ""
          /\ \/ o.id \notin roles \/ perms[o.perm] = None \/ CodeOf[o.id] = AdminRoleKey
             \/ CodeOf[o.id] = GuestRoleKey /\ o.effect = "deny"
         THEN End(o) /\ UNCHANGED grants
         ELSE Step(o, "say") /\ grants' = [grants EXCEPT ![<<o.id, o.perm>>] = o.effect]
    /\ UNCHANGED <<roles, parent, perms, userRoles, defaultRole, akeys, histVars>> /\ CallRest

(* publishEvent: a failure is logged and nothing else.                     *)
Publish(o, event) ==
    /\ pc[o].at = "say" /\ End(o)
    /\ \/ stream' = (IF up THEN Append(stream, event) ELSE stream) /\ UNCHANGED <<faults, missed>>
       \/ Fault("say") /\ missed' = TRUE /\ UNCHANGED stream
    /\ UNCHANGED <<inst, tableVars, up, policyVars, histVars>>

announcePolicy(o) ==
    /\ o.do \in {"updateRole", "deleteRole", "rename", "deletePerm", "grant"}
    /\ Publish(o, [kind |-> "policy"])

ConsoleCall(o) ==
    \/ CreateRole(o) \/ UpdateRole(o) \/ wouldCycle(o) \/ UpdateRoleWrites(o) \/ DeleteRole(o)
    \/ SetUserRoles(o) \/ SetUserRolesWrites(o) \/ SetDefaultRole(o) \/ SetDefaultRoleWrites(o)
    \/ ReportPermissions(o) \/ UpdatePermission(o) \/ DeletePermission(o) \/ SetRolePermission(o)
    \/ announcePolicy(o)

-----------------------------------------------------------------------------
(* The SDK.                                                                *)

SdkRest == UNCHANGED <<inst, tableVars, pc, histVars>>

Start(g) == ref' = [ref EXCEPT ![g] = [Idle EXCEPT !.at = "graph"]]

(* Variant: the policy is not fetched when the stream is ready again.      *)
RefreshesNotReady(e) == e.kind = "policy"

Refreshes(e) == e.kind \in {"policy", "ready"}

(* watchOnce: an event that asks for the policy holds the loop until the   *)
(* policy is there.                                                        *)
Watch ==
    /\ up /\ stream # <<>> /\ ref["watch"].at = "idle"
    /\ IF Refreshes(Head(stream)) THEN Start("watch") ELSE UNCHANGED ref
    /\ stream' = Tail(stream)
    /\ UNCHANGED <<up, snap, faults, missed>> /\ SdkRest

(* Variant: the ticker fetches only while there is no policy.              *)
TimerPolicyFirst ==
    /\ inst.timer /\ ref["timer"].at = "idle" /\ snap = None /\ Start("timer")
    /\ UNCHANGED <<wireVars, snap, faults, missed>> /\ SdkRest

(* runEvery with refreshPolicy.                                            *)
TimerPolicy ==
    /\ inst.timer /\ ref["timer"].at = "idle" /\ Start("timer")
    /\ UNCHANGED <<wireVars, snap, faults, missed>> /\ SdkRest

(* GetPolicy on the server: roleGraph, then the grants.                    *)
ReadGraph(g) ==
    /\ ref[g].at = "graph"
    /\ ref' = [ref EXCEPT ![g] = [at |-> "grants", graph |-> Graph, policy |-> None]]
    /\ UNCHANGED <<wireVars, snap, faults, missed>> /\ SdkRest

ReadGrants(g) ==
    /\ ref[g].at = "grants"
    /\ ref' = [ref EXCEPT ![g] = [at |-> "answer", graph |-> None, policy |-> CompilePolicy(ref[g].graph)]]
    /\ UNCHANGED <<wireVars, snap, faults, missed>> /\ SdkRest

setPolicy(g) ==
    /\ ref[g].at = "answer"
    /\ snap' = ref[g].policy
    /\ ref' = [ref EXCEPT ![g] = Idle]
    /\ UNCHANGED <<wireVars, faults, missed>> /\ SdkRest

(* The call fails; the copy is kept as it is.                              *)
RefreshFails(g) ==
    /\ ref[g].at = "graph" /\ Fault("fetch") /\ missed' = TRUE
    /\ ref' = [ref EXCEPT ![g] = Idle]
    /\ UNCHANGED <<wireVars, snap>> /\ SdkRest

(* The stream breaks, and with it what was on it; it comes back with ready.*)
Break ==
    /\ up /\ Fault("gap") /\ up' = FALSE /\ stream' = <<>>
    /\ UNCHANGED <<policyVars, missed>> /\ SdkRest

Reconnect ==
    /\ ~up /\ ref["watch"].at = "idle" /\ up' = TRUE /\ stream' = <<[kind |-> "ready"]>>
    /\ UNCHANGED <<policyVars, faults, missed>> /\ SdkRest

RefreshStep(g) == ReadGraph(g) \/ ReadGrants(g) \/ setPolicy(g)

SdkPolicy ==
    \/ TimerPolicy \/ Break \/ Reconnect
    \/ \E g \in Refreshers : RefreshStep(g) \/ RefreshFails(g)

-----------------------------------------------------------------------------
(* What the tables say, without the compiler: of the ancestors that say    *)
(* anything about a key, the nearest decides for the role.                 *)
Says(r, k) ==
    LET u == Up(Graph, r)
        ns == {n \in 0..Cardinality(RoleIds) : u[n] # None /\ Direct(u[n], k) # ""}
    IN IF ns = {} THEN "" ELSE Direct(u[Min(ns)], k)

(* The copy and the tables agree on every role from cs and on every two,   *)
(* where a deny of one must override an allow of the other.                *)
PolicyRight(cs) ==
    LET says == [x \in roles \X Keys |-> Says(x[1], x[2])]
        Entitled(codes, k) ==
          LET held == {says[r, k] : r \in {r \in roles : CodeOf[r] \in codes}} IN
          AdminRoleKey \in codes \/ ("deny" \notin held /\ "allow" \in held)
    IN /\ snap # None
       /\ \A c, d \in cs, k \in Keys : AllowWith(snap, {c, d}, k) = Entitled({c, d}, k)

(* Nothing is on its way: no announcement, no event, no fetch.             *)
Quiet ==
    /\ up /\ stream = <<>> /\ \A g \in Refreshers : ref[g].at = "idle"
    /\ \A o \in inst.ops : pc[o].at # "say"

Acyclic ==
    \A r \in roles : LET u == Up(Graph, r) IN \A n \in 1..Cardinality(RoleIds) : u[n] # r

(* Every code a key is bound to, a user has or an application has as its   *)
(* default is the code of a role, but for a role deleted while a call had  *)
(* checked it and not yet written; no grant outlives its role or its       *)
(* permission point.                                                       *)
References ==
    /\ \A k \in AKs : akeys[k].role = None \/ akeys[k].role \in Live
    /\ \A u \in Users : userRoles[u] \subseteq Live \cup raced
    /\ defaultRole \in Live \cup raced \cup {None}
    /\ \A r \in RoleIds, p \in Perms : grants[r, p] # "" => r \in roles /\ perms[p] # None

(* What a comment of the repository says and the code does not keep, so    *)
(* that TLC refutes it (README, section 6).                                *)
(* DeleteRole's comment: a code may not stay behind in user_role.roles (nor*)
(* in default_role), or its users suddenly get the permissions of a role   *)
(* that is created under the code later.  SetUserRoles and SetDefaultRole, *)
(* which check a code and then write it, break this when a DeleteRole comes*)
(* in between.                                                             *)
CodesExist ==
    /\ \A u \in Users : userRoles[u] \subseteq Live
    /\ defaultRole \in Live \cup {None}

(* Types, and what the tables promise each other: references are kept, and *)
(* a role is never its own ancestor, but when two UpdateRole calls         *)
(* overlapped.                                                             *)
TablesSound ==
    /\ roles \subseteq RoleIds /\ raced \subseteq Codes /\ overlap \in BOOLEAN
    /\ snap = None \/ DOMAIN snap = Codes
    /\ References
    /\ overlap \/ Acyclic

=============================================================================
