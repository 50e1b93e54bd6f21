------------------------------ MODULE AppCreds ------------------------------
(***************************************************************************)
(* Applications and the credentials of their servers: the rows that the    *)
(* console writes (service/application.go, imcred.go), the interceptor     *)
(* that lets a call of a server or of fp-im in (auth_interceptor.go), and  *)
(* the credentials of streams that fp-im has fp verify (appauth.go).       *)
(*                                                                         *)
(* Verifications are remembered for a while, three times over, and nothing *)
(* takes them back: what ends a credential takes effect when they expire.  *)
(* A secret is a model value: that of an application is the application,   *)
(* which keeps it.  How SetIMConfig reaches fp-im's settings is ImEntry.   *)
(***************************************************************************)
EXTENDS AccessKeys

CONSTANTS
    Apps,              \* rows of application, named by their app_id
    AppCode,           \* Apps -> code
    ImSecrets,
    SecretTTL, ImTTL, CredTTL

ASSUME CredAssumption ==
    /\ None \notin ImSecrets /\ {AppCode[a] : a \in Apps} \cap Apps = {}
    /\ SecretTTL \in Nat \ {0} /\ ImTTL \in Nat \ {0} /\ CredTTL \in Nat \ {0}
    /\ \A i \in Instances :
         /\ i.apps \subseteq Apps      \* the rows there are: active, with IM
         /\ i.imSecret \in ImSecrets \cup {None}
         /\ IsFiniteSet(i.calls)       \* calls of servers and fp-im, and streams to fp-im
         /\ \A c \in i.calls : /\ c.via \in {"app", "im", "gate"}
                               /\ (IF c.via = "im" THEN c.secret ELSE c.own) # None
         /\ \A o \in i.ops : o.do = "rotate" => o.secret \in ImSecrets

VARIABLES
    app, imSecret,     \* the two tables
    verified,          \* appVerifier.cache
    imVerified,        \* imHash and imExp
    credentials,       \* credCache of fp-im
    cl,                \* per call: where it is, the times it read, the application found
    held               \* history: per ground, when it was last known to hold

credVars == <<app, imSecret, verified, imVerified, credentials, cl, held>>

NoRow == [status |-> Absent, im |-> FALSE]
Exists(a) == app[a].status # Absent
Open(a)   == app[a].status = "ACTIVE" /\ app[a].im

(* appByExternalID.                                                        *)
GetByAppID(as) == {a \in Apps : Exists(a) /\ as \in {a, AppCode[a]}}

(* What a call may rest on.                                                *)
Grounds == ({"secret", "open"} \X Apps) \cup ({"im"} \X ImSecrets)

Holds(g) ==
    CASE g[1] = "secret" -> Exists(g[2])
      [] g[1] = "open"   -> Open(g[2])
      [] g[1] = "im"     -> imSecret = g[2]

CredInit ==
    /\ app = [a \in Apps |-> IF a \in inst.apps THEN [status |-> "ACTIVE", im |-> TRUE] ELSE NoRow]
    /\ imSecret = inst.imSecret
    /\ verified = {} /\ imVerified = [secret |-> None, exp |-> 0] /\ credentials = {}
    /\ cl = [c \in inst.calls |-> [at |-> "todo", now |-> 0, fp |-> 0, id |-> None]]
    /\ held = [g \in Grounds |-> 0]

-----------------------------------------------------------------------------
(* The console.                                                            *)

AppRest ==
    /\ held' = [g \in Grounds |-> IF Holds(g) THEN clock ELSE held[g]]
    /\ UNCHANGED <<tableVars, histVars, keyVars, verified, imVerified, credentials, cl>> /\ CallRest

(* Create: code is unique; app_id and secret are new; IM is not enabled.   *)
CreateApp(o) ==
    /\ At(o, "createApp", "todo") /\ End(o)
    /\ app' = IF GetByAppID(AppCode[o.app]) = {} THEN [app EXCEPT ![o.app] = [status |-> "ACTIVE", im |-> FALSE]]
              ELSE app
    /\ UNCHANGED imSecret /\ AppRest

SetAppStatus(o) ==
    /\ At(o, "appStatus", "todo") /\ End(o)
    /\ app' = IF Exists(o.app) THEN [app EXCEPT ![o.app].status = o.status] ELSE app
    /\ UNCHANGED imSecret /\ AppRest

SetIMConfig(o) ==
    /\ At(o, "setIM", "todo") /\ End(o)
    /\ app' = IF Exists(o.app) THEN [app EXCEPT ![o.app].im = o.im] ELSE app
    /\ UNCHANGED imSecret /\ AppRest

(* Delete reads the status, and deletes whatever it has become.            *)
DeleteApp(o) ==
    /\ \/ /\ At(o, "deleteApp", "todo")
          /\ Step(o, IF app[o.app].status = "DISABLED" THEN "write" ELSE "end")
          /\ UNCHANGED app
       \/ /\ At(o, "deleteApp", "write") /\ End(o)
          /\ app' = [app EXCEPT ![o.app] = NoRow]
    /\ UNCHANGED imSecret /\ AppRest

Rotate(o) ==
    /\ At(o, "rotate", "todo") /\ End(o)
    /\ imSecret' = o.secret
    /\ UNCHANGED app /\ AppRest

AppCall(o) == CreateApp(o) \/ SetAppStatus(o) \/ SetIMConfig(o) \/ DeleteApp(o) \/ Rotate(o)

-----------------------------------------------------------------------------
(* A call: "app" of a server to fp, "im" of fp-im to fp, "gate" a stream   *)
(* of a server to fp-im, which calls fp itself.                            *)

ServeRest == UNCHANGED <<authzVars, keyVars, app, imSecret, held>>
Mind(c, at) == cl' = [cl EXCEPT ![c].at = at]

(* Variant: a result is kept from when it is stored.                       *)
ExpiryLate(now, ttl) == clock + ttl

(* Until when a result is good: from the time read before the check.       *)
Expiry(now, ttl) == now + ttl

Fresh(e, c, now) == e.as = c.as /\ e.secret = c.secret /\ e.exp > now

(* verify, of the interceptor: what is remembered.                         *)
verify(c) ==
    /\ c.via = "app" /\ cl[c].at = "todo"
    /\ cl' = [cl EXCEPT ![c].now = clock,
                ![c].at = IF \E e \in verified : Fresh(e, c, clock) THEN "handler" ELSE "hash"]
    /\ UNCHANGED <<verified, imVerified, credentials>> /\ ServeRest

(* verifyIM: likewise, for a call of fp-im.                                *)
ImSecretOf(c) == IF c.via = "im" THEN c.secret ELSE c.own

verifyIM(c) ==
    /\ <<c.via, cl[c].at>> \in {<<"im", "todo">>, <<"gate", "fp">>}
    /\ cl' = [cl EXCEPT ![c].fp = clock,
                ![c].at = IF imVerified.secret = ImSecretOf(c) /\ imVerified.exp > clock
                            THEN (IF c.via = "im" THEN "handler" ELSE "hash") ELSE "compare"]
    /\ UNCHANGED <<verified, imVerified, credentials>> /\ ServeRest

(* IMCredentialService.Verify, and the result remembered.                  *)
VerifyIMCredential(c) ==
    /\ cl[c].at = "compare" /\ Mind(c, IF imSecret = ImSecretOf(c) THEN "imStore" ELSE "refused")
    /\ UNCHANGED <<verified, imVerified, credentials>> /\ ServeRest

RememberIM(c) ==
    /\ cl[c].at = "imStore" /\ Mind(c, IF c.via = "im" THEN "handler" ELSE "hash")
    /\ imVerified' = [secret |-> ImSecretOf(c), exp |-> Expiry(cl[c].fp, ImTTL)]
    /\ UNCHANGED <<verified, credentials>> /\ ServeRest

(* VerifySecret: the hash, then the row, by its key.                       *)
VerifySecret(c) ==
    /\ cl[c].at = "hash"
    /\ Mind(c, IF c.secret \in GetByAppID(c.as) THEN "row" ELSE "refused")
    /\ UNCHANGED <<verified, imVerified, credentials>> /\ ServeRest

(* verify needs the row, VerifyAppCredential an active one with IM.        *)
GetByID(c) ==
    /\ cl[c].at = "row"
    /\ IF IF c.via = "app" THEN Exists(c.secret) ELSE Open(c.secret)
         THEN cl' = [cl EXCEPT ![c].at = "store", ![c].id = c.secret]
         ELSE Mind(c, "refused")
    /\ UNCHANGED <<verified, imVerified, credentials>> /\ ServeRest

Kept(entries, c) == {e \in entries : e.as # c.as \/ e.secret # c.secret}

Remember(c) ==
    /\ c.via = "app" /\ cl[c].at = "store" /\ Mind(c, "handler")
    /\ verified' = Kept(verified, c) \cup {[as |-> c.as, secret |-> c.secret, exp |-> Expiry(cl[c].now, SecretTTL)]}
    /\ UNCHANGED <<imVerified, credentials>> /\ ServeRest

(* The handler of every call: callerApp, requireIMEnabled, imApp.          *)
callerApp(c) ==
    /\ cl[c].at = "handler"
    /\ LET found == {a \in GetByAppID(c.as) : IF c.via = "im" THEN Open(a) ELSE app[a].status = "ACTIVE"} IN
       cl' = [cl EXCEPT ![c] = IF found = {} THEN [@ EXCEPT !.at = "refused"]
                               ELSE [@ EXCEPT !.at = "served", !.id = CHOOSE a \in found : TRUE]]
    /\ UNCHANGED <<verified, imVerified, credentials>> /\ ServeRest

(* streamAuth: what fp-im remembers, or fp asked.                          *)
streamAuth(c) ==
    /\ c.via = "gate" /\ cl[c].at = "todo"
    /\ LET hit == {e \in credentials : Fresh(e, c, clock)} IN
       cl' = [cl EXCEPT ![c] = IF hit = {} THEN [@ EXCEPT !.now = clock, !.at = "fp"]
                ELSE [@ EXCEPT !.now = clock, !.at = "served", !.id = (CHOOSE e \in hit : TRUE).id]]
    /\ UNCHANGED <<verified, imVerified, credentials>> /\ ServeRest

RememberStream(c) ==
    /\ c.via = "gate" /\ cl[c].at = "store" /\ Mind(c, "served")
    /\ credentials' = Kept(credentials, c) \cup
         {[as |-> c.as, secret |-> c.secret, id |-> cl[c].id, exp |-> Expiry(cl[c].now, CredTTL)]}
    /\ UNCHANGED <<verified, imVerified>> /\ ServeRest

ServerCall(c) ==
    \/ verify(c) \/ verifyIM(c) \/ VerifyIMCredential(c) \/ RememberIM(c)
    \/ VerifySecret(c) \/ GetByID(c) \/ Remember(c) \/ callerApp(c)
    \/ streamAuth(c) \/ RememberStream(c)

-----------------------------------------------------------------------------
(* DefaultIMSecretCacheTTL's comment, and those of the other two caches:   *)
(* what ended (a secret rotated away, an application deleted, disabled or  *)
(* without IM) admits nobody whose call began the life of an entry or more *)
(* after the end, however long the verification of another call took.      *)
GoodFor(g, start, ttl) == Holds(g) \/ start < held[g] + ttl

CredentialLapses ==
    \A c \in inst.calls : cl[c].at = "served" =>
        CASE c.via = "app"  -> GoodFor(<<"secret", c.secret>>, cl[c].now, SecretTTL)
          [] c.via = "im"   -> GoodFor(<<"im", c.secret>>, cl[c].fp, ImTTL)
          [] c.via = "gate" -> /\ GoodFor(<<"secret", c.secret>>, cl[c].now, CredTTL)
                               /\ GoodFor(<<"open", c.secret>>, cl[c].now, CredTTL)
                               /\ cl[c].fp # 0 => GoodFor(<<"im", c.own>>, cl[c].fp, ImTTL)

(* What a comment of the repository says and the code does not keep, so    *)
(* that TLC refutes it (README, section 6).                                *)
(* verifierCacheKey's comment: no call with the secret of A passes for B.  *)
(* The key holds the code, which an application created after A's deletion *)
(* may have again while A's verification is remembered.                    *)
NoImpersonation ==
    \A c \in inst.calls : (c.via = "app" /\ cl[c].at = "served") => cl[c].id = c.secret

=============================================================================
