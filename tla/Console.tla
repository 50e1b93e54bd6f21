------------------------------ MODULE Console ------------------------------
(***************************************************************************)
(* The administrators of fp and their sessions (service/admin.go and the   *)
(* handlers over it), composed with the calls that such a session makes on *)
(* roles, permissions, keys and applications (Authz, AccessKeys, AppCreds).*)
(*                                                                         *)
(* A session is a Redis key that carries the epoch read at login; every    *)
(* change of an account raises the epoch, after it has been committed.     *)
(* Logins, changes and calls run concurrently; each database statement and *)
(* each Redis command is a step.  A password stands for its hash, and no   *)
(* two changes choose the same one.                                        *)
(***************************************************************************)
EXTENDS AppCreds

CONSTANTS
    Admins, Oldest,    \* rows of admin; the one ORDER BY created_at returns
    Logins             \* calls of Login, and the tokens they create

DefaultAdminUsername == "admin"

ASSUME ConsoleAssumption ==
    /\ Oldest \in Admins /\ None \notin Logins
    /\ \A i \in Instances :
         /\ i.admins \in [Admins -> [name : STRING, pw : STRING, status : {"ACTIVE", "DISABLED", "absent"}]]
         /\ i.logins \in [Logins -> [name : STRING, pw : STRING]]
         /\ IsFiniteSet(i.changes)     \* ChangeAccount, ResetPassword, EnsureBootstrap, Logout
         /\ \A o \in i.ops : o.by \in Logins \cup {None} \* the session of a call
         /\ \A c \in i.changes :
              /\ c.do \in {"change", "reset", "bootstrap", "logout"}
              /\ c.do # "logout" => c.new \in STRING
              /\ c.do \in {"reset", "bootstrap"} => c.new # ""
              /\ c.do \in {"change", "bootstrap"} => c.name \in STRING
         \* a password stands for its stored hash, which is salted: no two changes
         \* store the same one, nor one there is
         /\ \A c, d \in {c \in i.changes : c.do # "logout" /\ c.new # ""} :
              /\ c.new = d.new => c = d
              /\ \A a \in Admins : i.admins[a].pw # c.new

VARIABLES
    admins, epoch,
    lg,                \* per login: where it is, the epoch it read, its account
    tokens,            \* the tokens that exist
    ch,                \* per change: where it is, the account, the hash it read
    wins,              \* history: replacements of a password, and the one each was based on
    unfenced           \* history: a bumpEpoch failed, and none came after it

adminVars == <<admins, epoch, lg, tokens, ch, wins, unfenced>>
vars == <<authzVars, keyVars, credVars, adminVars>>

Present(a) == admins[a].status # "absent"
Rows == {a \in Admins : Present(a)}
Holder(name) == {a \in Rows : admins[a].name = name}

Init ==
    /\ AuthzInit /\ KeyInit /\ CredInit
    /\ admins = inst.admins /\ epoch = 0 /\ tokens = {}
    /\ lg = [l \in Logins |-> [at |-> "epoch", epoch |-> 0, id |-> None, pw |-> ""]]
    /\ ch = [c \in inst.changes |-> [at |-> "todo", id |-> None, hash |-> ""]]
    /\ wins = {} /\ unfenced = FALSE

LoginRest  == UNCHANGED <<authzVars, keyVars, credVars, admins, epoch, ch, wins, unfenced>>
ChangeRest == UNCHANGED <<authzVars, keyVars, credVars, lg>>

-----------------------------------------------------------------------------
(* Login: the epoch first, the password and the status after it.           *)
currentEpoch(l) ==
    /\ inst.logins[l].name # "" /\ lg[l].at = "epoch"
    /\ lg' = [lg EXCEPT ![l].at = "check", ![l].epoch = epoch]
    /\ UNCHANGED tokens /\ LoginRest

Login(l) ==
    /\ lg[l].at = "check"
    /\ LET in == inst.logins[l]
           ok == {a \in Holder(in.name) : admins[a].pw = in.pw /\ admins[a].status = "ACTIVE"} IN
       lg' = [lg EXCEPT ![l] = IF ok = {} THEN [@ EXCEPT !.at = "end"]
                               ELSE [@ EXCEPT !.at = "issue", !.id = CHOOSE a \in ok : TRUE, !.pw = in.pw]]
    /\ UNCHANGED tokens /\ LoginRest

(* Variant: the epoch that goes into the token is read when it is issued.  *)
TokenEpochNow(l) == epoch

TokenEpoch(l) == lg[l].epoch

issueToken(l) ==
    /\ lg[l].at = "issue"
    /\ lg' = [lg EXCEPT ![l].at = "end", ![l].epoch = TokenEpoch(l)]
    /\ tokens' = tokens \cup {l}
    /\ LoginRest

(* Authenticate: the token exists and carries the current epoch.           *)
Authenticate(l) == l \in tokens /\ lg[l].epoch = epoch

-----------------------------------------------------------------------------
Go(c, at) == ch' = [ch EXCEPT ![c].at = at]

(* requireAdmin and the first statement of ChangeAccount.                  *)
ChangeAccount(c) ==
    /\ c.do = "change" /\ ch[c].at = "todo" /\ Authenticate(c.by)
    /\ LET a == lg[c.by].id IN
       IF Present(a) /\ admins[a].status = "ACTIVE" /\ admins[a].pw = c.old
         THEN ch' = [ch EXCEPT ![c] = [at |-> "write", id |-> a, hash |-> admins[a].pw]]
         ELSE Go(c, "end")
    /\ UNCHANGED <<admins, epoch, tokens, wins, unfenced>> /\ ChangeRest

(* Variant: the row is updated whatever its password has become.           *)
StillAsReadNot(c) == admins[ch[c].id].status = "ACTIVE"

(* The WHERE clause.                                                       *)
StillAsRead(c) == admins[ch[c].id].status = "ACTIVE" /\ admins[ch[c].id].pw = ch[c].hash

NewPw(c) == IF c.new = "" THEN ch[c].hash ELSE c.new

ChangeWrites(c) ==
    LET a == ch[c].id IN
    /\ ch[c].at = "write"
    /\ IF StillAsRead(c) /\ Holder(c.name) \subseteq {a}
         THEN /\ admins' = [admins EXCEPT ![a].name = c.name, ![a].pw = NewPw(c)]
              /\ wins' = IF NewPw(c) = admins[a].pw THEN wins
                         ELSE wins \cup {[id |-> a, from |-> ch[c].hash, to |-> NewPw(c)]}
              /\ Go(c, "bump")
         ELSE Go(c, "end") /\ UNCHANGED <<admins, wins>>
    /\ UNCHANGED <<epoch, tokens, unfenced>> /\ ChangeRest

(* retireOtherAdmins.                                                      *)
Retired(a, row) ==
    IF row.status = "absent" THEN row
    ELSE [row EXCEPT !.status = "DISABLED",
                     !.name = IF row.name = DefaultAdminUsername THEN "admin#id" ELSE row.name]

(* ResetPassword, of the command line: one transaction.                    *)
ResetPassword(c) ==
    /\ c.do = "reset" /\ ch[c].at = "todo"
    /\ LET keep == IF Present(Oldest) \/ Rows = {} THEN Oldest ELSE CHOOSE a \in Rows : TRUE IN
       /\ admins' = [a \in Admins |->
            IF a = keep THEN [name |-> DefaultAdminUsername, pw |-> c.new, status |-> "ACTIVE"]
            ELSE Retired(a, admins[a])]
       /\ wins' = IF Present(keep) THEN wins \cup {[id |-> keep, from |-> admins[keep].pw, to |-> c.new]}
                  ELSE wins
    /\ Go(c, "bump")
    /\ UNCHANGED <<epoch, tokens, unfenced>> /\ ChangeRest

(* EnsureBootstrap, when a process of fp starts.                           *)
EnsureBootstrap(c) ==
    /\ c.do = "bootstrap" /\ ch[c].at = "todo" /\ Go(c, "end")
    /\ admins' = IF Rows = {} THEN [admins EXCEPT ![Oldest] = [name |-> c.name, pw |-> c.new, status |-> "ACTIVE"]]
                 ELSE admins
    /\ UNCHANGED <<epoch, tokens, wins, unfenced>> /\ ChangeRest

(* The last step of both.  When it fails the change stands.                *)
bumpEpoch(c) ==
    /\ ch[c].at = "bump" /\ Go(c, "end")
    /\ epoch' = epoch + 1 /\ unfenced' = FALSE
    /\ UNCHANGED <<admins, tokens, wins>> /\ ChangeRest

BumpFails(c) ==
    /\ ch[c].at = "bump" /\ Go(c, "end") /\ Fault("bump")
    /\ unfenced' = TRUE
    /\ UNCHANGED <<inst, tableVars, pc, wireVars, policyVars, histVars, missed>>
    /\ UNCHANGED <<keyVars, credVars, lg, admins, epoch, tokens, wins>>

(* Logout, and a session that expires.                                     *)
Logout(c) ==
    /\ c.do = "logout" /\ ch[c].at = "todo" /\ Authenticate(c.by) /\ Go(c, "end")
    /\ tokens' = tokens \ {c.by}
    /\ UNCHANGED <<admins, epoch, wins, unfenced>> /\ ChangeRest

Accounts ==
    \/ \E l \in Logins : currentEpoch(l) \/ Login(l) \/ issueToken(l)
    \/ \E c \in inst.changes :
          \/ ChangeAccount(c) \/ ChangeWrites(c) \/ ResetPassword(c) \/ EnsureBootstrap(c)
          \/ bumpEpoch(c) \/ BumpFails(c) \/ Logout(c)

-----------------------------------------------------------------------------
(* Every call begins with requireAdmin.                                    *)
requireAdmin(o) == pc[o].at = "todo" /\ o.by # None => Authenticate(o.by)

Next ==
    \/ \E o \in inst.ops :
          /\ requireAdmin(o)
          /\ \/ ConsoleCall(o) /\ UNCHANGED <<keyVars, credVars>>
             \/ KeyCall(o) /\ UNCHANGED credVars
             \/ AppCall(o)
          /\ UNCHANGED adminVars
    \/ SdkPolicy /\ UNCHANGED <<keyVars, credVars, adminVars>>
    \/ WatchKeys /\ UNCHANGED <<credVars, adminVars>>
    \/ SdkKeys /\ UNCHANGED <<credVars, adminVars>>
    \/ \E c \in inst.calls : ServerCall(c) /\ UNCHANGED adminVars
    \/ Accounts

(* The SDK's goroutines run, and its ticker ticks.                         *)
Fairness ==
    /\ WF_vars(WatchKeys /\ UNCHANGED <<credVars, adminVars>>)
    /\ WF_vars(Reconnect /\ UNCHANGED <<keyVars, credVars, adminVars>>)
    /\ WF_vars(TimerPolicy /\ UNCHANGED <<keyVars, credVars, adminVars>>)
    /\ \A g \in Refreshers : WF_vars(RefreshStep(g) /\ UNCHANGED <<keyVars, credVars, adminVars>>)

Spec == Init /\ [][Next]_vars /\ Fairness

-----------------------------------------------------------------------------
(* refreshPolicy: with the periodic refresh, the copy is right in the end  *)
(* and stays right, whatever was not announced, lost or overwritten.       *)
PolicySettles == <>[](inst.timer => PolicyRight(Codes))

Changing == \E c \in inst.changes : ch[c].at = "bump"

(* Login's comment: a session that passes Authenticate was opened with the *)
(* password its account has now, unless the epoch still has to be raised   *)
(* or could not be.                                                        *)
SessionFence ==
    ~Changing /\ ~unfenced =>
        \A l \in Logins : Authenticate(l) =>
            admins[lg[l].id].status = "ACTIVE" /\ admins[lg[l].id].pw = lg[l].pw

(* ChangeAccount's comment: a password is replaced once; of two changes    *)
(* that both knew it, or a change and a reset, one does not take place.    *)
ReplacedOnce ==
    \A v, w \in wins : v.id = w.id /\ v.from = w.from => v = w

=============================================================================
