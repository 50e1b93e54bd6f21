---------------------------- MODULE AccessProofs ----------------------------
(***************************************************************************)
(* Proofs about Console and the modules under it, for any tables, calls,   *)
(* requests, administrators, lives and faults.                             *)
(***************************************************************************)
EXTENDS Console, TLAPS

-----------------------------------------------------------------------------
(* What the other parts leave alone.                                       *)

\* The console's calls on roles and permissions do not touch keys.
LEMMA ConsoleFrame ==
    ASSUME NEW o, ConsoleCall(o) PROVE UNCHANGED <<inst, akeys>>
BY DEF ConsoleCall, CreateRole, UpdateRole, wouldCycle, UpdateRoleWrites, DeleteRole, SetUserRoles,
       SetUserRolesWrites, SetDefaultRole, SetDefaultRoleWrites, ReportPermissions,
       UpdatePermission, DeletePermission, SetRolePermission, announcePolicy, Publish, CallRest,
       tableVars

\* The calls on access keys move no variable of the SDK.
LEMMA KeyFrame == ASSUME NEW o, KeyCall(o) PROVE UNCHANGED <<inst, keyVars>>
BY DEF KeyCall, Create, Update, SetStatus, Delete, announce, Publish, KeyCallRest, CallRest

\* The calls on applications touch neither the keys nor the SDK.
LEMMA AppFrame == ASSUME NEW o, AppCall(o) PROVE UNCHANGED <<inst, akeys, keyVars>>
BY DEF AppCall, CreateApp, SetAppStatus, SetIMConfig, DeleteApp, Rotate, AppRest, CallRest, tableVars

\* The SDK's copy of the policy has nothing to do with keys and calls.
LEMMA PolicyFrame == ASSUME SdkPolicy \/ Watch PROVE UNCHANGED <<inst, akeys, pc>>
BY DEF SdkPolicy, TimerPolicy, Break, Reconnect, RefreshStep, ReadGraph, ReadGrants, setPolicy,
       RefreshFails, Watch, SdkRest, tableVars

\* The SDK only reads the rows of keys.
LEMMA SdkFrame == ASSUME SdkKeys PROVE UNCHANGED <<inst, akeys, pc>>
BY DEF SdkKeys, Tick, Evict, Resolve, Compare, Add, LookupFails, MiddlewareWith, Get, Do,
       verifyAccessKey, Middleware, take, ReportAccessKeyUsage, ReportFails, FlightRest,
       RequestRest, UsageRest, authzVars, tableVars

\* A service that calls fp changes none of the credentials it is checked against.
LEMMA ServerFrame == ASSUME NEW c, ServerCall(c) PROVE UNCHANGED <<authzVars, keyVars, app, imSecret, held>>
BY DEF ServerCall, verify, verifyIM, VerifyIMCredential, RememberIM, VerifySecret, GetByID,
       Remember, callerApp, streamAuth, RememberStream, ServeRest

\* The accounts of administrators are apart from everything else.
LEMMA AccountsFrame == ASSUME Accounts PROVE UNCHANGED <<inst, akeys, pc, keyVars, credVars>>
BY DEF Accounts, currentEpoch, Login, issueToken, ChangeAccount, ChangeWrites, ResetPassword,
       EnsureBootstrap, bumpEpoch, BumpFails, Logout, LoginRest, ChangeRest, authzVars, tableVars

-----------------------------------------------------------------------------
(* Administrators                                                          *)

\* Names and passwords (the provers do not know that a literal is a string).
Text == STRING \cup {"", "admin", "admin#id"}
Statuses == {"ACTIVE", "DISABLED", "absent"}

AdminTypes ==
    /\ inst \in Instances
    /\ admins \in [Admins -> [name : Text, pw : Text, status : Statuses]]
    /\ epoch \in Nat /\ tokens \subseteq Logins /\ unfenced \in BOOLEAN
    /\ lg \in [Logins -> [at : {"epoch", "check", "issue", "end"}, epoch : Nat,
                          id : Admins \cup {None}, pw : Text]]
    /\ ch \in [inst.changes -> [at : {"todo", "write", "bump", "end"}, id : Admins \cup {None},
                                hash : Text]]

\* A token carries an epoch that was current when its login checked the password, which
\* is the one its account has, unless the epoch is about to be raised.
In(l) == lg[l].at = "issue" \/ l \in tokens
FenceInv ==
    \A l \in Logins :
        /\ lg[l].epoch <= epoch
        /\ In(l) => lg[l].id \in Admins
        /\ l \in tokens => lg[l].at = "end"
        /\ In(l) /\ lg[l].epoch = epoch =>
             \/ admins[lg[l].id].status = "ACTIVE" /\ admins[lg[l].id].pw = lg[l].pw
             \/ Changing \/ unfenced

\* A password that was replaced is nobody's, and no change that is still to write will
\* bring it back.
Pending(c) == c.do # "logout" /\ c.new # "" /\ ch[c].at \in {"todo", "write"}
WinInv ==
    /\ \A c \in inst.changes :
         /\ ch[c].at = "write" => ch[c].id \in Admins /\ c.do = "change"
         /\ Pending(c) => /\ \A a \in Admins : admins[a].pw # c.new
                          /\ \A w \in wins : w.from # c.new
    /\ \A w \in wins : w.id \in Admins /\ admins[w.id].pw # w.from
    /\ ReplacedOnce

AdminInv == AdminTypes /\ FenceInv /\ WinInv

\* The assumptions about the changes of an instance.
LEMMA ChangesOf ==
    ASSUME inst \in Instances, NEW c \in inst.changes
    PROVE  /\ c.do \in {"change", "reset", "bootstrap", "logout"}
           /\ c.do # "logout" => c.new \in STRING
           /\ c.do \in {"reset", "bootstrap"} => c.new # ""
           /\ c.do \in {"change", "bootstrap"} => c.name \in STRING
           /\ c.do # "logout" /\ c.new # "" =>
                /\ \A d \in inst.changes : d.do # "logout" /\ d.new # "" /\ c.new = d.new => c = d
                /\ \A a \in Admins : inst.admins[a].pw # c.new
<1>1. c \in inst.changes /\ inst \in Instances
  OBVIOUS
<1>2. /\ c.do \in {"change", "reset", "bootstrap", "logout"}
      /\ c.do # "logout" => c.new \in STRING
      /\ c.do \in {"reset", "bootstrap"} => c.new # ""
      /\ c.do \in {"change", "bootstrap"} => c.name \in STRING
  BY <1>1, ConsoleAssumption
<1>. DEFINE Chosen == {d \in inst.changes : d.do # "logout" /\ d.new # ""}
<1>3. \A d, e \in Chosen : /\ d.new = e.new => d = e
                          /\ \A a \in Admins : inst.admins[a].pw # d.new
  BY <1>1, ConsoleAssumption
<1>. QED
  BY <1>2, <1>3

\* At the start nobody is in, every change is still to come and nothing was replaced.
LEMMA AdminInit == Init => AdminInv
<1>. SUFFICES ASSUME Init PROVE AdminInv
  OBVIOUS
<1>0. inst \in Instances /\ admins = inst.admins
  BY DEF Init, AuthzInit
<1>1. AdminTypes
  <2>1. admins \in [Admins -> [name : Text, pw : Text, status : Statuses]]
    BY <1>0, ConsoleAssumption DEF Statuses, Text
  <2>2. lg \in [Logins -> [at : {"epoch", "check", "issue", "end"}, epoch : Nat,
                          id : Admins \cup {None}, pw : Text]]
    <3>1. lg = [l \in Logins |-> [at |-> "epoch", epoch |-> 0, id |-> None, pw |-> ""]]
      BY DEF Init
    <3>. QED
      BY <3>1 DEF Text
  <2>3. ch \in [inst.changes -> [at : {"todo", "write", "bump", "end"}, id : Admins \cup {None},
                                hash : Text]]
    <3>1. ch = [c \in inst.changes |-> [at |-> "todo", id |-> None, hash |-> ""]]
      BY DEF Init
    <3>. QED
      BY <3>1 DEF Text
  <2>4. epoch = 0 /\ tokens = {} /\ unfenced = FALSE
    BY DEF Init
  <2>. QED
    BY <1>0, <2>1, <2>2, <2>3, <2>4 DEF AdminTypes
<1>2. FenceInv
  <2>1. epoch = 0 /\ tokens = {}
    BY DEF Init
  <2>2. \A l \in Logins : lg[l].at = "epoch" /\ lg[l].epoch = 0
    BY DEF Init
  <2>. QED
    BY <2>1, <2>2 DEF FenceInv, In
<1>3. WinInv
  <2>1. \A c \in inst.changes : ch[c].at = "todo"
    BY DEF Init
  <2>2. wins = {}
    BY DEF Init
  <2>3. \A c \in inst.changes : Pending(c) => \A a \in Admins : admins[a].pw # c.new
    BY <1>0, ChangesOf DEF Pending
  <2>. QED
    BY <2>1, <2>2, <2>3 DEF WinInv, ReplacedOnce
<1>. QED
  BY <1>1, <1>2, <1>3 DEF AdminInv

\* Login: between the epoch it read and the token with it, a change either is still to
\* raise the epoch or has raised it beyond.
LEMMA LoginKeeps ==
    ASSUME AdminInv, NEW l \in Logins, currentEpoch(l) \/ Login(l) \/ issueToken(l)
    PROVE  AdminInv'
<1>1. AdminTypes /\ FenceInv /\ WinInv
  BY DEF AdminInv
<1>2. UNCHANGED <<inst, admins, epoch, ch, wins, unfenced>>
  BY DEF currentEpoch, Login, issueToken, LoginRest, authzVars
<1>. DEFINE Rec == [at : {"epoch", "check", "issue", "end"}, epoch : Nat,
                    id : Admins \cup {None}, pw : Text]
<1>3. lg[l] \in Rec /\ epoch \in Nat /\ lg \in [Logins -> Rec]
  BY <1>1 DEF AdminTypes
<1>4. ASSUME NEW new \in Rec, lg' = [lg EXCEPT ![l] = new], new.epoch <= epoch,
             tokens' = tokens \/ tokens' = tokens \cup {l},
             l \in tokens' => new.at = "end",
             new.at = "issue" \/ l \in tokens' =>
                /\ new.id \in Admins
                /\ new.epoch = epoch =>
                     \/ admins[new.id].status = "ACTIVE" /\ admins[new.id].pw = new.pw
                     \/ Changing \/ unfenced
      PROVE  AdminInv'
  <2>1. lg' \in [Logins -> Rec] /\ lg'[l] = new /\ \A m \in Logins : m # l => lg'[m] = lg[m]
    BY <1>3, <1>4
  <2>2. AdminTypes'
    BY <1>1, <1>2, <1>4, <2>1 DEF AdminTypes
  <2>3. FenceInv'
    <3>1. Changing' = Changing
      BY <1>2 DEF Changing
    <3>2. ASSUME NEW m \in Logins
          PROVE  /\ lg'[m].epoch <= epoch
                 /\ In(m)' => lg'[m].id \in Admins
                 /\ m \in tokens' => lg'[m].at = "end"
                 /\ In(m)' /\ lg'[m].epoch = epoch =>
                      \/ admins[lg'[m].id].status = "ACTIVE" /\ admins[lg'[m].id].pw = lg'[m].pw
                      \/ Changing \/ unfenced
      <4>1. CASE m = l
        BY <1>4, <2>1, <4>1 DEF In
      <4>2. CASE m # l
        BY <1>1, <1>4, <2>1, <4>2 DEF FenceInv, In
      <4>. QED
        BY <4>1, <4>2
    <3>. QED
      BY <1>2, <3>1, <3>2 DEF FenceInv
  <2>4. WinInv'
    BY <1>1, <1>2 DEF WinInv, Pending, ReplacedOnce
  <2>. QED
    BY <2>2, <2>3, <2>4 DEF AdminInv
<1>5. CASE currentEpoch(l)
  <2>. DEFINE new == [lg[l] EXCEPT !.at = "check", !.epoch = epoch]
  <2>1. new \in Rec /\ new.at = "check" /\ new.epoch = epoch
    BY <1>3
  <2>2. lg' = [lg EXCEPT ![l] = new] /\ tokens' = tokens /\ lg[l].at = "epoch"
    BY <1>5 DEF currentEpoch
  <2>3. l \notin tokens
    BY <1>1, <2>2 DEF FenceInv
  <2>. HIDE DEF new, Rec
  <2>4. new.epoch <= epoch
    BY <1>3, <2>1
  <2>5. l \notin tokens' /\ new.at # "issue"
    BY <2>1, <2>2, <2>3
  <2>. QED
    BY <1>4, <2>1, <2>2, <2>4, <2>5
<1>6. CASE Login(l)
  <2>. DEFINE in == inst.logins[l]
              ok == {a \in Holder(in.name) : admins[a].pw = in.pw /\ admins[a].status = "ACTIVE"}
              a == CHOOSE a \in ok : TRUE
              out == [lg[l] EXCEPT !.at = "end"]
              new == [lg[l] EXCEPT !.at = "issue", !.id = a, !.pw = in.pw]
  <2>0. in.pw \in Text
    BY <1>1, ConsoleAssumption DEF AdminTypes, Text
  <2>1. out \in Rec /\ out.at = "end" /\ out.epoch = lg[l].epoch
    BY <1>3
  <2>2. lg' = [lg EXCEPT ![l] = IF ok = {} THEN out ELSE new] /\ tokens' = tokens /\ lg[l].at = "check"
    BY <1>6 DEF Login
  <2>3. l \notin tokens /\ lg[l].epoch <= epoch
    BY <1>1, <2>2 DEF FenceInv
  <2>4. CASE ok = {}
    <3>. HIDE DEF out, Rec, ok
    <3>. QED
      BY <1>4, <2>1, <2>2, <2>3, <2>4
  <2>5. CASE ok # {}
    <3>1. a \in Admins /\ admins[a].pw = in.pw /\ admins[a].status = "ACTIVE"
      BY <2>5 DEF Holder, Rows
    <3>. HIDE DEF ok, a, in
    <3>2. /\ new \in Rec /\ new.at = "issue" /\ new.epoch = lg[l].epoch
          /\ new.id = a /\ new.pw = in.pw
      BY <1>3, <2>0, <3>1
    <3>. HIDE DEF new, Rec
    <3>. QED
      BY <1>4, <2>2, <2>3, <2>5, <3>1, <3>2
  <2>. QED
    BY <2>4, <2>5
<1>7. CASE issueToken(l)
  <2>. DEFINE new == [lg[l] EXCEPT !.at = "end", !.epoch = lg[l].epoch]
  <2>1. /\ new \in Rec /\ new.at = "end" /\ new.epoch = lg[l].epoch /\ new.id = lg[l].id
        /\ new.pw = lg[l].pw
    BY <1>3
  <2>2. lg' = [lg EXCEPT ![l] = new] /\ tokens' = tokens \cup {l} /\ lg[l].at = "issue"
    BY <1>7 DEF issueToken, TokenEpoch
  <2>. HIDE DEF new, Rec
  <2>3. /\ lg[l].epoch <= epoch /\ lg[l].id \in Admins
        /\ lg[l].epoch = epoch =>
             \/ admins[lg[l].id].status = "ACTIVE" /\ admins[lg[l].id].pw = lg[l].pw
             \/ Changing \/ unfenced
    BY <1>1, <2>2 DEF FenceInv, In
  <2>. QED
    BY <1>4, <2>1, <2>2, <2>3
<1>. QED
  BY <1>5, <1>6, <1>7

\* A change of an account or of the tokens moves one entry of ch.
LEMMA ChangeMoves ==
    ASSUME AdminTypes, NEW c \in inst.changes, NEW at \in {"todo", "write", "bump", "end"}, Go(c, at)
    PROVE  /\ ch' \in [inst.changes -> [at : {"todo", "write", "bump", "end"},
                                        id : Admins \cup {None}, hash : Text]]
           /\ ch'[c].at = at /\ ch'[c].id = ch[c].id
           /\ \A d \in inst.changes : d # c => ch'[d] = ch[d]
<1>. DEFINE Rec == [at : {"todo", "write", "bump", "end"}, id : Admins \cup {None}, hash : Text]
            new == [ch[c] EXCEPT !.at = at]
<1>1. ch \in [inst.changes -> Rec] /\ ch[c] \in Rec
  BY DEF AdminTypes
<1>2. new \in Rec /\ new.at = at /\ new.id = ch[c].id
  BY <1>1
<1>3. ch' = [ch EXCEPT ![c] = new]
  BY DEF Go
<1>. HIDE DEF new, Rec
<1>4. ch' \in [inst.changes -> Rec] /\ ch'[c] = new /\ \A d \in inst.changes : d # c => ch'[d] = ch[d]
  BY <1>1, <1>2, <1>3
<1>. QED
  BY <1>2, <1>4 DEF Rec

\* The fence holds when no account that is in use changes, or when a change leaves the
\* epoch to be raised.
LEMMA FenceStays ==
    ASSUME AdminTypes, FenceInv, inst' = inst, lg' = lg, epoch' = epoch, tokens' \subseteq tokens,
           Changing \/ unfenced => Changing' \/ unfenced',
           \/ Changing' \/ unfenced'
           \/ \A a \in Admins : admins[a].status = "ACTIVE" =>
                admins'[a].status = "ACTIVE" /\ admins'[a].pw = admins[a].pw
    PROVE  FenceInv'
<1>. SUFFICES ASSUME NEW l \in Logins
     PROVE  /\ lg[l].epoch <= epoch
            /\ In(l)' => lg[l].id \in Admins
            /\ l \in tokens' => lg[l].at = "end"
            /\ In(l)' /\ lg[l].epoch = epoch =>
                 \/ admins'[lg[l].id].status = "ACTIVE" /\ admins'[lg[l].id].pw = lg[l].pw
                 \/ Changing' \/ unfenced'
  BY DEF FenceInv
<1>1. In(l)' => In(l)
  BY DEF In
<1>2. /\ lg[l].epoch <= epoch
      /\ In(l) => lg[l].id \in Admins
      /\ l \in tokens => lg[l].at = "end"
      /\ In(l) /\ lg[l].epoch = epoch =>
           \/ admins[lg[l].id].status = "ACTIVE" /\ admins[lg[l].id].pw = lg[l].pw
           \/ Changing \/ unfenced
  BY DEF FenceInv
<1>. QED
  BY <1>1, <1>2

\* A change that ends before it has written, and every other change, leave the passwords.
LEMMA WinStays ==
    ASSUME WinInv, inst' = inst, admins' = admins, wins' = wins,
           \A d \in inst.changes : Pending(d)' => Pending(d),
           \A d \in inst.changes : ch'[d].at = "write" => ch'[d].id \in Admins /\ d.do = "change"
    PROVE  WinInv'
<1>1. ReplacedOnce'
  BY DEF WinInv, ReplacedOnce
<1>2. \A w \in wins' : w.id \in Admins /\ admins'[w.id].pw # w.from
  BY DEF WinInv
<1>3. \A d \in inst.changes : Pending(d)' => /\ \A a \in Admins : admins'[a].pw # d.new
                                            /\ \A w \in wins' : w.from # d.new
  BY DEF WinInv
<1>. QED
  BY <1>1, <1>2, <1>3 DEF WinInv

\* A new password: it is nobody's and replaced nothing before, and the one it replaces
\* cannot come back.
LEMMA WinGrows ==
    ASSUME AdminTypes, WinInv, NEW c \in inst.changes, NEW a \in Admins, inst' = inst, Pending(c),
           ch'[c].at \notin {"todo", "write"}, \A d \in inst.changes : d # c => ch'[d] = ch[d],
           \A b \in Admins : b # a => admins'[b].pw = admins[b].pw, admins'[a].pw = c.new,
           wins' \in {wins, wins \cup {[id |-> a, from |-> admins[a].pw, to |-> c.new]}}
    PROVE  WinInv'
<1>. DEFINE win == [id |-> a, from |-> admins[a].pw, to |-> c.new]
<1>0. win.id = a /\ win.from = admins[a].pw
  OBVIOUS
<1>. HIDE DEF win
<1>1. wins' = wins \/ wins' = wins \cup {win}
  BY DEF win
<1>2. /\ \A b \in Admins : admins[b].pw # c.new
      /\ \A w \in wins : w.from # c.new
      /\ \A w \in wins : w.id \in Admins /\ admins[w.id].pw # w.from
  BY DEF WinInv
<1>3. \A w \in wins' : w.id \in Admins /\ admins'[w.id].pw # w.from
  BY <1>0, <1>1, <1>2
<1>4. ReplacedOnce'
  <2>1. \A w \in wins : ~(w.id = win.id /\ w.from = win.from)
    BY <1>0, <1>2
  <2>2. \A v, w \in wins : v.id = w.id /\ v.from = w.from => v = w
    BY DEF WinInv, ReplacedOnce
  <2>. QED
    BY <1>1, <2>1, <2>2 DEF ReplacedOnce
<1>5. ASSUME NEW d \in inst.changes
      PROVE  /\ ch'[d].at = "write" => ch'[d].id \in Admins /\ d.do = "change"
             /\ Pending(d)' => /\ \A b \in Admins : admins'[b].pw # d.new
                               /\ \A w \in wins' : w.from # d.new
  <2>1. CASE d = c
    BY <2>1 DEF Pending
  <2>2. CASE d # c
    <3>1. ch'[d] = ch[d]
      BY <2>2
    <3>2. Pending(d)' => Pending(d)
      BY <3>1 DEF Pending
    <3>3. Pending(d) => c.new # d.new
      BY <2>2, ChangesOf DEF Pending, AdminTypes
    <3>4. Pending(d) => /\ \A b \in Admins : admins[b].pw # d.new
                        /\ \A w \in wins : w.from # d.new
      BY DEF WinInv
    <3>5. ch[d].at = "write" => ch[d].id \in Admins /\ d.do = "change"
      BY DEF WinInv
    <3>6. Pending(d) => \A b \in Admins : admins'[b].pw # d.new
      BY <3>3, <3>4
    <3>7. Pending(d) => \A w \in wins' : w.from # d.new
      BY <1>0, <1>1, <3>4
    <3>. QED
      BY <3>1, <3>2, <3>5, <3>6, <3>7
  <2>. QED
    BY <2>1, <2>2
<1>. QED
  BY <1>3, <1>4, <1>5 DEF WinInv

\* A change that is to raise the epoch, and one that ends without having to.
LEMMA WhoBumps ==
    ASSUME inst' = inst, NEW c \in inst.changes, \A d \in inst.changes : d # c => ch'[d] = ch[d]
    PROVE  /\ ch'[c].at = "bump" => Changing'
           /\ ch[c].at # "bump" => (Changing => Changing')
BY DEF Changing

\* ChangeAccount, its first statement: nothing is written.
LEMMA ChangeReads ==
    ASSUME AdminInv, NEW c \in inst.changes, ChangeAccount(c)
    PROVE  AdminInv'
<1>1. AdminTypes /\ FenceInv /\ WinInv
  BY DEF AdminInv
<1>2. UNCHANGED <<inst, admins, epoch, tokens, wins, unfenced, lg>> /\ c.do = "change" /\ ch[c].at = "todo"
  BY DEF ChangeAccount, ChangeRest, authzVars
<1>. DEFINE Rec == [at : {"todo", "write", "bump", "end"}, id : Admins \cup {None}, hash : Text]
            a == lg[c.by].id
<1>3. c.by \in tokens /\ a \in Admins
  <2>1. c.by \in tokens
    BY DEF ChangeAccount, Authenticate
  <2>2. c.by \in Logins
    BY <1>1, <2>1 DEF AdminTypes
  <2>. QED
    BY <1>1, <2>1, <2>2 DEF FenceInv, In
<1>4. /\ ch' \in [inst.changes -> Rec] /\ \A d \in inst.changes : d # c => ch'[d] = ch[d]
      /\ ch'[c].at \in {"write", "end"} /\ (ch'[c].at = "write" => ch'[c].id \in Admins)
  <2>1. CASE ch' = [ch EXCEPT ![c] = [at |-> "write", id |-> a, hash |-> admins[a].pw]]
    <3>. DEFINE new == [at |-> "write", id |-> a, hash |-> admins[a].pw]
    <3>. HIDE DEF a
    <3>1. admins[a].pw \in Text
      BY <1>1, <1>3 DEF AdminTypes
    <3>2. new \in Rec /\ new.at = "write" /\ new.id = a
      BY <1>3, <3>1
    <3>3. ch \in [inst.changes -> Rec] /\ ch' = [ch EXCEPT ![c] = new]
      BY <1>1, <2>1 DEF AdminTypes
    <3>. HIDE DEF new, Rec
    <3>. QED
      BY <1>3, <3>2, <3>3
  <2>2. CASE Go(c, "end")
    BY <1>1, <2>2, ChangeMoves
  <2>. QED
    BY <2>1, <2>2 DEF ChangeAccount
<1>5. AdminTypes'
  BY <1>1, <1>2, <1>4 DEF AdminTypes
<1>6. FenceInv'
  <2>1. Changing => Changing'
    BY <1>2, <1>4, WhoBumps
  <2>. QED
    BY <1>1, <1>2, <2>1, FenceStays
<1>7. WinInv'
  <2>1. \A d \in inst.changes : Pending(d)' => Pending(d)
    BY <1>2, <1>4 DEF Pending
  <2>2. \A d \in inst.changes : ch'[d].at = "write" => ch'[d].id \in Admins /\ d.do = "change"
    BY <1>1, <1>2, <1>4 DEF WinInv
  <2>. QED
    BY <1>1, <1>2, <2>1, <2>2, WinStays
<1>. QED
  BY <1>5, <1>6, <1>7 DEF AdminInv

\* A change that ends without having written (a conflict, a logout, a bootstrap that finds
\* a row).
LEMMA ChangeEnds ==
    ASSUME AdminInv, NEW c \in inst.changes, ch[c].at \in {"todo", "write"}, Go(c, "end"),
           UNCHANGED <<inst, admins, epoch, wins, unfenced, lg>>, tokens' \subseteq tokens
    PROVE  AdminInv'
<1>1. AdminTypes /\ FenceInv /\ WinInv
  BY DEF AdminInv
<1>2. /\ ch' \in [inst.changes -> [at : {"todo", "write", "bump", "end"},
                                    id : Admins \cup {None}, hash : Text]]
      /\ ch'[c].at = "end" /\ \A d \in inst.changes : d # c => ch'[d] = ch[d]
  BY <1>1, ChangeMoves
<1>3. AdminTypes'
  BY <1>1, <1>2 DEF AdminTypes
<1>4. FenceInv'
  <2>1. Changing => Changing'
    BY <1>2, WhoBumps
  <2>. QED
    BY <1>1, <2>1, FenceStays
<1>5. WinInv'
  <2>1. \A d \in inst.changes : Pending(d)' => Pending(d)
    BY <1>2 DEF Pending
  <2>2. \A d \in inst.changes : ch'[d].at = "write" => ch'[d].id \in Admins /\ d.do = "change"
    BY <1>1, <1>2 DEF WinInv
  <2>. QED
    BY <1>1, <2>1, <2>2, WinStays
<1>. QED
  BY <1>3, <1>4, <1>5 DEF AdminInv

\* A write that leaves the epoch to be raised.
LEMMA WriteKeeps ==
    ASSUME AdminInv, NEW c \in inst.changes, Go(c, "bump"), WinInv',
           UNCHANGED <<inst, epoch, tokens, unfenced, lg>>,
           admins' \in [Admins -> [name : Text, pw : Text, status : Statuses]]
    PROVE  AdminInv'
<1>1. AdminTypes /\ FenceInv /\ WinInv
  BY DEF AdminInv
<1>2. /\ ch' \in [inst.changes -> [at : {"todo", "write", "bump", "end"},
                                    id : Admins \cup {None}, hash : Text]]
      /\ ch'[c].at = "bump" /\ \A d \in inst.changes : d # c => ch'[d] = ch[d]
  BY <1>1, ChangeMoves
<1>3. AdminTypes'
  BY <1>1, <1>2 DEF AdminTypes
<1>4. FenceInv'
  <2>1. Changing'
    BY <1>2, WhoBumps
  <2>. QED
    BY <1>1, <2>1, FenceStays
<1>. QED
  BY <1>3, <1>4 DEF AdminInv

\* ChangeAccount's UPDATE.
LEMMA UpdateKeeps ==
    ASSUME AdminInv, NEW c \in inst.changes, ChangeWrites(c)
    PROVE  AdminInv'
<1>1. AdminTypes /\ FenceInv /\ WinInv
  BY DEF AdminInv
<1>2. UNCHANGED <<inst, epoch, tokens, unfenced, lg>> /\ ch[c].at = "write"
  BY DEF ChangeWrites, ChangeRest, authzVars
<1>. DEFINE a == ch[c].id
            Row == [name : Text, pw : Text, status : Statuses]
<1>3. a \in Admins /\ c.do = "change"
  BY <1>1, <1>2 DEF WinInv
<1>4. CASE Go(c, "end") /\ UNCHANGED <<admins, wins>>
  BY <1>2, <1>4, ChangeEnds
<1>5. CASE /\ StillAsRead(c) /\ Go(c, "bump")
           /\ admins' = [admins EXCEPT ![a].name = c.name, ![a].pw = NewPw(c)]
           /\ wins' = IF NewPw(c) = admins[a].pw THEN wins
                      ELSE wins \cup {[id |-> a, from |-> ch[c].hash, to |-> NewPw(c)]}
  <2>. HIDE DEF a
  <2>1. /\ ch'[c].at = "bump" /\ \A d \in inst.changes : d # c => ch'[d] = ch[d]
    BY <1>1, <1>5, ChangeMoves
  <2>2. c.name \in Text /\ c.new \in Text /\ ch[c].hash \in Text /\ ch[c].hash = admins[a].pw
    <3>1. c.name \in STRING /\ c.new \in STRING
      BY <1>1, <1>3, ChangesOf DEF AdminTypes
    <3>2. ch[c].hash \in Text
      BY <1>1 DEF AdminTypes
    <3>. QED
      BY <1>5, <3>1, <3>2 DEF Text, StillAsRead, a
  <2>3. NewPw(c) \in Text
    BY <2>2 DEF NewPw
  <2>4. /\ admins' \in [Admins -> Row] /\ admins'[a].pw = NewPw(c)
        /\ \A b \in Admins : b # a => admins'[b] = admins[b]
    <3>. DEFINE new == [admins[a] EXCEPT !.name = c.name, !.pw = NewPw(c)]
    <3>1. admins \in [Admins -> Row] /\ admins[a] \in Row
      BY <1>1, <1>3 DEF AdminTypes
    <3>2. new \in Row /\ new.pw = NewPw(c)
      BY <2>2, <2>3, <3>1
    <3>3. admins' = [admins EXCEPT ![a] = new]
      BY <1>5
    <3>. HIDE DEF new, Row
    <3>. QED
      BY <1>3, <3>1, <3>2, <3>3
  <2>5. WinInv'
    <3>1. CASE c.new = ""
      <4>1. NewPw(c) = admins[a].pw /\ wins' = wins
        BY <1>5, <2>2, <3>1 DEF NewPw
      <4>2. \A b \in Admins : admins'[b].pw = admins[b].pw
        BY <2>4, <4>1
      <4>3. \A d \in inst.changes : Pending(d)' => Pending(d)
        BY <1>2, <2>1 DEF Pending
      <4>4. \A d \in inst.changes : ch'[d].at = "write" => ch'[d].id \in Admins /\ d.do = "change"
        BY <1>1, <2>1 DEF WinInv
      <4>5. ReplacedOnce'
        BY <1>1, <4>1 DEF WinInv, ReplacedOnce
      <4>6. \A w \in wins' : w.id \in Admins /\ admins'[w.id].pw # w.from
        BY <1>1, <4>1, <4>2 DEF WinInv
      <4>7. \A d \in inst.changes : Pending(d)' => /\ \A b \in Admins : admins'[b].pw # d.new
                                                  /\ \A w \in wins' : w.from # d.new
        BY <1>1, <4>1, <4>2, <4>3 DEF WinInv
      <4>. QED
        BY <1>2, <4>4, <4>5, <4>6, <4>7 DEF WinInv
    <3>2. CASE c.new # ""
      <4>1. NewPw(c) = c.new /\ Pending(c)
        BY <1>2, <1>3, <3>2 DEF NewPw, Pending
      <4>2. wins' \in {wins, wins \cup {[id |-> a, from |-> admins[a].pw, to |-> c.new]}}
        BY <1>5, <2>2, <4>1
      <4>3. ch'[c].at \notin {"todo", "write"} /\ admins'[a].pw = c.new
        BY <2>1, <2>4, <4>1
      <4>4. \A b \in Admins : b # a => admins'[b].pw = admins[b].pw
        BY <2>4
      <4>. QED
        BY <1>1, <1>2, <1>3, <2>1, <4>1, <4>2, <4>3, <4>4, WinGrows
    <3>. QED
      BY <3>1, <3>2
  <2>. QED
    BY <1>2, <1>5, <2>4, <2>5, WriteKeeps
<1>. QED
  BY <1>4, <1>5 DEF ChangeWrites

\* ResetPassword: one row has the new password, the others keep theirs and are disabled.
LEMMA ResetKeeps ==
    ASSUME AdminInv, NEW c \in inst.changes, ResetPassword(c)
    PROVE  AdminInv'
<1>1. AdminTypes /\ FenceInv /\ WinInv
  BY DEF AdminInv
<1>. DEFINE keep == IF Present(Oldest) \/ Rows = {} THEN Oldest ELSE CHOOSE a \in Rows : TRUE
            Row == [name : Text, pw : Text, status : Statuses]
            kept == [name |-> DefaultAdminUsername, pw |-> c.new, status |-> "ACTIVE"]
<1>2. /\ UNCHANGED <<inst, epoch, tokens, unfenced, lg>> /\ ch[c].at = "todo" /\ c.do = "reset"
      /\ Go(c, "bump")
      /\ admins' = [a \in Admins |-> IF a = keep THEN kept ELSE Retired(a, admins[a])]
      /\ wins' = IF Present(keep) THEN wins \cup {[id |-> keep, from |-> admins[keep].pw, to |-> c.new]}
                 ELSE wins
  BY DEF ResetPassword, ChangeRest, authzVars
<1>3. keep \in Admins
  <2>1. Rows # {} => (CHOOSE a \in Rows : TRUE) \in Rows
    OBVIOUS
  <2>. QED
    BY <2>1, ConsoleAssumption DEF Rows
<1>. HIDE DEF keep
<1>4. c.new \in Text /\ c.new # "" /\ Pending(c)
  <2>1. c.new \in STRING /\ c.new # ""
    BY <1>1, <1>2, ChangesOf DEF AdminTypes
  <2>. QED
    BY <1>2, <2>1 DEF Text, Pending
<1>5. kept \in Row /\ kept.pw = c.new
  BY <1>4 DEF DefaultAdminUsername, Text, Statuses
<1>6. ASSUME NEW a \in Admins
      PROVE  Retired(a, admins[a]) \in Row /\ Retired(a, admins[a]).pw = admins[a].pw
  <2>1. admins[a] \in Row
    BY <1>1 DEF AdminTypes
  <2>. DEFINE nm == IF admins[a].name = DefaultAdminUsername THEN "admin#id" ELSE admins[a].name
  <2>2. nm \in Text
    BY <2>1 DEF Text
  <2>3. Retired(a, admins[a]) = IF admins[a].status = "absent" THEN admins[a]
                                ELSE [admins[a] EXCEPT !.status = "DISABLED", !.name = nm]
    BY DEF Retired
  <2>. HIDE DEF nm
  <2>. QED
    BY <2>1, <2>2, <2>3 DEF Statuses
<1>. HIDE DEF kept
<1>7. /\ admins' \in [Admins -> Row] /\ admins'[keep].pw = c.new
      /\ \A b \in Admins : b # keep => admins'[b].pw = admins[b].pw
  <2>. HIDE DEF Row
  <2>. QED
    BY <1>2, <1>3, <1>5, <1>6
<1>8. WinInv'
  <2>1. ch'[c].at = "bump" /\ \A d \in inst.changes : d # c => ch'[d] = ch[d]
    BY <1>1, <1>2, ChangeMoves
  <2>2. wins' \in {wins, wins \cup {[id |-> keep, from |-> admins[keep].pw, to |-> c.new]}}
    BY <1>2
  <2>3. ch'[c].at \notin {"todo", "write"}
    BY <2>1
  <2>. QED
    BY <1>1, <1>2, <1>3, <1>4, <1>7, <2>1, <2>2, <2>3, WinGrows
<1>. QED
  BY <1>2, <1>7, <1>8, WriteKeeps

\* EnsureBootstrap writes only where there is no row, so where nobody can be in.
LEMMA BootstrapKeeps ==
    ASSUME AdminInv, NEW c \in inst.changes, EnsureBootstrap(c)
    PROVE  AdminInv'
<1>1. AdminTypes /\ FenceInv /\ WinInv
  BY DEF AdminInv
<1>. DEFINE new == [name |-> c.name, pw |-> c.new, status |-> "ACTIVE"]
            Row == [name : Text, pw : Text, status : Statuses]
<1>2. /\ UNCHANGED <<inst, epoch, tokens, unfenced, lg, wins>> /\ ch[c].at = "todo"
      /\ c.do = "bootstrap" /\ Go(c, "end")
      /\ admins' = IF Rows = {} THEN [admins EXCEPT ![Oldest] = new] ELSE admins
  BY DEF EnsureBootstrap, ChangeRest, authzVars
<1>3. CASE Rows # {}
  BY <1>2, <1>3, ChangeEnds
<1>4. CASE Rows = {}
  <2>0. Oldest \in Admins
    BY ConsoleAssumption
  <2>1. /\ ch' \in [inst.changes -> [at : {"todo", "write", "bump", "end"},
                                      id : Admins \cup {None}, hash : Text]]
        /\ ch'[c].at = "end" /\ \A d \in inst.changes : d # c => ch'[d] = ch[d]
    BY <1>1, <1>2, ChangeMoves
  <2>2. c.name \in STRING /\ c.new \in STRING /\ c.new # ""
    BY <1>1, <1>2, ChangesOf DEF AdminTypes
  <2>3. new \in Row /\ new.pw = c.new
    BY <2>2 DEF Text, Statuses
  <2>4. /\ admins' \in [Admins -> Row] /\ admins'[Oldest].pw = c.new
        /\ \A b \in Admins : b # Oldest => admins'[b].pw = admins[b].pw
    <3>1. admins \in [Admins -> Row] /\ admins' = [admins EXCEPT ![Oldest] = new]
      BY <1>1, <1>2, <1>4 DEF AdminTypes
    <3>. HIDE DEF new, Row
    <3>. QED
      BY <2>0, <2>3, <3>1
  <2>5. AdminTypes'
    BY <1>1, <1>2, <2>1, <2>4 DEF AdminTypes
  <2>6. FenceInv'
    <3>1. Changing => Changing'
      BY <1>2, <2>1, WhoBumps
    <3>2. \A a \in Admins : admins[a].status # "ACTIVE"
      BY <1>4 DEF Rows, Present
    <3>. QED
      BY <1>1, <1>2, <3>1, <3>2, FenceStays
  <2>7. WinInv'
    <3>1. Pending(c)
      BY <1>2, <2>2 DEF Pending
    <3>2. ch'[c].at \notin {"todo", "write"} /\ wins' = wins
      BY <1>2, <2>1
    <3>. QED
      BY <1>1, <1>2, <2>0, <2>1, <2>4, <3>1, <3>2, WinGrows
  <2>. QED
    BY <2>5, <2>6, <2>7 DEF AdminInv
<1>. QED
  BY <1>3, <1>4

\* bumpEpoch puts every session and every login under way behind the epoch; when it fails,
\* the change stands without it.
LEMMA BumpKeeps ==
    ASSUME AdminInv, NEW c \in inst.changes, bumpEpoch(c) \/ BumpFails(c)
    PROVE  AdminInv'
<1>1. AdminTypes /\ FenceInv /\ WinInv
  BY DEF AdminInv
<1>2. UNCHANGED <<inst, admins, tokens, lg, wins>> /\ ch[c].at = "bump" /\ Go(c, "end")
  BY DEF bumpEpoch, BumpFails, ChangeRest, authzVars
<1>3. /\ ch' \in [inst.changes -> [at : {"todo", "write", "bump", "end"},
                                    id : Admins \cup {None}, hash : Text]]
      /\ ch'[c].at = "end" /\ \A d \in inst.changes : d # c => ch'[d] = ch[d]
  BY <1>1, <1>2, ChangeMoves
<1>4. WinInv'
  <2>1. \A d \in inst.changes : Pending(d)' => Pending(d)
    BY <1>2, <1>3 DEF Pending
  <2>2. \A d \in inst.changes : ch'[d].at = "write" => ch'[d].id \in Admins /\ d.do = "change"
    BY <1>1, <1>3 DEF WinInv
  <2>. QED
    BY <1>1, <1>2, <2>1, <2>2, WinStays
<1>5. CASE bumpEpoch(c)
  <2>1. epoch' = epoch + 1 /\ unfenced' = FALSE /\ epoch \in Nat
    BY <1>1, <1>5 DEF bumpEpoch, AdminTypes
  <2>2. AdminTypes'
    <3>1. epoch' \in Nat
      BY <2>1
    <3>2. unfenced' \in BOOLEAN
      BY <2>1
    <3>. QED
      BY <1>1, <1>2, <1>3, <3>1, <3>2 DEF AdminTypes
  <2>3. FenceInv'
    <3>. SUFFICES ASSUME NEW l \in Logins
         PROVE  /\ lg[l].epoch <= epoch' /\ lg[l].epoch # epoch'
                /\ In(l)' => lg[l].id \in Admins
                /\ l \in tokens => lg[l].at = "end"
      BY <1>2 DEF FenceInv
    <3>1. lg[l].epoch <= epoch /\ lg[l].epoch \in Nat
      BY <1>1 DEF FenceInv, AdminTypes
    <3>2. lg[l].epoch <= epoch' /\ lg[l].epoch # epoch'
      BY <2>1, <3>1
    <3>. QED
      BY <1>1, <1>2, <3>2 DEF FenceInv, In
  <2>. QED
    BY <1>4, <2>2, <2>3 DEF AdminInv
<1>6. CASE BumpFails(c)
  <2>1. epoch' = epoch /\ unfenced' = TRUE
    BY <1>6 DEF BumpFails
  <2>2. AdminTypes'
    BY <1>1, <1>2, <1>3, <2>1 DEF AdminTypes
  <2>3. FenceInv'
    BY <1>1, <1>2, <2>1, FenceStays
  <2>. QED
    BY <1>4, <2>2, <2>3 DEF AdminInv
<1>. QED
  BY <1>5, <1>6

\* Every step keeps the fence and the chain of passwords.
LEMMA AdminStep == AdminInv /\ [Next]_vars => AdminInv'
<1>. SUFFICES ASSUME AdminInv, [Next]_vars PROVE AdminInv'
  OBVIOUS
<1>1. ASSUME UNCHANGED <<inst, adminVars>> PROVE AdminInv'
  BY <1>1 DEF AdminInv, AdminTypes, FenceInv, WinInv, In, Pending, Changing, ReplacedOnce, adminVars
<1>2. CASE UNCHANGED vars
  BY <1>1, <1>2 DEF vars, authzVars
<1>3. ASSUME NEW o \in inst.ops, UNCHANGED adminVars,
             ConsoleCall(o) \/ KeyCall(o) \/ AppCall(o)
      PROVE  AdminInv'
  BY <1>1, <1>3, ConsoleFrame, KeyFrame, AppFrame
<1>4. CASE (SdkPolicy \/ WatchKeys \/ SdkKeys) /\ UNCHANGED adminVars
  <2>1. WatchKeys => inst' = inst
    BY PolicyFrame DEF WatchKeys
  <2>. QED
    BY <1>1, <1>4, <2>1, PolicyFrame, SdkFrame
<1>5. ASSUME NEW c \in inst.calls, ServerCall(c), UNCHANGED adminVars PROVE AdminInv'
  BY <1>1, <1>5, ServerFrame DEF authzVars
<1>6. CASE Accounts
  <2>1. ASSUME NEW l \in Logins, currentEpoch(l) \/ Login(l) \/ issueToken(l) PROVE AdminInv'
    BY <2>1, LoginKeeps
  <2>2. ASSUME NEW c \in inst.changes, Logout(c) PROVE AdminInv'
    <3>1. /\ UNCHANGED <<inst, admins, epoch, wins, unfenced, lg>> /\ tokens' \subseteq tokens
          /\ ch[c].at = "todo" /\ Go(c, "end")
      BY <2>2 DEF Logout, ChangeRest, authzVars
    <3>. QED
      BY <3>1, ChangeEnds
  <2>3. ASSUME NEW c \in inst.changes,
               \/ ChangeAccount(c) \/ ChangeWrites(c) \/ ResetPassword(c) \/ EnsureBootstrap(c)
               \/ bumpEpoch(c) \/ BumpFails(c)
        PROVE  AdminInv'
    BY <2>3, ChangeReads, UpdateKeeps, ResetKeeps, BootstrapKeeps, BumpKeeps
  <2>. QED
    BY <1>6, <2>1, <2>2, <2>3 DEF Accounts
<1>. QED
  BY <1>2, <1>3, <1>4, <1>5, <1>6 DEF Next

\* Login and issueToken against ChangeAccount, ResetPassword and bumpEpoch, whatever runs at
\* once: a session that passes Authenticate was opened with the password its account has,
\* unless the epoch is still to be raised or could not be.
THEOREM SessionsFenced == Spec => []SessionFence
<1>1. AdminInv => SessionFence
  BY DEF AdminInv, FenceInv, SessionFence, Authenticate, In
<1>. QED
  BY <1>1, AdminInit, AdminStep, PTL DEF Spec

\* ChangeAccount's WHERE clause: a password is replaced once, so of two changes that both
\* knew it, or a change and a reset, only one takes place.
THEOREM OneReplacement == Spec => []ReplacedOnce
<1>1. AdminInv => ReplacedOnce
  BY DEF AdminInv, WinInv
<1>. QED
  BY <1>1, AdminInit, AdminStep, PTL DEF Spec

-----------------------------------------------------------------------------
(* Requests signed with a key                                              *)

\* Every request has read a time that has been (an entry of rq is a record, of which the
\* proofs need two fields).
ReadsIn(f, t) ==
    /\ f = [q \in inst.reqs |-> f[q]]
    /\ \A q \in inst.reqs : /\ "at" \in DOMAIN f[q] /\ "now" \in DOMAIN f[q]
                            /\ f[q].now \in Nat /\ f[q].now <= t
ReqTypes ==
    /\ inst \in Instances /\ clock \in Nat
    /\ ReadsIn(rq, clock)

\* One request goes on.
LEMMA ReqSet ==
    ASSUME ReqTypes, inst' = inst, clock' = clock, NEW q \in inst.reqs, NEW new,
           "at" \in DOMAIN new, "now" \in DOMAIN new, new.now \in {rq[q].now, clock},
           rq' = [rq EXCEPT ![q] = new]
    PROVE  ReqTypes' /\ rq'[q] = new /\ \A p \in inst.reqs : p # q => rq'[p] = rq[p]
<1>1. rq = [p \in inst.reqs |-> rq[p]]
  BY DEF ReqTypes, ReadsIn
<1>2. rq' = [p \in inst.reqs |-> rq'[p]] /\ rq'[q] = new /\ \A p \in inst.reqs : p # q => rq'[p] = rq[p]
  BY <1>1
<1>3. new.now \in Nat /\ new.now <= clock
  BY DEF ReqTypes, ReadsIn
<1>4. ReadsIn(rq', clock)
  BY <1>2, <1>3 DEF ReqTypes, ReadsIn
<1>5. ReadsIn(rq, clock)'
  BY <1>4 DEF ReadsIn
<1>. QED
  BY <1>2, <1>5 DEF ReqTypes

\* One request goes on, as the actions write it.
LEMMA ReqTurn ==
    ASSUME ReqTypes, inst' = inst, clock' = clock, NEW q \in inst.reqs, NEW at, Turn(q, at)
    PROVE  ReqTypes' /\ rq'[q].at = at /\ \A p \in inst.reqs : p # q => rq'[p] = rq[p]
<1>. DEFINE new == [rq[q] EXCEPT !.at = at]
<1>1. "at" \in DOMAIN rq[q] /\ "now" \in DOMAIN rq[q]
  BY DEF ReqTypes, ReadsIn
<1>2. "at" \in DOMAIN new /\ "now" \in DOMAIN new /\ new.now = rq[q].now /\ new.at = at
  BY <1>1
<1>3. rq' = [rq EXCEPT ![q] = new]
  BY DEF Turn
<1>. HIDE DEF new
<1>. QED
  BY <1>2, <1>3, ReqSet

\* Those who joined a flight go on together.
LEMMA ReqLand ==
    ASSUME ReqTypes, inst' = inst, clock' = clock, NEW k, NEW how, Land(k, how)
    PROVE  /\ ReqTypes'
           /\ \A q \in inst.reqs : rq'[q].at # rq[q].at => q.ak = k /\ rq'[q].at = how.at
<1>. DEFINE new(q) == [rq[q] EXCEPT !.at = how.at, !.roles = how.roles]
<1>1. rq' = [q \in inst.reqs |-> IF rq[q].at = "join" /\ q.ak = k THEN new(q) ELSE rq[q]]
  BY DEF Land
<1>2. ASSUME NEW q \in inst.reqs
      PROVE  "at" \in DOMAIN new(q) /\ "now" \in DOMAIN new(q) /\ new(q).now = rq[q].now /\ new(q).at = how.at
  BY DEF ReqTypes, ReadsIn
<1>. HIDE DEF new
<1>3. ASSUME NEW q \in inst.reqs
      PROVE  /\ "at" \in DOMAIN rq'[q] /\ "now" \in DOMAIN rq'[q] /\ rq'[q].now = rq[q].now
             /\ rq'[q].at # rq[q].at => q.ak = k /\ rq'[q].at = how.at
  BY <1>1, <1>2 DEF ReqTypes, ReadsIn
<1>4. ReadsIn(rq, clock)'
  <2>1. rq' = [q \in inst.reqs |-> rq'[q]]
    BY <1>1
  <2>. QED
    BY <1>3, <2>1 DEF ReqTypes, ReadsIn
<1>. QED
  BY <1>3, <1>4 DEF ReqTypes

\* A step of the SDK: which requests it moves, and how one comes to have a role of its key.
LEMMA ReqStep ==
    ASSUME ReqTypes, SdkKeys
    PROVE  /\ ReqTypes'
           /\ \A q \in inst.reqs : rq'[q].at = "verify" =>
                \/ rq[q].at = "verify" \/ cache[q.ak] # Absent
                \/ flight[q.ak] # None /\ (flight[q.ak].res # Absent \/ flight[q.ak].at = "add")
<1>. DEFINE Goal == /\ ReqTypes'
                    /\ \A q \in inst.reqs : rq'[q].at = "verify" =>
                         \/ rq[q].at = "verify" \/ cache[q.ak] # Absent
                         \/ flight[q.ak] # None /\ (flight[q.ak].res # Absent \/ flight[q.ak].at = "add")
<1>0. inst' = inst
  BY SdkFrame
<1>1. ASSUME UNCHANGED rq, clock' \in {clock, clock + 1} PROVE Goal
  <2>1. clock' \in Nat /\ clock <= clock'
    BY <1>1 DEF ReqTypes
  <2>2. ReadsIn(rq, clock)'
    <3>1. \A q \in inst.reqs : rq[q].now <= clock'
      BY <2>1 DEF ReqTypes, ReadsIn
    <3>. QED
      BY <1>0, <1>1, <3>1 DEF ReqTypes, ReadsIn
  <2>. QED
    BY <1>0, <1>1, <2>1, <2>2 DEF ReqTypes
<1>2. ASSUME NEW k \in AKs, Evict(k) \/ Resolve(k) PROVE Goal
  BY <1>1, <1>2 DEF Evict, Resolve, FlightRest
<1>3. ASSUME NEW k \in AKs, clock' = clock,
             \/ Land(k, Refused)
             \/ /\ flight[k] # None /\ (flight[k].res # Absent \/ flight[k].at = "add")
                /\ Land(k, Having(flight[k].res))
             \/ cache[k] # Absent /\ Land(k, Having(cache[k]))
      PROVE  Goal
  <2>1. Refused.at # "verify"
    BY DEF Refused
  <2>. QED
    BY <1>0, <1>3, <2>1, ReqLand
<1>4. ASSUME NEW k \in AKs, Compare(k) PROVE Goal
  <2>1. clock' = clock
    BY <1>4 DEF Compare, FlightRest
  <2>2. \/ UNCHANGED rq
        \/ Land(k, Refused)
        \/ flight[k] # None /\ flight[k].res # Absent /\ Land(k, Having(flight[k].res))
    BY <1>4 DEF Compare
  <2>. QED
    BY <1>1, <1>3, <2>1, <2>2
<1>5. ASSUME NEW k \in AKs, LookupFails(k) PROVE Goal
  BY <1>3, <1>5 DEF LookupFails
<1>. DEFINE Others(q) == \A p \in inst.reqs : p # q => rq'[p] = rq[p]
<1>6. ASSUME NEW q \in inst.reqs, ReqTypes', Others(q),
             rq'[q].at = "verify" => cache[q.ak] # Absent
      PROVE  Goal
  BY <1>6
<1>7. ASSUME NEW q \in inst.reqs, NEW at, clock' = clock, Turn(q, at), at # "verify" PROVE Goal
  <2>1. ReqTypes' /\ rq'[q].at = at /\ Others(q)
    BY <1>0, <1>7, ReqTurn
  <2>. QED
    BY <1>6, <1>7, <2>1
<1>8. ASSUME NEW q \in inst.reqs, MiddlewareWith(q) PROVE Goal
  <2>. DEFINE new == IF q.by = "user" THEN [at |-> "decide", now |-> clock, roles |-> EffectiveRoles(q.user)]
                     ELSE IF q.by = "nobody" THEN [at |-> "decide", now |-> clock, roles |-> {}]
                     ELSE IF clock - q.ts > Window \/ q.ts - clock > Window
                       THEN [at |-> "refused", now |-> clock, roles |-> {}]
                       ELSE [at |-> "get", now |-> clock, roles |-> {}]
  <2>1. clock' = clock /\ rq' = [rq EXCEPT ![q] = new]
    BY <1>8 DEF MiddlewareWith, RequestRest
  <2>2. "at" \in DOMAIN new /\ "now" \in DOMAIN new /\ new.now = clock /\ new.at # "verify"
    OBVIOUS
  <2>. HIDE DEF new
  <2>3. ReqTypes' /\ rq'[q] = new /\ Others(q)
    BY <1>0, <2>1, <2>2, ReqSet
  <2>. QED
    BY <1>6, <2>2, <2>3
<1>9. ASSUME NEW q \in inst.reqs, Get(q) PROVE Goal
  <2>1. clock' = clock
    BY <1>9 DEF Get, RequestRest
  <2>2. CASE cache[q.ak] # Absent /\ rq' = [rq EXCEPT ![q].at = "verify", ![q].roles = Having(cache[q.ak]).roles]
    <3>. DEFINE new == [rq[q] EXCEPT !.at = "verify", !.roles = Having(cache[q.ak]).roles]
    <3>1. "at" \in DOMAIN new /\ "now" \in DOMAIN new /\ new.now = rq[q].now
      BY DEF ReqTypes, ReadsIn
    <3>2. rq' = [rq EXCEPT ![q] = new]
      BY <2>2
    <3>. HIDE DEF new
    <3>3. ReqTypes' /\ Others(q)
      BY <1>0, <2>1, <3>1, <3>2, ReqSet
    <3>. QED
      BY <1>6, <2>2, <3>3
  <2>3. CASE Turn(q, "do")
    BY <1>7, <2>1, <2>3
  <2>. QED
    BY <1>9, <2>2, <2>3 DEF Get, Turn
<1>10. ASSUME NEW q \in inst.reqs, Do(q) PROVE Goal
  <2>1. clock' = clock /\ Turn(q, "join")
    BY <1>10 DEF Do, RequestRest, Turn
  <2>. QED
    BY <1>7, <2>1
<1>11. ASSUME NEW q \in inst.reqs, verifyAccessKey(q) PROVE Goal
  <2>1. clock' = clock /\ (Turn(q, "refused") \/ Turn(q, "decide"))
    BY <1>11 DEF verifyAccessKey, RequestRest
  <2>. QED
    BY <1>7, <2>1
<1>12. ASSUME NEW q \in inst.reqs, Middleware(q) PROVE Goal
  <2>1. clock' = clock /\ (Turn(q, "served") \/ Turn(q, "refused"))
    BY <1>12 DEF Middleware, RequestRest
  <2>. QED
    BY <1>7, <2>1
<1>13. ASSUME NEW f \in Flushers, take(f) \/ ReportAccessKeyUsage(f) \/ ReportFails(f) PROVE Goal
  BY <1>1, <1>13 DEF take, ReportAccessKeyUsage, ReportFails, UsageRest
<1>14. CASE Tick
  BY <1>1, <1>14 DEF Tick
<1>15. ASSUME NEW k \in AKs, Add(k) PROVE Goal
  <2>1. clock' = clock /\ flight[k] # None /\ flight[k].at = "add" /\ Land(k, Having(flight[k].res))
    BY <1>15 DEF Add, FlightRest
  <2>. QED
    BY <1>3, <2>1
<1>. QED
  BY <1>2, <1>4, <1>5, <1>8, <1>9, <1>10, <1>11, <1>12, <1>13, <1>14, <1>15 DEF SdkKeys

\* What was accepted stays in the table, under an entry that lives as long, while its
\* window is open.
Covered(m) == m.exp <= clock \/ \E n \in nonces : Same(n, m) /\ n.exp >= m.exp
NonceInv ==
    /\ ReqTypes
    /\ \A n \in nonces : n.exp \in Int
    /\ \A m \in accepted : m.exp \in Int /\ m.at \in Int /\ Covered(m)
    /\ NonceOnce

\* At the start no request has come.
LEMMA NonceInit == Init => NonceInv
<1>. SUFFICES ASSUME Init PROVE NonceInv
  OBVIOUS
<1>1. inst \in Instances /\ clock = Minute /\ nonces = {} /\ accepted = {}
  BY DEF Init, AuthzInit, KeyInit
<1>2. clock \in Nat
  BY <1>1, KeyAssumption
<1>3. rq = [q \in inst.reqs |-> [at |-> "todo", now |-> 0, roles |-> {}]]
  BY DEF Init, KeyInit
<1>4. ReadsIn(rq, clock)
  BY <1>2, <1>3 DEF ReadsIn
<1>. QED
  BY <1>1, <1>2, <1>4 DEF NonceInv, ReqTypes, NonceOnce

\* nonceStore.add, called with the time that the request read at its beginning: entries
\* that make room have expired by then, and an entry that is replaced has too.
LEMMA TableKeeps ==
    ASSUME NonceInv, NEW q \in inst.reqs, verifyAccessKey(q)
    PROVE  /\ \A n \in nonces' : n.exp \in Int
           /\ \A m \in accepted' : m.exp \in Int /\ m.at \in Int /\ Covered(m)'
           /\ NonceOnce'
<1>. DEFINE now == rq[q].now
            exp == Expires(q)
            n0 == [ak |-> q.ak, nonce |-> q.nonce, exp |-> exp]
            m0 == [id |-> q.id, ak |-> q.ak, nonce |-> q.nonce, exp |-> exp, at |-> clock]
<1>1. /\ inst \in Instances /\ clock \in Nat /\ now \in Nat /\ now <= clock
  BY DEF NonceInv, ReqTypes, ReadsIn
<1>2. clock' = clock
  BY DEF verifyAccessKey, RequestRest
<1>3. exp \in Int
  <2>1. q.ts \in Int
    BY <1>1, KeyAssumption
  <2>. QED
    BY <2>1, KeyAssumption DEF Expires
<1>. HIDE DEF exp, now
<1>4. n0.exp = exp /\ m0.exp = exp /\ m0.at = clock /\ Same(n0, m0) /\ Same(n0, q) /\ Same(m0, q)
  BY DEF Same
<1>. HIDE DEF n0, m0
<1>5. /\ \A n \in nonces : n.exp \in Int
      /\ \A m \in accepted : m.exp \in Int /\ m.at \in Int /\ Covered(m)
  BY DEF NonceInv
<1>6. Room(now) \subseteq nonces /\ \A n \in nonces : n \in Room(now) \/ n.exp <= now
  <2>1. \A n \in nonces : n.exp > now \/ n.exp <= now
    BY <1>1, <1>5
  <2>. QED
    BY <2>1 DEF Room
<1>7. CASE UNCHANGED <<nonces, accepted>>
  BY <1>2, <1>5, <1>7 DEF NonceInv, Covered, NonceOnce
<1>8. CASE nonces' = Room(now) /\ UNCHANGED accepted
  <2>1. ASSUME NEW m \in accepted PROVE Covered(m)'
    <3>1. CASE m.exp <= clock
      BY <1>2, <3>1 DEF Covered
    <3>2. ASSUME NEW n \in nonces, Same(n, m), n.exp >= m.exp PROVE Covered(m)'
      <4>1. CASE n \in Room(now)
        BY <1>8, <3>2, <4>1 DEF Covered
      <4>2. CASE n.exp <= now
        <5>1. m.exp <= clock
          BY <1>1, <1>5, <3>2, <4>2
        <5>. QED
          BY <3>1, <5>1
      <4>. QED
        BY <1>6, <4>1, <4>2
    <3>. QED
      BY <1>5, <3>1, <3>2 DEF Covered
  <2>. QED
    BY <1>5, <1>6, <1>8, <2>1 DEF NonceInv, NonceOnce
<1>9. CASE /\ ~Used(q, now) /\ nonces' = {n \in Room(now) : ~Same(n, q)} \cup {n0}
           /\ accepted' = accepted \cup {m0}
  <2>1. \A n \in nonces : Same(n, q) => n.exp <= now
    BY <1>1, <1>5, <1>9 DEF Used
  <2>2. \A n \in nonces' : n.exp \in Int
    BY <1>3, <1>4, <1>5, <1>6, <1>9
  <2>3. ASSUME NEW m \in accepted PROVE Covered(m)' /\ (Same(m, m0) => m.exp <= clock)
    <3>1. CASE m.exp <= clock
      BY <1>2, <3>1 DEF Covered
    <3>2. ASSUME NEW n \in nonces, Same(n, m), n.exp >= m.exp
          PROVE  Covered(m)' /\ (Same(m, m0) => m.exp <= clock)
      <4>1. CASE n \in Room(now) /\ ~Same(n, q)
        <5>1. ~Same(m, m0)
          BY <1>4, <3>2, <4>1 DEF Same
        <5>. QED
          BY <1>9, <3>2, <4>1, <5>1 DEF Covered
      <4>2. CASE n.exp <= now
        <5>1. m.exp <= clock
          BY <1>1, <1>5, <3>2, <4>2
        <5>. QED
          BY <3>1, <5>1
      <4>. QED
        BY <1>6, <2>1, <4>1, <4>2
    <3>. QED
      BY <1>5, <3>1, <3>2 DEF Covered
  <2>4. \E n \in nonces' : Same(n, m0) /\ n.exp >= m0.exp
    BY <1>3, <1>4, <1>9
  <2>5. ASSUME NEW m \in accepted' PROVE m.exp \in Int /\ m.at \in Int /\ Covered(m)'
    <3>1. CASE m \in accepted
      BY <1>5, <2>3, <3>1
    <3>2. CASE m = m0
      BY <1>1, <1>3, <1>4, <2>4, <3>2 DEF Covered
    <3>. QED
      BY <1>9, <3>1, <3>2
  <2>6. NonceOnce'
    <3>1. \A m \in accepted : Same(m, m0) \/ Same(m0, m) => m0.at >= m.exp
      <4>1. \A m \in accepted : Same(m0, m) => Same(m, m0)
        BY DEF Same
      <4>2. \A m \in accepted : m.exp <= clock => m0.at >= m.exp
        BY <1>1, <1>4, <1>5
      <4>. QED
        BY <2>3, <4>1, <4>2
    <3>2. NonceOnce
      BY DEF NonceInv
    <3>. QED
      BY <1>9, <3>1, <3>2 DEF NonceOnce
  <2>. QED
    BY <2>2, <2>5, <2>6
<1>. QED
  BY <1>7, <1>8, <1>9 DEF verifyAccessKey, add, n0, m0, exp, now

\* Every step keeps the table.
LEMMA NonceStep == NonceInv /\ [Next]_vars => NonceInv'
<1>. SUFFICES ASSUME NonceInv, [Next]_vars PROVE NonceInv'
  OBVIOUS
<1>0. ReqTypes
  BY DEF NonceInv
<1>1. ASSUME UNCHANGED <<inst, clock, rq, nonces, accepted>> PROVE NonceInv'
  BY <1>1 DEF NonceInv, ReqTypes, ReadsIn, Covered, NonceOnce
<1>2. CASE UNCHANGED vars
  BY <1>1, <1>2 DEF vars, authzVars, keyVars
<1>3. ASSUME NEW o \in inst.ops,
             (ConsoleCall(o) /\ UNCHANGED keyVars) \/ KeyCall(o) \/ AppCall(o)
      PROVE  NonceInv'
  BY <1>1, <1>3, ConsoleFrame, KeyFrame, AppFrame DEF keyVars
<1>4. CASE SdkPolicy /\ UNCHANGED keyVars
  BY <1>1, <1>4, PolicyFrame DEF keyVars
<1>5. CASE WatchKeys
  <2>1. inst' = inst
    BY <1>5, PolicyFrame DEF WatchKeys
  <2>. QED
    BY <1>1, <1>5, <2>1 DEF WatchKeys
<1>6. CASE SdkKeys
  <2>1. ReqTypes' /\ inst' = inst
    BY <1>0, <1>6, ReqStep, SdkFrame
  <2>2. ASSUME UNCHANGED <<nonces, accepted>>, clock <= clock' PROVE NonceInv'
    <3>1. \A m \in accepted : Covered(m)'
      BY <1>0, <2>1, <2>2 DEF NonceInv, Covered, ReqTypes
    <3>. QED
      BY <2>1, <2>2, <3>1 DEF NonceInv, NonceOnce
  <2>3. ASSUME NEW q \in inst.reqs, verifyAccessKey(q) PROVE NonceInv'
    BY <2>1, <2>3, TableKeeps DEF NonceInv
  <2>4. CASE Tick
    BY <1>0, <2>2, <2>4 DEF Tick, ReqTypes
  <2>5. clock <= clock
    BY <1>0 DEF ReqTypes
  <2>6. ASSUME NEW k \in AKs, Evict(k) \/ Resolve(k) \/ Compare(k) \/ Add(k) \/ LookupFails(k)
        PROVE NonceInv'
    BY <2>2, <2>5, <2>6 DEF Evict, Resolve, Compare, Add, LookupFails, FlightRest
  <2>7. ASSUME NEW q \in inst.reqs, MiddlewareWith(q) \/ Get(q) \/ Do(q) \/ Middleware(q)
        PROVE NonceInv'
    BY <2>2, <2>5, <2>7 DEF MiddlewareWith, Get, Do, Middleware, RequestRest
  <2>8. ASSUME NEW f \in Flushers, take(f) \/ ReportAccessKeyUsage(f) \/ ReportFails(f) PROVE NonceInv'
    BY <2>2, <2>5, <2>8 DEF take, ReportAccessKeyUsage, ReportFails, UsageRest
  <2>. QED
    BY <1>6, <2>3, <2>4, <2>6, <2>7, <2>8 DEF SdkKeys
<1>7. ASSUME NEW c \in inst.calls, ServerCall(c) PROVE NonceInv'
  BY <1>1, <1>7, ServerFrame DEF authzVars, keyVars
<1>8. CASE Accounts
  BY <1>1, <1>8, AccountsFrame DEF keyVars
<1>. QED
  BY <1>2, <1>3, <1>4, <1>5, <1>6, <1>7, <1>8 DEF Next

\* nonceStore, at any capacity and with any requests under way: of two requests with the
\* same key and nonce the second is not let through while the window of the first is open,
\* though each compares with the time it read before its key was fetched.
THEOREM NoReplay == Spec => []NonceOnce
<1>1. NonceInv => NonceOnce
  BY DEF NonceInv
<1>. QED
  BY <1>1, NonceInit, NonceStep, PTL DEF Spec

-----------------------------------------------------------------------------
(* Reports of use                                                          *)

\* Which keys there are, and which the console has yet to create.
PcIn ==
    /\ pc = [o \in inst.ops |-> pc[o]]
    /\ \A o \in inst.ops : o.do = "createKey" => "at" \in DOMAIN pc[o]
RowsIn ==
    /\ akeys = [k \in AKs |-> akeys[k]]
    /\ \A k \in AKs : "status" \in DOMAIN akeys[k]
ToCome(k) == \E o \in inst.ops : o.do = "createKey" /\ o.ak = k /\ pc[o].at = "todo"

\* A call moves itself; only Create makes a row, of a key that it makes up.
LEMMA CallMoves ==
    ASSUME PcIn, RowsIn, inst \in Instances, NEW o \in inst.ops, ConsoleCall(o) \/ KeyCall(o) \/ AppCall(o)
    PROVE  /\ PcIn' /\ RowsIn'
           /\ \A k \in AKs : ToCome(k)' => ToCome(k)
           /\ \A k \in AKs : \/ akeys'[k] = akeys[k] \/ akeys[k].status # Absent
                             \/ ToCome(k) /\ ~ToCome(k)'
<1>0. inst' = inst
  BY ConsoleFrame, KeyFrame, AppFrame
<1>1. ASSUME pc' = [p \in inst.ops |-> pc'[p]], \A p \in inst.ops : p # o => pc'[p] = pc[p],
             o.do # "createKey", akeys' = akeys
      PROVE  /\ PcIn' /\ RowsIn'
             /\ \A k \in AKs : (ToCome(k)' => ToCome(k)) /\ akeys'[k] = akeys[k]
  <2>1. \A p \in inst.ops : p.do = "createKey" => pc'[p] = pc[p]
    BY <1>1
  <2>. QED
    BY <1>0, <1>1, <2>1 DEF PcIn, RowsIn, ToCome
<1>. DEFINE Moves == pc' = [p \in inst.ops |-> pc'[p]] /\ \A p \in inst.ops : p # o => pc'[p] = pc[p]
<1>2. ASSUME NEW at, Step(o, at) PROVE Moves
  BY <1>2 DEF Step, PcIn
<1>3. CASE ConsoleCall(o)
  <2>1. Moves
    <3>1. ASSUME NEW new, pc' = [pc EXCEPT ![o] = new] PROVE Moves
      BY <3>1 DEF PcIn
    <3>2. UpdateRole(o) \/ wouldCycle(o) => Moves
      BY <3>1 DEF UpdateRole, wouldCycle
    <3>. HIDE DEF Moves
    <3>. QED
      BY <1>2, <1>3, <3>2 DEF ConsoleCall, CreateRole, UpdateRoleWrites, DeleteRole, SetUserRoles,
           SetUserRolesWrites, SetDefaultRole, SetDefaultRoleWrites, ReportPermissions,
           UpdatePermission, DeletePermission, SetRolePermission, announcePolicy, Publish, End
  <2>2. o.do # "createKey"
    BY <1>3 DEF ConsoleCall, CreateRole, UpdateRole, wouldCycle, UpdateRoleWrites, DeleteRole, SetUserRoles,
           SetUserRolesWrites, SetDefaultRole, SetDefaultRoleWrites, ReportPermissions,
           UpdatePermission, DeletePermission, SetRolePermission, announcePolicy, At
  <2>3. akeys' = akeys
    BY <1>3, ConsoleFrame
  <2>. QED
    BY <1>1, <2>1, <2>2, <2>3
<1>4. CASE AppCall(o)
  <2>1. Moves
    BY <1>2, <1>4 DEF AppCall, CreateApp, SetAppStatus, SetIMConfig, DeleteApp, Rotate, End
  <2>2. o.do # "createKey"
    BY <1>4 DEF AppCall, CreateApp, SetAppStatus, SetIMConfig, DeleteApp, Rotate, At
  <2>3. akeys' = akeys
    BY <1>4, AppFrame
  <2>. QED
    BY <1>1, <2>1, <2>2, <2>3
<1>5. CASE Create(o)
  <2>1. Moves /\ o.do = "createKey" /\ pc[o].at = "todo" /\ Step(o, "end")
    BY <1>2, <1>5 DEF Create, At, End
  <2>2. pc'[o].at = "end" /\ "at" \in DOMAIN pc'[o]
    BY <2>1 DEF PcIn, Step
  <2>3. PcIn'
    BY <1>0, <2>1, <2>2 DEF PcIn
  <2>4. RowsIn' /\ \A k \in AKs : k # o.ak => akeys'[k] = akeys[k]
    <3>1. akeys' = akeys \/ akeys' = [akeys EXCEPT ![o.ak] = [status |-> "ACTIVE", role |-> o.code]]
      BY <1>5 DEF Create
    <3>. QED
      BY <3>1 DEF RowsIn
  <2>5. ~ToCome(o.ak)'
    <3>1. \A p \in inst.ops : p.do = "createKey" /\ p.ak = o.ak => p = o
      BY <2>1, KeyAssumption
    <3>. QED
      BY <1>0, <2>2, <3>1 DEF ToCome
  <2>6. \A k \in AKs : ToCome(k)' => ToCome(k)
    BY <1>0, <2>1, <2>2 DEF ToCome
  <2>7. ToCome(o.ak)
    BY <2>1 DEF ToCome
  <2>. QED
    BY <2>3, <2>4, <2>5, <2>6, <2>7
<1>6. CASE Update(o) \/ SetStatus(o) \/ Delete(o) \/ announce(o)
  <2>1. Moves /\ o.do # "createKey"
    BY <1>2, <1>6 DEF Update, SetStatus, Delete, announce, Publish, At, End
  <2>2. \A p \in inst.ops : p.do = "createKey" => pc'[p] = pc[p]
    BY <2>1
  <2>3. PcIn' /\ \A k \in AKs : ToCome(k)' => ToCome(k)
    BY <1>0, <2>1, <2>2 DEF PcIn, ToCome
  <2>4. RowsIn' /\ \A k \in AKs : akeys'[k] = akeys[k] \/ akeys[k].status # Absent
    <3>1. \/ akeys' = akeys
          \/ /\ akeys[o.ak].status # Absent
             /\ \/ akeys' = [akeys EXCEPT ![o.ak].role = o.code]
                \/ akeys' = [akeys EXCEPT ![o.ak].status = o.status]
                \/ akeys' = [akeys EXCEPT ![o.ak] = [status |-> Absent, role |-> None]]
      BY <1>6 DEF Update, SetStatus, Delete, announce, Publish, tableVars
    <3>. QED
      BY <3>1 DEF RowsIn
  <2>. QED
    BY <2>3, <2>4
<1>. QED
  BY <1>3, <1>4, <1>5, <1>6 DEF KeyCall

KeyTypes ==
    /\ ReqTypes /\ PcIn /\ RowsIn
    /\ cache = [k \in AKs |-> cache[k]]
    /\ flight = [k \in AKs |-> flight[k]]
    /\ \A k \in AKs : flight[k] # None => "at" \in DOMAIN flight[k] /\ "res" \in DOMAIN flight[k]
    /\ last \in [AKs -> Nat] /\ used \in [AKs -> Nat] /\ seen \in [AKs -> Nat]
    /\ batch \in [Flushers -> [AKs -> Nat] \cup {None}]

\* What is told of a key that does not exist yet: nothing, so no request of it gets as far
\* as a use.
Unheld(k) == flight[k] # None => flight[k].res = Absent /\ flight[k].at # "add"
Unused(k) ==
    /\ akeys[k].status = Absent /\ cache[k] = Absent /\ Unheld(k)
    /\ \A q \in inst.reqs : q.ak = k => rq[q].at # "verify"
    /\ seen[k] = 0 /\ used[k] = 0

\* UsageKept for one key.
Saved(k) ==
    ~closed /\ akeys[k].status # Absent =>
        \/ last[k] >= seen[k] \/ used[k] >= seen[k]
        \/ \E f \in Flushers : batch[f] # None /\ batch[f][k] >= seen[k]

UsageInv ==
    /\ KeyTypes
    /\ \A k \in AKs : ToCome(k) => Unused(k)
    /\ \A k \in AKs : Saved(k)

\* At the start nothing has been used.
LEMMA UsageInit == Init => UsageInv
<1>. SUFFICES ASSUME Init PROVE UsageInv
  OBVIOUS
<1>0. inst \in Instances
  BY DEF Init, AuthzInit
<1>1. /\ akeys = [k \in AKs |-> IF inst.keys[k] = "absent" THEN [status |-> "absent", role |-> None]
                                ELSE [status |-> "ACTIVE", role |-> inst.keys[k]]]
      /\ pc = [o \in inst.ops |-> [at |-> "todo", cur |-> None, n |-> 0]]
  BY DEF Init, AuthzInit
<1>2. /\ cache = [k \in AKs |-> Absent] /\ flight = [k \in AKs |-> None]
      /\ rq = [q \in inst.reqs |-> [at |-> "todo", now |-> 0, roles |-> {}]]
      /\ last = NoUse /\ batch = [f \in Flushers |-> None] /\ used = NoUse /\ seen = NoUse
  BY DEF Init, KeyInit
<1>3. KeyTypes
  <2>1. ReqTypes
    BY NonceInit DEF NonceInv
  <2>2. PcIn
    BY <1>1 DEF PcIn
  <2>3. RowsIn
    <3>1. \A k \in AKs : "status" \in DOMAIN akeys[k]
      BY <1>1
    <3>. QED
      BY <1>1, <3>1 DEF RowsIn
  <2>4. NoUse \in [AKs -> Nat]
    BY DEF NoUse
  <2>. QED
    BY <1>2, <2>1, <2>2, <2>3, <2>4 DEF KeyTypes
<1>4. ASSUME NEW k \in AKs, ToCome(k) PROVE Unused(k)
  <2>1. PICK o \in inst.ops : o.do = "createKey" /\ o.ak = k
    BY <1>4 DEF ToCome
  <2>2. inst.keys[k] = "absent"
    BY <1>0, <2>1, KeyAssumption
  <2>3. akeys[k].status = Absent
    BY <1>1, <2>2 DEF Absent
  <2>4. \A q \in inst.reqs : rq[q].at # "verify"
    BY <1>2
  <2>5. cache[k] = Absent /\ flight[k] = None /\ seen[k] = 0 /\ used[k] = 0
    BY <1>2 DEF NoUse
  <2>. QED
    BY <2>3, <2>4, <2>5 DEF Unused, Unheld
<1>5. ASSUME NEW k \in AKs PROVE Saved(k)
  <2>1. last[k] = 0 /\ seen[k] = 0
    BY <1>2 DEF NoUse
  <2>. QED
    BY <2>1 DEF Saved
<1>. QED
  BY <1>3, <1>4, <1>5 DEF UsageInv

\* A call of the console: a key that appears was not used before.
LEMMA CallKeepsUse ==
    ASSUME UsageInv, NEW o \in inst.ops, ConsoleCall(o) \/ KeyCall(o) \/ AppCall(o), UNCHANGED keyVars
    PROVE  UsageInv'
<1>1. KeyTypes /\ PcIn /\ RowsIn /\ inst \in Instances
  BY DEF UsageInv, KeyTypes, ReqTypes
<1>2. inst' = inst
  BY ConsoleFrame, KeyFrame, AppFrame
<1>3. UNCHANGED <<clock, cache, flight, rq, last, batch, used, seen, closed>>
  BY DEF keyVars
<1>4. /\ PcIn' /\ RowsIn'
      /\ \A k \in AKs : ToCome(k)' => ToCome(k)
      /\ \A k \in AKs : \/ akeys'[k] = akeys[k] \/ akeys[k].status # Absent
                        \/ ToCome(k) /\ ~ToCome(k)'
  BY <1>1, CallMoves
<1>5. KeyTypes'
  BY <1>1, <1>2, <1>3, <1>4 DEF KeyTypes, ReqTypes, ReadsIn
<1>6. ASSUME NEW k \in AKs, ToCome(k)' PROVE Unused(k)'
  <2>1. Unused(k) /\ akeys[k].status = Absent
    BY <1>4, <1>6 DEF UsageInv, Unused
  <2>2. akeys'[k] = akeys[k]
    BY <1>4, <1>6, <2>1
  <2>. QED
    BY <1>2, <1>3, <2>1, <2>2 DEF Unused, Unheld
<1>7. ASSUME NEW k \in AKs PROVE Saved(k)'
  <2>1. CASE ToCome(k)
    <3>1. used[k] = 0 /\ seen[k] = 0
      BY <2>1 DEF UsageInv, Unused
    <3>2. used'[k] >= seen'[k]
      BY <1>3, <3>1
    <3>. QED
      BY <3>2 DEF Saved
  <2>2. CASE ~ToCome(k)
    <3>1. Saved(k) /\ (akeys[k].status = Absent => akeys'[k] = akeys[k])
      BY <1>4, <2>2 DEF UsageInv
    <3>. QED
      BY <1>3, <3>1 DEF Saved
  <2>. QED
    BY <2>1, <2>2
<1>. QED
  BY <1>5, <1>6, <1>7 DEF UsageInv

\* Steps that leave the rows and the reports: the cache and the flights of a key that does
\* not exist stay empty.
LEMMA FlightKeepsUse ==
    ASSUME UsageInv, ReqTypes', UNCHANGED <<inst, akeys, pc, last, batch, used, seen, closed>>,
           cache' = [k \in AKs |-> cache'[k]], flight' = [k \in AKs |-> flight'[k]],
           \A k \in AKs : flight'[k] # None => "at" \in DOMAIN flight'[k] /\ "res" \in DOMAIN flight'[k],
           \A k \in AKs : akeys[k].status = Absent /\ cache[k] = Absent /\ Unheld(k) =>
                cache'[k] = Absent /\ Unheld(k)',
           \A q \in inst.reqs : rq'[q].at = "verify" =>
                \/ rq[q].at = "verify" \/ cache[q.ak] # Absent
                \/ flight[q.ak] # None /\ (flight[q.ak].res # Absent \/ flight[q.ak].at = "add")
    PROVE  UsageInv'
<1>1. KeyTypes'
  BY DEF UsageInv, KeyTypes, PcIn, RowsIn
<1>2. ASSUME NEW k \in AKs, ToCome(k)' PROVE Unused(k)'
  <2>1. Unused(k)
    BY <1>2 DEF UsageInv, ToCome
  <2>2. cache'[k] = Absent /\ Unheld(k)'
    BY <2>1 DEF Unused
  <2>3. \A q \in inst.reqs : q.ak = k => rq'[q].at # "verify"
    BY <2>1 DEF Unused, Unheld
  <2>. QED
    BY <2>1, <2>2, <2>3 DEF Unused
<1>3. \A k \in AKs : Saved(k)'
  BY DEF UsageInv, Saved
<1>. QED
  BY <1>1, <1>2, <1>3 DEF UsageInv

\* The Watch stream, the flights and the requests, but for the recording of a use.
LEMMA SdkKeepsUse ==
    ASSUME UsageInv,
           \/ WatchKeys \/ Tick
           \/ \E k \in AKs : Evict(k) \/ Resolve(k) \/ Compare(k) \/ Add(k) \/ LookupFails(k)
           \/ \E q \in inst.reqs : MiddlewareWith(q) \/ Get(q) \/ Do(q) \/ Middleware(q)
    PROVE  UsageInv'
<1>0. /\ KeyTypes /\ ReqTypes
      /\ cache = [k \in AKs |-> cache[k]] /\ flight = [k \in AKs |-> flight[k]]
      /\ \A k \in AKs : flight[k] # None => "at" \in DOMAIN flight[k] /\ "res" \in DOMAIN flight[k]
  BY DEF UsageInv, KeyTypes
<1>. DEFINE Quiet0 == UNCHANGED <<inst, akeys, pc, last, batch, used, seen, closed>>
            Typed0 == /\ cache' = [k \in AKs |-> cache'[k]] /\ flight' = [k \in AKs |-> flight'[k]]
                      /\ \A k \in AKs : flight'[k] # None => "at" \in DOMAIN flight'[k] /\ "res" \in DOMAIN flight'[k]
            Empty0 == \A k \in AKs : akeys[k].status = Absent /\ cache[k] = Absent /\ Unheld(k) =>
                         cache'[k] = Absent /\ Unheld(k)'
            Reqs0 == \A q \in inst.reqs : rq'[q].at = "verify" =>
                \/ rq[q].at = "verify" \/ cache[q.ak] # Absent
                \/ flight[q.ak] # None /\ (flight[q.ak].res # Absent \/ flight[q.ak].at = "add")
<1>1. ASSUME ReqTypes', Quiet0, Typed0, Empty0, Reqs0 PROVE UsageInv'
  BY <1>1, FlightKeepsUse
<1>2. CASE WatchKeys
  <2>1. Quiet0
    BY <1>2, PolicyFrame DEF WatchKeys
  <2>2. UNCHANGED <<clock, rq>>
    BY <1>2 DEF WatchKeys
  <2>3. ReqTypes' /\ Reqs0
    BY <1>0, <2>1, <2>2 DEF ReqTypes, ReadsIn
  <2>4. PICK gone : /\ cache' = [k \in AKs |-> IF k \in gone THEN Absent ELSE cache[k]]
                    /\ flight' = IF gone = {} THEN flight ELSE [k \in AKs |-> Overtake(flight[k])]
    BY <1>2 DEF WatchKeys
  <2>5. ASSUME NEW k \in AKs
        PROVE  /\ flight'[k] # None => "at" \in DOMAIN flight'[k] /\ "res" \in DOMAIN flight'[k]
               /\ flight'[k] # None => /\ flight[k] # None /\ flight'[k].at = flight[k].at
                                       /\ flight'[k].res = flight[k].res
    BY <1>0, <2>4 DEF Overtake
  <2>6. Typed0
    BY <1>0, <2>4, <2>5
  <2>7. Empty0
    BY <2>4, <2>5 DEF Unheld
  <2>. QED
    BY <1>1, <2>1, <2>3, <2>6, <2>7
<1>3. ASSUME SdkKeys, UNCHANGED <<last, batch, used, seen, closed>>, Typed0, Empty0 PROVE UsageInv'
  <2>1. Quiet0
    BY <1>3, SdkFrame
  <2>2. ReqTypes' /\ Reqs0
    BY <1>0, <1>3, ReqStep
  <2>. QED
    BY <1>1, <1>3, <2>1, <2>2
<1>4. CASE Tick
  <2>1. SdkKeys /\ UNCHANGED <<last, batch, used, seen, closed, cache, flight>>
    BY <1>4 DEF SdkKeys, Tick
  <2>2. Typed0 /\ Empty0
    BY <1>0, <2>1 DEF Unheld
  <2>. QED
    BY <1>3, <2>1, <2>2
<1>5. ASSUME NEW k \in AKs, Evict(k) \/ Resolve(k) \/ Compare(k) \/ Add(k) \/ LookupFails(k) PROVE UsageInv'
  <2>1. SdkKeys /\ UNCHANGED <<last, batch, used, seen, closed>>
    BY <1>5 DEF SdkKeys, Evict, Resolve, Compare, Add, LookupFails, FlightRest
  <2>2. CASE Evict(k)
    <3>1. cache' = [cache EXCEPT ![k] = Absent] /\ flight' = flight
      BY <2>2 DEF Evict
    <3>2. Typed0 /\ Empty0
      BY <1>0, <3>1 DEF Unheld
    <3>. QED
      BY <1>3, <2>1, <3>2
  <2>3. CASE Resolve(k)
    <3>. DEFINE res == IF akeys[k].status = "ACTIVE" THEN akeys[k].role ELSE Absent
                new == [flight[k] EXCEPT !.at = "answer", !.res = res]
    <3>1. flight[k] # None /\ flight' = [flight EXCEPT ![k] = new] /\ cache' = cache
      BY <2>3 DEF Resolve
    <3>2. "at" \in DOMAIN new /\ "res" \in DOMAIN new /\ new.at = "answer" /\ new.res = res
      BY <1>0, <3>1
    <3>3. akeys[k].status = Absent => res = Absent
      BY DEF Absent
    <3>. HIDE DEF new, res
    <3>4. Typed0
      BY <1>0, <3>1, <3>2
    <3>5. Empty0
      BY <1>0, <3>1, <3>2, <3>3 DEF Unheld
    <3>. QED
      BY <1>3, <2>1, <3>4, <3>5
  <2>4. ASSUME UNCHANGED cache, flight' = [flight EXCEPT ![k] = None] PROVE UsageInv'
    <3>1. Typed0 /\ Empty0
      BY <1>0, <2>4 DEF Unheld
    <3>. QED
      BY <1>3, <2>1, <3>1
  <2>5. CASE Compare(k)
    <3>1. cache' = cache
      BY <2>5 DEF Compare
    <3>2. \/ flight' = [flight EXCEPT ![k] = None]
          \/ /\ flight[k] # None /\ flight[k].res # Absent
             /\ flight' = [flight EXCEPT ![k].at = "add"]
      BY <2>5 DEF Compare, Land
    <3>3. CASE flight[k] # None /\ flight[k].res # Absent /\ flight' = [flight EXCEPT ![k].at = "add"]
      <4>. DEFINE new == [flight[k] EXCEPT !.at = "add"]
      <4>1. "at" \in DOMAIN new /\ "res" \in DOMAIN new
        BY <1>0, <3>3
      <4>2. flight' = [flight EXCEPT ![k] = new]
        BY <3>3
      <4>. HIDE DEF new
      <4>3. Typed0
        BY <1>0, <3>1, <4>1, <4>2
      <4>4. Empty0
        BY <1>0, <3>1, <3>3, <4>2 DEF Unheld
      <4>. QED
        BY <1>3, <2>1, <4>3, <4>4
    <3>. QED
      BY <2>4, <3>1, <3>2, <3>3
  <2>6. CASE Add(k)
    <3>1. /\ flight[k] # None /\ flight[k].at = "add" /\ cache' = [cache EXCEPT ![k] = flight[k].res]
          /\ flight' = [flight EXCEPT ![k] = None]
      BY <2>6 DEF Add, Land
    <3>2. Typed0 /\ Empty0
      BY <1>0, <3>1 DEF Unheld
    <3>. QED
      BY <1>3, <2>1, <3>2
  <2>7. CASE LookupFails(k)
    <3>1. cache' = cache /\ flight' = [flight EXCEPT ![k] = None]
      BY <2>7 DEF LookupFails, Land
    <3>. QED
      BY <2>4, <3>1
  <2>. QED
    BY <1>5, <2>2, <2>3, <2>5, <2>6, <2>7
<1>6. ASSUME NEW q \in inst.reqs, MiddlewareWith(q) \/ Get(q) \/ Do(q) \/ Middleware(q) PROVE UsageInv'
  <2>1. SdkKeys /\ UNCHANGED <<last, batch, used, seen, closed, cache>>
    BY <1>6 DEF SdkKeys, MiddlewareWith, Get, Do, Middleware, RequestRest
  <2>2. q.ak \in AKs
    BY <1>0, KeyAssumption DEF ReqTypes
  <2>. DEFINE sent == [at |-> "sent", overtaken |-> FALSE, res |-> Absent]
  <2>3. flight' = flight \/ flight' = [flight EXCEPT ![q.ak] = sent]
    BY <1>6 DEF MiddlewareWith, Get, Do, Middleware
  <2>4. "at" \in DOMAIN sent /\ "res" \in DOMAIN sent /\ sent.at # "add" /\ sent.res = Absent
    OBVIOUS
  <2>. HIDE DEF sent
  <2>5. Typed0
    BY <1>0, <2>1, <2>2, <2>3, <2>4
  <2>6. Empty0
    BY <1>0, <2>1, <2>2, <2>3, <2>4 DEF Unheld
  <2>. QED
    BY <1>3, <2>1, <2>5, <2>6
<1>. QED
  BY <1>2, <1>4, <1>5, <1>6

\* Steps that leave the rows, the cache and the flights: what they do to the reports.
LEMMA ReportKeepsUse ==
    ASSUME UsageInv, SdkKeys, UNCHANGED <<cache, flight>>,
           last' \in [AKs -> Nat], used' \in [AKs -> Nat], seen' \in [AKs -> Nat],
           batch' \in [Flushers -> [AKs -> Nat] \cup {None}],
           \A k \in AKs : akeys[k].status = Absent => used'[k] = used[k],
           \A k \in AKs : \/ seen'[k] = seen[k]
                          \/ \E q \in inst.reqs : q.ak = k /\ rq[q].at = "verify",
           \A k \in AKs : Saved(k) => Saved(k)'
    PROVE  UsageInv'
<1>0. inst' = inst /\ akeys' = akeys /\ pc' = pc
  BY SdkFrame
<1>1. ReqTypes' /\ \A q \in inst.reqs : rq'[q].at = "verify" =>
                \/ rq[q].at = "verify" \/ cache[q.ak] # Absent
                \/ flight[q.ak] # None /\ (flight[q.ak].res # Absent \/ flight[q.ak].at = "add")
  BY ReqStep DEF UsageInv, KeyTypes
<1>2. KeyTypes'
  BY <1>0, <1>1 DEF UsageInv, KeyTypes, PcIn, RowsIn
<1>3. ASSUME NEW k \in AKs, ToCome(k)' PROVE Unused(k)'
  <2>1. Unused(k)
    BY <1>0, <1>3 DEF UsageInv, ToCome
  <2>2. \A q \in inst.reqs : q.ak = k => rq'[q].at # "verify"
    BY <1>1, <2>1 DEF Unused, Unheld
  <2>3. seen'[k] = seen[k] /\ used'[k] = used[k]
    BY <2>1 DEF Unused
  <2>. QED
    BY <1>0, <2>1, <2>2, <2>3 DEF Unused, Unheld
<1>. QED
  BY <1>2, <1>3 DEF UsageInv

\* record: a use that is later than the last one seen is in the recorder.
LEMMA RecordKeepsUse ==
    ASSUME UsageInv, NEW q \in inst.reqs, verifyAccessKey(q)
    PROVE  UsageInv'
<1>0. /\ last \in [AKs -> Nat] /\ used \in [AKs -> Nat] /\ seen \in [AKs -> Nat]
      /\ batch \in [Flushers -> [AKs -> Nat] \cup {None}]
  BY DEF UsageInv, KeyTypes
<1>. DEFINE t == Truncate(rq[q].now)
<1>1. t \in Nat
  <2>1. rq[q].now \in Nat
    BY DEF UsageInv, KeyTypes, ReqTypes, ReadsIn
  <2>. QED
    BY <2>1, KeyAssumption DEF Truncate
<1>2. /\ SdkKeys /\ UNCHANGED <<cache, flight, used, batch, closed, akeys>> /\ rq[q].at = "verify"
  BY DEF SdkKeys, verifyAccessKey, RequestRest, authzVars, tableVars
<1>3. \/ last' = last /\ seen' = seen
      \/ /\ last' = [last EXCEPT ![q.ak] = Later(last[q.ak], t)]
         /\ seen' = [seen EXCEPT ![q.ak] = Later(seen[q.ak], t)]
  <2>1. UNCHANGED <<last, seen>> \/ record(q.ak, rq[q].now)
    BY DEF verifyAccessKey
  <2>. QED
    BY <2>1 DEF record
<1>. HIDE DEF t
<1>4. \A m \in Nat : Later(m, t) \in Nat /\ Later(m, t) >= t /\ (Later(m, t) = m \/ Later(m, t) = t)
                     /\ Later(m, t) >= m
  BY <1>1 DEF Later
<1>5. last' \in [AKs -> Nat] /\ seen' \in [AKs -> Nat]
  <2>1. q.ak \in AKs => Later(last[q.ak], t) \in Nat /\ Later(seen[q.ak], t) \in Nat
    BY <1>0, <1>4
  <2>. QED
    BY <1>0, <1>3, <2>1
<1>6. ASSUME NEW k \in AKs
      PROVE  /\ last'[k] >= last[k] /\ (seen'[k] = seen[k] \/ last'[k] >= seen'[k])
             /\ seen'[k] = seen[k] \/ q.ak = k
  <2>1. last[k] \in Nat /\ seen[k] \in Nat
    BY <1>0
  <2>2. CASE last'[k] = last[k] /\ seen'[k] = seen[k]
    BY <2>1, <2>2
  <2>3. CASE k = q.ak /\ last'[k] = Later(last[k], t) /\ seen'[k] = Later(seen[k], t)
    <3>1. Later(last[k], t) >= last[k] /\ Later(last[k], t) >= t
      BY <1>4, <2>1
    <3>2. Later(seen[k], t) = seen[k] \/ Later(seen[k], t) = t
      BY <1>4, <2>1
    <3>. QED
      BY <2>3, <3>1, <3>2
  <2>. QED
    BY <1>0, <1>3, <2>2, <2>3
<1>7. ASSUME NEW k \in AKs, Saved(k) PROVE Saved(k)'
  <2>1. last[k] \in Nat /\ seen[k] \in Nat /\ last'[k] \in Nat
    BY <1>0, <1>5
  <2>2. seen'[k] = seen[k] /\ last[k] >= seen[k] => last'[k] >= seen'[k]
    BY <1>6, <2>1
  <2>. QED
    BY <1>2, <1>6, <1>7, <2>2 DEF Saved
<1>. QED
  BY <1>0, <1>2, <1>5, <1>6, <1>7, ReportKeepsUse

\* The reports: a batch is taken whole, and taken back whole.
LEMMA FlushKeepsUse ==
    ASSUME UsageInv, NEW f \in Flushers, take(f) \/ ReportAccessKeyUsage(f) \/ ReportFails(f)
    PROVE  UsageInv'
<1>0. /\ last \in [AKs -> Nat] /\ used \in [AKs -> Nat] /\ seen \in [AKs -> Nat]
      /\ batch \in [Flushers -> [AKs -> Nat] \cup {None}]
  BY DEF UsageInv, KeyTypes
<1>1. None \notin [AKs -> Nat]
  BY KeyAssumption
<1>2. SdkKeys /\ UNCHANGED <<cache, flight, seen, akeys>>
  BY DEF SdkKeys, take, ReportAccessKeyUsage, ReportFails, UsageRest, authzVars, tableVars
<1>3. \A m, n \in Nat : Later(m, n) \in Nat /\ Later(m, n) >= m /\ Later(m, n) >= n
  BY DEF Later
<1>4. CASE take(f)
  <2>1. /\ batch[f] = None /\ batch' = [batch EXCEPT ![f] = last] /\ last' = NoUse
        /\ UNCHANGED <<used, closed>>
    BY <1>4 DEF take
  <2>2. last' \in [AKs -> Nat]
    BY <2>1 DEF NoUse
  <2>3. /\ batch' \in [Flushers -> [AKs -> Nat] \cup {None}] /\ batch'[f] = last
        /\ \A g \in Flushers : batch[g] # None => batch'[g] = batch[g]
    BY <1>0, <2>1
  <2>4. ASSUME NEW k \in AKs, Saved(k) PROVE Saved(k)'
    <3>1. last[k] >= seen[k] => batch'[f] # None /\ batch'[f][k] >= seen[k]
      BY <1>0, <1>1, <2>3
    <3>. QED
      BY <1>2, <2>1, <2>3, <2>4, <3>1 DEF Saved
  <2>. QED
    BY <1>0, <1>2, <2>1, <2>2, <2>3, <2>4, ReportKeepsUse
<1>5. CASE ReportAccessKeyUsage(f) \/ ReportFails(f)
  <2>. DEFINE b == batch[f]
  <2>1. b # None /\ batch' = [batch EXCEPT ![f] = None] /\ (closed => closed')
    BY <1>5 DEF ReportAccessKeyUsage, ReportFails
  <2>2. /\ used' = used \/ used' = Recorded(b)
        /\ (last' = last /\ used' = Recorded(b)) \/ last' = [k \in AKs |-> Later(last[k], b[k])]
    BY <1>5 DEF ReportAccessKeyUsage, ReportFails, restore
  <2>3. b \in [AKs -> Nat]
    BY <1>0, <2>1
  <2>. HIDE DEF b
  <2>4. /\ Recorded(b) \in [AKs -> Nat]
        /\ \A k \in AKs : /\ akeys[k].status = Absent => Recorded(b)[k] = used[k]
                          /\ Recorded(b)[k] >= used[k]
                          /\ akeys[k].status # Absent => Recorded(b)[k] >= b[k]
    <3>1. \A k \in AKs : /\ used[k] \in Nat /\ used[k] >= used[k] /\ Later(used[k], b[k]) \in Nat
                         /\ Later(used[k], b[k]) >= used[k] /\ Later(used[k], b[k]) >= b[k]
      BY <1>0, <1>3, <2>3
    <3>2. Recorded(b) = [k \in AKs |-> IF akeys[k].status = Absent THEN used[k] ELSE Later(used[k], b[k])]
      BY DEF Recorded
    <3>. QED
      BY <3>1, <3>2
  <2>. DEFINE re == [k \in AKs |-> Later(last[k], b[k])]
  <2>5. re \in [AKs -> Nat] /\ \A k \in AKs : re[k] >= last[k] /\ re[k] >= b[k]
    BY <1>0, <1>3, <2>3
  <2>. HIDE DEF re
  <2>6. last' \in [AKs -> Nat] /\ used' \in [AKs -> Nat]
    BY <1>0, <2>2, <2>4, <2>5 DEF re
  <2>7. /\ batch' \in [Flushers -> [AKs -> Nat] \cup {None}]
        /\ \A g \in Flushers : g # f => batch'[g] = batch[g]
    BY <1>0, <2>1
  <2>8. ASSUME NEW k \in AKs
        PROVE  /\ akeys[k].status = Absent => used'[k] = used[k]
               /\ used'[k] >= used[k] /\ last'[k] >= last[k]
               /\ akeys[k].status # Absent => used'[k] >= b[k] \/ last'[k] >= b[k]
    <3>1. used[k] >= used[k] /\ last[k] >= last[k]
      BY <1>0
    <3>. QED
      BY <2>2, <2>4, <2>5, <3>1 DEF re
  <2>9. ASSUME NEW k \in AKs, Saved(k) PROVE Saved(k)'
    <3>1. last[k] \in Nat /\ used[k] \in Nat /\ b[k] \in Nat /\ last'[k] \in Nat /\ used'[k] \in Nat /\ seen[k] \in Nat
      BY <1>0, <2>3, <2>6
    <3>2. /\ last[k] >= seen[k] => last'[k] >= seen[k]
          /\ used[k] >= seen[k] => used'[k] >= seen[k]
          /\ akeys[k].status # Absent /\ b[k] >= seen[k] => used'[k] >= seen[k] \/ last'[k] >= seen[k]
      BY <2>8, <3>1
    <3>3. \A g \in Flushers : batch[g] # None /\ batch[g][k] >= seen[k] /\ g # f =>
              batch'[g] # None /\ batch'[g][k] >= seen[k]
      BY <2>7
    <3>. QED
      BY <1>2, <2>1, <2>9, <3>2, <3>3 DEF Saved, b
  <2>. QED
    BY <1>0, <1>2, <2>6, <2>7, <2>8, <2>9, ReportKeepsUse
<1>. QED
  BY <1>4, <1>5

\* Every step keeps the uses.
LEMMA UsageStep == UsageInv /\ [Next]_vars => UsageInv'
<1>. SUFFICES ASSUME UsageInv, [Next]_vars PROVE UsageInv'
  OBVIOUS
<1>1. ASSUME UNCHANGED <<inst, akeys, pc, keyVars>> PROVE UsageInv'
  BY <1>1 DEF UsageInv, KeyTypes, ReqTypes, ReadsIn, PcIn, RowsIn, ToCome, Unused, Unheld, Saved, keyVars
<1>2. CASE UNCHANGED vars
  BY <1>1, <1>2 DEF vars, authzVars, tableVars
<1>3. ASSUME NEW o \in inst.ops,
             (ConsoleCall(o) /\ UNCHANGED keyVars) \/ KeyCall(o) \/ AppCall(o)
      PROVE  UsageInv'
  <2>1. UNCHANGED keyVars
    BY <1>3, KeyFrame, AppFrame
  <2>. QED
    BY <1>3, <2>1, CallKeepsUse
<1>4. CASE SdkPolicy /\ UNCHANGED keyVars
  BY <1>1, <1>4, PolicyFrame
<1>5. CASE WatchKeys
  BY <1>5, SdkKeepsUse
<1>6. CASE SdkKeys
  BY <1>6, SdkKeepsUse, RecordKeepsUse, FlushKeepsUse DEF SdkKeys
<1>7. ASSUME NEW c \in inst.calls, ServerCall(c) PROVE UsageInv'
  BY <1>1, <1>7, ServerFrame DEF authzVars, tableVars
<1>8. CASE Accounts
  BY <1>1, <1>8, AccountsFrame
<1>. QED
  BY <1>2, <1>3, <1>4, <1>5, <1>6, <1>7, <1>8 DEF Next

\* usageRecorder, with any number of keys, requests, flushes and failures: the latest use of
\* a key that exists is in the recorder, in a batch or in the row, until the client closes.
THEOREM UseKept == Spec => []UsageKept
<1>1. UsageInv => UsageKept
  BY DEF UsageInv, Saved, UsageKept
<1>. QED
  BY <1>1, UsageInit, UsageStep, PTL DEF Spec

-----------------------------------------------------------------------------
(* Credentials that are remembered                                         *)

Stages == {"todo", "hash", "row", "store", "handler", "fp", "compare", "imStore", "served", "refused"}
CallRec == [at : Stages, now : Nat, fp : Nat, id : Apps \cup {None}]

Secret(c) == <<"secret", c.secret>>
OpenFor(c) == <<"open", c.secret>>
Im(s) == <<"im", s>>

\* What a call at r rests on: what it has checked itself held at the time it read before it
\* checked (the life 1), what it took from a cache held not longer before than the life of
\* an entry.
Rests(c, r) ==
    /\ r.now <= clock /\ r.fp <= clock
    /\ r.at = "todo" => r.fp = 0
    /\ r.at \in {"row", "store"} => c.secret \in Apps /\ GoodFor(Secret(c), r.now, 1)
    /\ r.at = "store" /\ c.via = "gate" => GoodFor(OpenFor(c), r.now, 1)
    /\ r.at \in {"handler", "served"} /\ c.via = "app" =>
         c.secret \in Apps /\ GoodFor(Secret(c), r.now, SecretTTL)
    /\ r.at = "imStore" => ImSecretOf(c) \in ImSecrets /\ GoodFor(Im(ImSecretOf(c)), r.fp, 1)
    /\ \/ r.at \in {"handler", "served"} /\ c.via = "im"
       \/ r.at \in {"hash", "row", "store"} /\ c.via = "gate"
       \/ r.at = "served" /\ c.via = "gate" /\ r.fp # 0
       => ImSecretOf(c) \in ImSecrets /\ GoodFor(Im(ImSecretOf(c)), r.fp, ImTTL)
    /\ r.at = "served" /\ c.via = "gate" =>
         /\ c.secret \in Apps /\ GoodFor(Secret(c), r.now, CredTTL)
         /\ GoodFor(OpenFor(c), r.now, CredTTL)
    /\ r.at = "handler" => c.via # "gate"

\* An entry that expires at exp was put there by a check that began ttl before.
Entry(g, exp, ttl) == exp \in Int /\ exp - ttl <= clock /\ GoodFor(g, exp - ttl, 1)

Remembered ==
    /\ \A e \in verified : e.secret \in Apps /\ Entry(<<"secret", e.secret>>, e.exp, SecretTTL)
    /\ \A e \in credentials : /\ e.secret \in Apps /\ e.id \in Apps \cup {None}
                              /\ Entry(<<"secret", e.secret>>, e.exp, CredTTL)
                              /\ Entry(<<"open", e.secret>>, e.exp, CredTTL)
    /\ \A s, x : imVerified = [secret |-> s, exp |-> x] /\ s # None =>
         s \in ImSecrets /\ Entry(Im(s), x, ImTTL)
    /\ \E s, x : imVerified = [secret |-> s, exp |-> x]

CredTypes ==
    /\ inst \in Instances /\ clock \in Nat
    /\ imSecret \in ImSecrets \cup {None} /\ held \in [Grounds -> Nat]
    /\ cl \in [inst.calls -> CallRec]

CredInv ==
    /\ CredTypes /\ Remembered
    /\ \A c \in inst.calls : \A r \in CallRec : r = cl[c] => Rests(c, r)

\* The constants of an instance.
LEMMA CallsOf ==
    ASSUME inst \in Instances
    PROVE  /\ SecretTTL \in Nat \ {0} /\ ImTTL \in Nat \ {0} /\ CredTTL \in Nat \ {0}
           /\ inst.imSecret \in ImSecrets \cup {None}
           /\ \A c \in inst.calls : c.via \in {"app", "im", "gate"} /\ ImSecretOf(c) # None
           /\ \A o \in inst.ops : o.do = "rotate" => o.secret \in ImSecrets
BY CredAssumption DEF ImSecretOf

\* At the start nothing is remembered and no call has come.
LEMMA CredInitially == Init => CredInv
<1>. SUFFICES ASSUME Init PROVE CredInv
  OBVIOUS
<1>1. inst \in Instances /\ clock = Minute /\ imSecret = inst.imSecret
  BY DEF Init, AuthzInit, KeyInit, CredInit
<1>2. clock \in Nat
  BY <1>1, KeyAssumption
<1>. DEFINE new == [at |-> "todo", now |-> 0, fp |-> 0, id |-> None]
<1>3. new \in CallRec /\ new.at = "todo" /\ new.now = 0 /\ new.fp = 0
  BY DEF CallRec, Stages
<1>4. cl = [c \in inst.calls |-> new] /\ held = [g \in Grounds |-> 0]
  BY DEF Init, CredInit
<1>. HIDE DEF new
<1>5. CredTypes
  BY <1>1, <1>2, <1>3, <1>4, CallsOf DEF CredTypes
<1>6. Remembered
  <2>1. verified = {} /\ credentials = {} /\ imVerified = [secret |-> None, exp |-> 0]
    BY DEF Init, CredInit
  <2>2. \A s, x : imVerified = [secret |-> s, exp |-> x] => s = None
    BY <2>1
  <2>. QED
    BY <2>1, <2>2 DEF Remembered
<1>7. ASSUME NEW c \in inst.calls PROVE Rests(c, new)
  BY <1>2, <1>3 DEF Rests
<1>8. \A c \in inst.calls : \A r \in CallRec : r = cl[c] => Rests(c, r)
  BY <1>4, <1>7
<1>. QED
  BY <1>5, <1>6, <1>8 DEF CredInv

\* What ended is known to have held until it ended, so that whatever a call or an entry
\* rests on before a change, it rests on after it.
LEMMA CredStays ==
    ASSUME CredInv, inst' = inst, UNCHANGED <<verified, imVerified, credentials, cl>>,
           clock' \in Nat, clock <= clock', imSecret' \in ImSecrets \cup {None}, held' \in [Grounds -> Nat],
           \A g \in Grounds : \A start \in Int : \A ttl \in Nat \ {0} :
               start <= clock /\ GoodFor(g, start, ttl) => GoodFor(g, start, ttl)'
    PROVE  CredInv'
<1>0. clock \in Nat /\ inst \in Instances
  BY DEF CredInv, CredTypes
<1>1. /\ SecretTTL \in Nat \ {0} /\ ImTTL \in Nat \ {0} /\ CredTTL \in Nat \ {0}
  BY <1>0, CallsOf
<1>2. CredTypes'
  BY DEF CredInv, CredTypes
<1>3. ASSUME NEW g \in Grounds, NEW x, NEW ttl \in Nat \ {0}, Entry(g, x, ttl) PROVE Entry(g, x, ttl)'
  <2>1. x \in Int /\ x - ttl <= clock /\ x - ttl \in Int /\ GoodFor(g, x - ttl, 1)
    BY <1>3 DEF Entry
  <2>2. GoodFor(g, x - ttl, 1)'
    BY <2>1
  <2>3. x - ttl <= clock'
    BY <1>0, <2>1
  <2>. QED
    BY <2>1, <2>2, <2>3 DEF Entry
<1>4. Remembered'
  <2>1. \A a \in Apps : <<"secret", a>> \in Grounds /\ <<"open", a>> \in Grounds
    BY DEF Grounds
  <2>2. \A t \in ImSecrets : Im(t) \in Grounds
    BY DEF Grounds, Im
  <2>3. \A e \in verified : e.secret \in Apps /\ Entry(<<"secret", e.secret>>, e.exp, SecretTTL)'
    BY <1>1, <1>3, <2>1 DEF CredInv, Remembered
  <2>4. \A e \in credentials : /\ e.secret \in Apps /\ e.id \in Apps \cup {None}
                              /\ Entry(<<"secret", e.secret>>, e.exp, CredTTL)'
                              /\ Entry(<<"open", e.secret>>, e.exp, CredTTL)'
    BY <1>1, <1>3, <2>1 DEF CredInv, Remembered
  <2>5. \A t, x : imVerified = [secret |-> t, exp |-> x] /\ t # None =>
         t \in ImSecrets /\ Entry(Im(t), x, ImTTL)'
    BY <1>1, <1>3, <2>2 DEF CredInv, Remembered
  <2>6. \E t, x : imVerified = [secret |-> t, exp |-> x]
    BY DEF CredInv, Remembered
  <2>. QED
    BY <2>3, <2>4, <2>5, <2>6 DEF Remembered
<1>5. ASSUME NEW c \in inst.calls, NEW r \in CallRec, r = cl[c] PROVE Rests(c, r)'
  <2>1. Rests(c, r)
    BY <1>5 DEF CredInv
  <2>2. r.now \in Nat /\ r.fp \in Nat /\ r.now <= clock /\ r.fp <= clock
    BY <2>1 DEF CallRec, Rests
  <2>3. r.now <= clock' /\ r.fp <= clock'
    BY <1>0, <2>2
  <2>4. c.secret \in Apps => Secret(c) \in Grounds /\ OpenFor(c) \in Grounds
    BY DEF Grounds, Secret, OpenFor
  <2>5. ImSecretOf(c) \in ImSecrets => Im(ImSecretOf(c)) \in Grounds
    BY DEF Grounds, Im
  <2>6. \A g \in Grounds : \A ttl \in Nat \ {0} :
          /\ GoodFor(g, r.now, ttl) => GoodFor(g, r.now, ttl)'
          /\ GoodFor(g, r.fp, ttl) => GoodFor(g, r.fp, ttl)'
    BY <2>2
  <2>7. 1 \in Nat \ {0}
    OBVIOUS
  <2>. QED
    BY <1>1, <2>1, <2>3, <2>4, <2>5, <2>6, <2>7 DEF Rests
<1>6. \A c \in inst.calls : \A r \in CallRec : r = cl[c] => Rests(c, r)'
  BY <1>5
<1>. QED
  BY <1>2, <1>4, <1>6 DEF CredInv

\* The console's calls on applications and on the IM secret.
LEMMA AppKeepsCred ==
    ASSUME CredInv, NEW o \in inst.ops, AppCall(o)
    PROVE  CredInv'
<1>0. clock \in Nat /\ inst \in Instances /\ imSecret \in ImSecrets \cup {None} /\ held \in [Grounds -> Nat]
  BY DEF CredInv, CredTypes
<1>1. inst' = inst /\ UNCHANGED keyVars
  BY AppFrame
<1>2. AppRest
  BY DEF AppCall, CreateApp, SetAppStatus, SetIMConfig, DeleteApp, Rotate
<1>3. UNCHANGED <<verified, imVerified, credentials, cl>> /\ clock' = clock
  BY <1>1, <1>2 DEF AppRest, keyVars
<1>4. imSecret' \in ImSecrets \cup {None}
  <2>1. imSecret' = imSecret \/ (o.do = "rotate" /\ imSecret' = o.secret)
    BY DEF AppCall, CreateApp, SetAppStatus, SetIMConfig, DeleteApp, Rotate, At
  <2>. QED
    BY <1>0, <2>1, CallsOf
<1>5. held' = [g \in Grounds |-> IF Holds(g) THEN clock ELSE held[g]]
  BY <1>2 DEF AppRest
<1>6. held' \in [Grounds -> Nat]
  BY <1>0, <1>5
<1>7. ASSUME NEW g \in Grounds, NEW start \in Int, NEW ttl \in Nat \ {0}, start <= clock, GoodFor(g, start, ttl)
      PROVE  GoodFor(g, start, ttl)'
  <2>1. held[g] \in Nat /\ held'[g] = IF Holds(g) THEN clock ELSE held[g]
    BY <1>0, <1>5
  <2>2. start < held'[g] + ttl
    <3>1. CASE Holds(g)
      BY <1>0, <1>7, <2>1, <3>1
    <3>2. CASE ~Holds(g)
      BY <1>7, <2>1, <3>2 DEF GoodFor
    <3>. QED
      BY <3>1, <3>2
  <2>. QED
    BY <2>2 DEF GoodFor
<1>8. clock' \in Nat /\ clock <= clock'
  BY <1>0, <1>3
<1>. QED
  BY <1>1, <1>3, <1>4, <1>6, <1>7, <1>8, CredStays

\* A step of a call: the entry it makes, if any, and where it goes.
LEMMA CredMoves ==
    ASSUME CredInv, UNCHANGED <<inst, clock, app, imSecret, held>>, NEW c \in inst.calls,
           NEW new \in CallRec, cl' = [cl EXCEPT ![c] = new], Rests(c, new), Remembered'
    PROVE  CredInv'
<1>1. /\ cl' \in [inst.calls -> CallRec] /\ cl'[c] = new
      /\ \A d \in inst.calls : d # c => cl'[d] = cl[d]
  BY DEF CredInv, CredTypes
<1>2. CredTypes'
  BY <1>1 DEF CredInv, CredTypes
<1>3. \A g : Holds(g)' = Holds(g)
  BY DEF Holds, Exists, Open
<1>4. ASSUME NEW d \in inst.calls, NEW r \in CallRec, Rests(d, r) PROVE Rests(d, r)'
  <2>1. \A g, start, ttl : GoodFor(g, start, ttl)' <=> GoodFor(g, start, ttl)
    BY <1>3 DEF GoodFor
  <2>. QED
    BY <1>4, <2>1 DEF Rests
<1>5. ASSUME NEW d \in inst.calls, NEW r \in CallRec, r = cl'[d] PROVE Rests(d, r)'
  <2>1. Rests(d, r)
    BY <1>1, <1>5 DEF CredInv
  <2>. QED
    BY <1>4, <2>1
<1>. QED
  BY <1>2, <1>5 DEF CredInv

\* The tables and the times are as they were, and so is what entries rest on.
LEMMA EntryStays ==
    ASSUME UNCHANGED <<clock, app, imSecret, held>>, NEW g, NEW x, NEW ttl
    PROVE  Entry(g, x, ttl)' <=> Entry(g, x, ttl)
<1>1. Holds(g)' = Holds(g)
  BY DEF Holds, Exists, Open
<1>. QED
  BY <1>1 DEF Entry, GoodFor

\* So the caches are sound after a step if their new contents were before it.
LEMMA CachesAre ==
    ASSUME UNCHANGED <<clock, app, imSecret, held>>,
           \A e \in verified' : e.secret \in Apps /\ Entry(<<"secret", e.secret>>, e.exp, SecretTTL),
           \A e \in credentials' : /\ e.secret \in Apps /\ e.id \in Apps \cup {None}
                                   /\ Entry(<<"secret", e.secret>>, e.exp, CredTTL)
                                   /\ Entry(<<"open", e.secret>>, e.exp, CredTTL),
           \A t, x : imVerified' = [secret |-> t, exp |-> x] /\ t # None =>
               t \in ImSecrets /\ Entry(Im(t), x, ImTTL),
           \E t, x : imVerified' = [secret |-> t, exp |-> x]
    PROVE  Remembered'
<1>1. \A e \in verified' : e.secret \in Apps /\ Entry(<<"secret", e.secret>>, e.exp, SecretTTL)'
  BY EntryStays
<1>2. \A e \in credentials' : /\ e.secret \in Apps /\ e.id \in Apps \cup {None}
                             /\ Entry(<<"secret", e.secret>>, e.exp, CredTTL)'
                             /\ Entry(<<"open", e.secret>>, e.exp, CredTTL)'
  BY EntryStays
<1>3. \A t, x : imVerified' = [secret |-> t, exp |-> x] /\ t # None =>
       t \in ImSecrets /\ Entry(Im(t), x, ImTTL)'
  BY EntryStays
<1>. QED
  BY <1>1, <1>2, <1>3 DEF Remembered

\* A fresh entry is good for the call that finds it, a check for an entry and for its call.
LEMMA Lives ==
    ASSUME clock \in Nat, held \in [Grounds -> Nat], NEW g \in Grounds, NEW ttl \in Nat \ {0}
    PROVE  /\ \A x : Entry(g, x, ttl) /\ x > clock => GoodFor(g, clock, ttl)
           /\ \A t \in Nat : t <= clock /\ GoodFor(g, t, 1) =>
                Entry(g, t + ttl, ttl) /\ GoodFor(g, t, ttl)
<1>0. held[g] \in Nat
  OBVIOUS
<1>1. ASSUME NEW x, Entry(g, x, ttl), x > clock PROVE GoodFor(g, clock, ttl)
  BY <1>0, <1>1 DEF Entry, GoodFor
<1>2. ASSUME NEW t \in Nat, t <= clock, GoodFor(g, t, 1) PROVE Entry(g, t + ttl, ttl) /\ GoodFor(g, t, ttl)
  <2>1. t + ttl \in Int /\ (t + ttl) - ttl = t
    OBVIOUS
  <2>2. GoodFor(g, t, ttl)
    BY <1>0, <1>2 DEF GoodFor
  <2>. QED
    BY <1>2, <2>1, <2>2 DEF Entry
<1>. QED
  BY <1>1, <1>2

\* A call of a server or of fp-im, or a stream: whatever it is let through on was checked,
\* by itself or by the call that made the entry, when the time it counts from had been read.
LEMMA ServerKeepsCred ==
    ASSUME CredInv, NEW c \in inst.calls, ServerCall(c)
    PROVE  CredInv'
<1>0. /\ clock \in Nat /\ inst \in Instances /\ held \in [Grounds -> Nat] /\ cl[c] \in CallRec
      /\ imSecret \in ImSecrets \cup {None} /\ cl \in [inst.calls -> CallRec]
  BY DEF CredInv, CredTypes
<1>1. UNCHANGED <<inst, clock, app, imSecret, held>>
  BY ServerFrame DEF authzVars, keyVars
<1>2. /\ SecretTTL \in Nat \ {0} /\ ImTTL \in Nat \ {0} /\ CredTTL \in Nat \ {0}
      /\ c.via \in {"app", "im", "gate"} /\ ImSecretOf(c) # None
  BY <1>0, CallsOf
<1>3. Rests(c, cl[c]) /\ Remembered
  BY <1>0 DEF CredInv
<1>4. cl[c].now \in Nat /\ cl[c].fp \in Nat /\ cl[c].now <= clock /\ cl[c].fp <= clock
  BY <1>0, <1>3 DEF CallRec, Rests
<1>5. /\ c.secret \in Apps => Secret(c) \in Grounds /\ OpenFor(c) \in Grounds
      /\ ImSecretOf(c) \in ImSecrets => Im(ImSecretOf(c)) \in Grounds
  BY DEF Grounds, Secret, OpenFor, Im
<1>. DEFINE Goes(at) == [cl[c] EXCEPT !.at = at]
            Same3 == UNCHANGED <<verified, imVerified, credentials>>
<1>6. ASSUME NEW at \in Stages
      PROVE  /\ Goes(at) \in CallRec /\ Goes(at).at = at /\ Goes(at).now = cl[c].now
             /\ Goes(at).fp = cl[c].fp /\ Goes(at).id = cl[c].id
             /\ Mind(c, at) => cl' = [cl EXCEPT ![c] = Goes(at)]
  BY <1>0, <1>6 DEF CallRec, Mind
<1>. HIDE DEF Goes
<1>7. ASSUME NEW new \in CallRec, cl' = [cl EXCEPT ![c] = new], Rests(c, new), Same3 PROVE CredInv'
  <2>1. Remembered'
    BY <1>1, <1>3, <1>7, CachesAre DEF Remembered
  <2>. QED
    BY <1>1, <1>7, <2>1, CredMoves
<1>8. ASSUME Mind(c, "refused"), Same3 PROVE CredInv'
  <2>1. "refused" \in Stages
    BY DEF Stages
  <2>2. Rests(c, Goes("refused"))
    BY <1>4, <1>6, <2>1 DEF Rests
  <2>. QED
    BY <1>6, <1>7, <1>8, <2>1, <2>2
<1>9. CASE verify(c)
  <2>1. c.via = "app" /\ Same3
    BY <1>9 DEF verify
  <2>. DEFINE New(at) == [cl[c] EXCEPT !.now = clock, !.at = at]
  <2>2. ASSUME NEW at \in Stages
        PROVE  New(at) \in CallRec /\ New(at).at = at /\ New(at).now = clock /\ New(at).fp = cl[c].fp
    BY <1>0, <2>2 DEF CallRec
  <2>3. CASE \E e \in verified : Fresh(e, c, clock)
    <3>1. cl' = [cl EXCEPT ![c] = New("handler")]
      BY <1>9, <2>3 DEF verify
    <3>2. PICK e \in verified : Fresh(e, c, clock)
      BY <2>3
    <3>3. c.secret \in Apps /\ Entry(Secret(c), e.exp, SecretTTL) /\ e.exp > clock
      BY <1>3, <3>2 DEF Remembered, Fresh, Secret
    <3>4. GoodFor(Secret(c), clock, SecretTTL)
      BY <1>0, <1>2, <1>5, <3>3, Lives
    <3>5. "handler" \in Stages
      BY DEF Stages
    <3>. HIDE DEF New
    <3>6. Rests(c, New("handler"))
      BY <1>0, <1>4, <2>1, <2>2, <3>3, <3>4, <3>5 DEF Rests
    <3>. QED
      BY <1>7, <2>1, <2>2, <3>1, <3>5, <3>6
  <2>4. CASE ~\E e \in verified : Fresh(e, c, clock)
    <3>1. cl' = [cl EXCEPT ![c] = New("hash")]
      BY <1>9, <2>4 DEF verify
    <3>2. "hash" \in Stages
      BY DEF Stages
    <3>. HIDE DEF New
    <3>3. Rests(c, New("hash"))
      BY <1>0, <1>4, <2>1, <2>2, <3>2 DEF Rests
    <3>. QED
      BY <1>7, <2>1, <2>2, <3>1, <3>2, <3>3
  <2>. QED
    BY <2>3, <2>4
<1>10. CASE verifyIM(c)
  <2>1. c.via \in {"im", "gate"} /\ Same3
    BY <1>10 DEF verifyIM
  <2>. DEFINE New(at) == [cl[c] EXCEPT !.fp = clock, !.at = at]
              done == IF c.via = "im" THEN "handler" ELSE "hash"
              hit == imVerified.secret = ImSecretOf(c) /\ imVerified.exp > clock
  <2>2. ASSUME NEW at \in Stages
        PROVE  New(at) \in CallRec /\ New(at).at = at /\ New(at).now = cl[c].now /\ New(at).fp = clock
    BY <1>0, <2>2 DEF CallRec
  <2>3. cl' = [cl EXCEPT ![c] = New(IF hit THEN done ELSE "compare")]
    BY <1>10 DEF verifyIM
  <2>4. done \in Stages /\ "compare" \in Stages
    BY DEF Stages
  <2>5. CASE hit
    <3>1. PICK t, x : imVerified = [secret |-> t, exp |-> x]
      BY <1>3 DEF Remembered
    <3>2. t = ImSecretOf(c) /\ x > clock
      BY <2>5, <3>1
    <3>3. ImSecretOf(c) \in ImSecrets /\ Entry(Im(ImSecretOf(c)), x, ImTTL)
      BY <1>2, <1>3, <3>1, <3>2 DEF Remembered
    <3>4. GoodFor(Im(ImSecretOf(c)), clock, ImTTL)
      BY <1>0, <1>2, <1>5, <3>2, <3>3, Lives
    <3>. HIDE DEF New, hit
    <3>5. Rests(c, New(done))
      <4>1. CASE c.via = "im"
        <5>1. New(done).at = "handler" /\ New(done).now = cl[c].now /\ New(done).fp = clock
          BY <2>2, <2>4, <4>1
        <5>. HIDE DEF done
        <5>. QED
          BY <1>0, <1>4, <3>3, <3>4, <4>1, <5>1 DEF Rests
      <4>2. CASE c.via = "gate"
        <5>1. New(done).at = "hash" /\ New(done).now = cl[c].now /\ New(done).fp = clock
          BY <2>2, <2>4, <4>2
        <5>. HIDE DEF done
        <5>. QED
          BY <1>0, <1>4, <3>3, <3>4, <4>2, <5>1 DEF Rests
      <4>. QED
        BY <2>1, <4>1, <4>2
    <3>. HIDE DEF done
    <3>. QED
      BY <1>7, <2>1, <2>2, <2>3, <2>4, <2>5, <3>5
  <2>6. CASE ~hit
    <3>. HIDE DEF New, hit, done
    <3>1. Rests(c, New("compare"))
      BY <1>0, <1>4, <2>2, <2>4 DEF Rests
    <3>. QED
      BY <1>7, <2>1, <2>2, <2>3, <2>4, <2>6, <3>1
  <2>. QED
    BY <2>5, <2>6
<1>11. CASE VerifyIMCredential(c)
  <2>1. Same3
    BY <1>11 DEF VerifyIMCredential
  <2>2. CASE imSecret = ImSecretOf(c)
    <3>1. Mind(c, "imStore")
      BY <1>11, <2>2 DEF VerifyIMCredential
    <3>2. "imStore" \in Stages
      BY DEF Stages
    <3>3. ImSecretOf(c) \in ImSecrets
      BY <1>0, <1>2, <2>2
    <3>4. GoodFor(Im(ImSecretOf(c)), cl[c].fp, 1)
      BY <2>2 DEF GoodFor, Holds, Im
    <3>5. Rests(c, Goes("imStore"))
      BY <1>4, <1>6, <3>2, <3>3, <3>4 DEF Rests
    <3>. QED
      BY <1>6, <1>7, <2>1, <3>1, <3>2, <3>5
  <2>3. CASE imSecret # ImSecretOf(c)
    <3>1. Mind(c, "refused")
      BY <1>11, <2>3 DEF VerifyIMCredential
    <3>. QED
      BY <1>8, <2>1, <3>1
  <2>. QED
    BY <2>2, <2>3
<1>12. CASE VerifySecret(c)
  <2>1. Same3 /\ cl[c].at = "hash"
    BY <1>12 DEF VerifySecret
  <2>2. CASE c.secret \in GetByAppID(c.as)
    <3>1. Mind(c, "row")
      BY <1>12, <2>2 DEF VerifySecret
    <3>2. "row" \in Stages
      BY DEF Stages
    <3>3. c.secret \in Apps /\ Exists(c.secret)
      BY <2>2 DEF GetByAppID
    <3>4. GoodFor(Secret(c), cl[c].now, 1)
      BY <3>3 DEF GoodFor, Holds, Secret
    <3>5. Rests(c, Goes("row"))
      BY <1>3, <1>4, <1>6, <2>1, <3>2, <3>3, <3>4 DEF Rests
    <3>. QED
      BY <1>6, <1>7, <2>1, <3>1, <3>2, <3>5
  <2>3. CASE c.secret \notin GetByAppID(c.as)
    <3>1. Mind(c, "refused")
      BY <1>12, <2>3 DEF VerifySecret
    <3>. QED
      BY <1>8, <2>1, <3>1
  <2>. QED
    BY <2>2, <2>3
<1>13. CASE GetByID(c)
  <2>1. Same3 /\ cl[c].at = "row"
    BY <1>13 DEF GetByID
  <2>. DEFINE ok == IF c.via = "app" THEN Exists(c.secret) ELSE Open(c.secret)
              new == [cl[c] EXCEPT !.at = "store", !.id = c.secret]
  <2>2. CASE ok
    <3>1. cl' = [cl EXCEPT ![c] = new]
      BY <1>13, <2>2 DEF GetByID
    <3>2. c.secret \in Apps
      BY <1>3, <2>1 DEF Rests
    <3>3. new \in CallRec /\ new.at = "store" /\ new.now = cl[c].now /\ new.fp = cl[c].fp
      BY <1>0, <3>2 DEF CallRec, Stages
    <3>. HIDE DEF new
    <3>4. GoodFor(Secret(c), cl[c].now, 1)
      BY <1>3, <2>1 DEF Rests
    <3>5. c.via = "gate" => GoodFor(OpenFor(c), cl[c].now, 1)
      BY <2>2 DEF GoodFor, Holds, OpenFor
    <3>6. Rests(c, new)
      BY <1>3, <1>4, <2>1, <3>2, <3>3, <3>4, <3>5 DEF Rests
    <3>. QED
      BY <1>7, <2>1, <3>1, <3>3, <3>6
  <2>3. CASE ~ok
    <3>1. Mind(c, "refused")
      BY <1>13, <2>3 DEF GetByID
    <3>. QED
      BY <1>8, <2>1, <3>1
  <2>. QED
    BY <2>2, <2>3
<1>14. CASE RememberIM(c)
  <2>. DEFINE at == IF c.via = "im" THEN "handler" ELSE "hash"
              x == Expiry(cl[c].fp, ImTTL)
              t == ImSecretOf(c)
  <2>1. /\ cl[c].at = "imStore" /\ Mind(c, at) /\ imVerified' = [secret |-> t, exp |-> x]
        /\ UNCHANGED <<verified, credentials>> /\ x = cl[c].fp + ImTTL
    BY <1>14 DEF RememberIM, Expiry
  <2>2. t \in ImSecrets /\ GoodFor(Im(t), cl[c].fp, 1)
    BY <1>3, <2>1 DEF Rests
  <2>3. Entry(Im(t), x, ImTTL) /\ GoodFor(Im(t), cl[c].fp, ImTTL)
    BY <1>0, <1>2, <1>4, <1>5, <2>1, <2>2, Lives
  <2>4. at \in Stages /\ at \in {"handler", "hash"} /\ (at = "handler" => c.via = "im")
    BY DEF Stages
  <2>. HIDE DEF at, x, t
  <2>5. Remembered'
    <3>1. \A u, y : imVerified' = [secret |-> u, exp |-> y] => u = t /\ y = x
      BY <2>1
    <3>2. \E u, y : imVerified' = [secret |-> u, exp |-> y]
      BY <2>1
    <3>3. \A u, y : imVerified' = [secret |-> u, exp |-> y] /\ u # None =>
              u \in ImSecrets /\ Entry(Im(u), y, ImTTL)
      BY <2>2, <2>3, <3>1
    <3>4. /\ \A e \in verified' : e.secret \in Apps /\ Entry(<<"secret", e.secret>>, e.exp, SecretTTL)
          /\ \A e \in credentials' : /\ e.secret \in Apps /\ e.id \in Apps \cup {None}
                                     /\ Entry(<<"secret", e.secret>>, e.exp, CredTTL)
                                     /\ Entry(<<"open", e.secret>>, e.exp, CredTTL)
      BY <1>3, <2>1 DEF Remembered
    <3>. QED
      BY <1>1, <3>2, <3>3, <3>4, CachesAre
  <2>6. Rests(c, Goes(at))
    BY <1>2, <1>4, <1>6, <2>2, <2>3, <2>4 DEF Rests, t
  <2>. QED
    BY <1>1, <1>6, <2>1, <2>4, <2>5, <2>6, CredMoves
<1>15. CASE Remember(c)
  <2>. DEFINE e0 == [as |-> c.as, secret |-> c.secret, exp |-> Expiry(cl[c].now, SecretTTL)]
  <2>1. /\ c.via = "app" /\ cl[c].at = "store" /\ Mind(c, "handler")
        /\ verified' = Kept(verified, c) \cup {e0} /\ UNCHANGED <<imVerified, credentials>>
    BY <1>15 DEF Remember
  <2>2. c.secret \in Apps /\ GoodFor(Secret(c), cl[c].now, 1)
    BY <1>3, <2>1 DEF Rests
  <2>3. /\ Entry(Secret(c), cl[c].now + SecretTTL, SecretTTL) /\ GoodFor(Secret(c), cl[c].now, SecretTTL)
    BY <1>0, <1>2, <1>4, <1>5, <2>2, Lives
  <2>4. e0.secret \in Apps /\ Entry(<<"secret", e0.secret>>, e0.exp, SecretTTL)
    BY <2>2, <2>3 DEF Expiry, Secret
  <2>. HIDE DEF e0
  <2>5. \A e \in verified' : e.secret \in Apps /\ Entry(<<"secret", e.secret>>, e.exp, SecretTTL)
    BY <1>3, <2>1, <2>4 DEF Remembered, Kept
  <2>6. Remembered'
    BY <1>1, <1>3, <2>1, <2>5, CachesAre DEF Remembered
  <2>7. "handler" \in Stages
    BY DEF Stages
  <2>8. Rests(c, Goes("handler"))
    BY <1>4, <1>6, <2>1, <2>2, <2>3, <2>7 DEF Rests
  <2>. QED
    BY <1>1, <1>6, <2>1, <2>6, <2>7, <2>8, CredMoves
<1>16. CASE RememberStream(c)
  <2>. DEFINE e0 == [as |-> c.as, secret |-> c.secret, id |-> cl[c].id, exp |-> Expiry(cl[c].now, CredTTL)]
  <2>1. /\ c.via = "gate" /\ cl[c].at = "store" /\ Mind(c, "served")
        /\ credentials' = Kept(credentials, c) \cup {e0} /\ UNCHANGED <<imVerified, verified>>
    BY <1>16 DEF RememberStream
  <2>2. /\ c.secret \in Apps /\ GoodFor(Secret(c), cl[c].now, 1) /\ GoodFor(OpenFor(c), cl[c].now, 1)
        /\ ImSecretOf(c) \in ImSecrets /\ GoodFor(Im(ImSecretOf(c)), cl[c].fp, ImTTL)
    BY <1>3, <2>1 DEF Rests
  <2>3. /\ Entry(Secret(c), cl[c].now + CredTTL, CredTTL) /\ GoodFor(Secret(c), cl[c].now, CredTTL)
        /\ Entry(OpenFor(c), cl[c].now + CredTTL, CredTTL) /\ GoodFor(OpenFor(c), cl[c].now, CredTTL)
    BY <1>0, <1>2, <1>4, <1>5, <2>2, Lives
  <2>4. /\ e0.secret \in Apps /\ e0.id \in Apps \cup {None}
        /\ Entry(<<"secret", e0.secret>>, e0.exp, CredTTL) /\ Entry(<<"open", e0.secret>>, e0.exp, CredTTL)
    BY <1>0, <2>2, <2>3 DEF Expiry, Secret, OpenFor, CallRec
  <2>. HIDE DEF e0
  <2>5. \A e \in credentials' : /\ e.secret \in Apps /\ e.id \in Apps \cup {None}
                                /\ Entry(<<"secret", e.secret>>, e.exp, CredTTL)
                                /\ Entry(<<"open", e.secret>>, e.exp, CredTTL)
    BY <1>3, <2>1, <2>4 DEF Remembered, Kept
  <2>6. Remembered'
    BY <1>1, <1>3, <2>1, <2>5, CachesAre DEF Remembered
  <2>7. "served" \in Stages
    BY DEF Stages
  <2>8. Rests(c, Goes("served"))
    BY <1>4, <1>6, <2>1, <2>2, <2>3, <2>7 DEF Rests
  <2>. QED
    BY <1>1, <1>6, <2>1, <2>6, <2>7, <2>8, CredMoves
<1>17. CASE callerApp(c)
  <2>. DEFINE found == {a \in GetByAppID(c.as) : IF c.via = "im" THEN Open(a) ELSE app[a].status = "ACTIVE"}
              a0 == CHOOSE a \in found : TRUE
              new == [cl[c] EXCEPT !.at = "served", !.id = a0]
  <2>1. Same3 /\ cl[c].at = "handler"
    BY <1>17 DEF callerApp
  <2>2. CASE found = {}
    <3>1. Mind(c, "refused")
      BY <1>17, <2>2 DEF callerApp, Mind
    <3>. QED
      BY <1>8, <2>1, <3>1
  <2>3. CASE found # {}
    <3>1. cl' = [cl EXCEPT ![c] = new]
      BY <1>17, <2>3 DEF callerApp
    <3>2. a0 \in Apps
      BY <2>3 DEF GetByAppID
    <3>. HIDE DEF a0, found
    <3>3. new \in CallRec /\ new.at = "served" /\ new.now = cl[c].now /\ new.fp = cl[c].fp
      BY <1>0, <3>2 DEF CallRec, Stages
    <3>. HIDE DEF new
    <3>4. Rests(c, new)
      BY <1>3, <1>4, <2>1, <3>3 DEF Rests
    <3>. QED
      BY <1>7, <2>1, <3>1, <3>3, <3>4
  <2>. QED
    BY <2>2, <2>3
<1>18. CASE streamAuth(c)
  <2>. DEFINE hit == {e \in credentials : Fresh(e, c, clock)}
              e0 == CHOOSE e \in hit : TRUE
              ask == [cl[c] EXCEPT !.now = clock, !.at = "fp"]
              new == [cl[c] EXCEPT !.now = clock, !.at = "served", !.id = e0.id]
  <2>1. Same3 /\ cl[c].at = "todo" /\ c.via = "gate" /\ cl[c].fp = 0
    BY <1>3, <1>18 DEF streamAuth, Rests
  <2>2. CASE hit = {}
    <3>1. cl' = [cl EXCEPT ![c] = ask]
      BY <1>18, <2>2 DEF streamAuth
    <3>2. ask \in CallRec /\ ask.at = "fp" /\ ask.now = clock /\ ask.fp = cl[c].fp
      BY <1>0 DEF CallRec, Stages
    <3>. HIDE DEF ask
    <3>3. Rests(c, ask)
      BY <1>0, <1>4, <3>2 DEF Rests
    <3>. QED
      BY <1>7, <2>1, <3>1, <3>2, <3>3
  <2>3. CASE hit # {}
    <3>1. cl' = [cl EXCEPT ![c] = new]
      BY <1>18, <2>3 DEF streamAuth
    <3>2. e0 \in credentials /\ Fresh(e0, c, clock)
      BY <2>3
    <3>. HIDE DEF e0, hit
    <3>3. /\ c.secret \in Apps /\ e0.id \in Apps \cup {None} /\ e0.exp > clock
          /\ Entry(Secret(c), e0.exp, CredTTL) /\ Entry(OpenFor(c), e0.exp, CredTTL)
      BY <1>3, <3>2 DEF Remembered, Fresh, Secret, OpenFor
    <3>4. GoodFor(Secret(c), clock, CredTTL) /\ GoodFor(OpenFor(c), clock, CredTTL)
      BY <1>0, <1>2, <1>5, <3>3, Lives
    <3>5. new \in CallRec /\ new.at = "served" /\ new.now = clock /\ new.fp = cl[c].fp
      BY <1>0, <3>3 DEF CallRec, Stages
    <3>. HIDE DEF new
    <3>6. Rests(c, new)
      BY <1>0, <1>4, <2>1, <3>3, <3>4, <3>5 DEF Rests
    <3>. QED
      BY <1>7, <2>1, <3>1, <3>5, <3>6
  <2>. QED
    BY <2>2, <2>3
<1>. QED
  BY <1>9, <1>10, <1>11, <1>12, <1>13, <1>14, <1>15, <1>16, <1>17, <1>18 DEF ServerCall

\* Every step keeps what the calls and the caches rest on.
LEMMA CredStep == CredInv /\ [Next]_vars => CredInv'
<1>. SUFFICES ASSUME CredInv, [Next]_vars PROVE CredInv'
  OBVIOUS
<1>0. clock \in Nat /\ CredTypes
  BY DEF CredInv, CredTypes
<1>1. ASSUME UNCHANGED <<inst, credVars>>, clock' \in Nat, clock <= clock' PROVE CredInv'
  <2>1. UNCHANGED <<inst, app, imSecret, verified, imVerified, credentials, cl, held>>
    BY <1>1 DEF credVars
  <2>2. \A g : Holds(g)' = Holds(g)
    BY <2>1 DEF Holds, Exists, Open
  <2>3. \A g, start, ttl : GoodFor(g, start, ttl)' <=> GoodFor(g, start, ttl)
    BY <2>1, <2>2 DEF GoodFor
  <2>. QED
    BY <1>0, <1>1, <2>1, <2>3, CredStays DEF CredTypes
<1>2. ASSUME UNCHANGED <<inst, credVars, clock>> PROVE CredInv'
  <2>1. clock' \in Nat /\ clock <= clock'
    BY <1>0, <1>2
  <2>. QED
    BY <1>1, <1>2, <2>1
<1>3. CASE UNCHANGED vars
  BY <1>2, <1>3 DEF vars, authzVars, keyVars
<1>4. ASSUME NEW o \in inst.ops,
             \/ ConsoleCall(o) /\ UNCHANGED <<keyVars, credVars>>
             \/ KeyCall(o) /\ UNCHANGED credVars
             \/ AppCall(o)
      PROVE  CredInv'
  BY <1>2, <1>4, ConsoleFrame, KeyFrame, AppKeepsCred DEF keyVars
<1>5. CASE SdkPolicy /\ UNCHANGED <<keyVars, credVars>>
  BY <1>2, <1>5, PolicyFrame DEF keyVars
<1>6. CASE WatchKeys /\ UNCHANGED credVars
  <2>1. inst' = inst /\ clock' = clock
    BY <1>6, PolicyFrame DEF WatchKeys
  <2>. QED
    BY <1>2, <1>6, <2>1
<1>7. CASE SdkKeys /\ UNCHANGED credVars
  <2>1. inst' = inst
    BY <1>7, SdkFrame
  <2>2. clock' = clock \/ clock' = clock + 1
    BY <1>7 DEF SdkKeys, Tick, Evict, Resolve, Compare, Add, LookupFails, FlightRest, MiddlewareWith, Get,
                Do, verifyAccessKey, Middleware, RequestRest, take, ReportAccessKeyUsage, ReportFails, UsageRest
  <2>3. clock' \in Nat /\ clock <= clock'
    BY <1>0, <2>2
  <2>. QED
    BY <1>1, <1>7, <2>1, <2>3
<1>8. ASSUME NEW c \in inst.calls, ServerCall(c) PROVE CredInv'
  BY <1>8, ServerKeepsCred
<1>9. CASE Accounts
  BY <1>2, <1>9, AccountsFrame DEF keyVars
<1>. QED
  BY <1>3, <1>4, <1>5, <1>6, <1>7, <1>8, <1>9 DEF Next

\* The interceptor's two caches and the one of fp-im, with any calls, applications, secrets
\* and lives: a credential that ended admits nobody whose call began the life of an entry or
\* more after the end.
THEOREM CredentialsLapse == Spec => []CredentialLapses
<1>1. CredInv => CredentialLapses
  <2>. SUFFICES ASSUME CredInv, NEW c \in inst.calls, cl[c].at = "served"
       PROVE  CASE c.via = "app"  -> GoodFor(<<"secret", c.secret>>, cl[c].now, SecretTTL)
                [] c.via = "im"   -> GoodFor(<<"im", c.secret>>, cl[c].fp, ImTTL)
                [] c.via = "gate" -> /\ GoodFor(<<"secret", c.secret>>, cl[c].now, CredTTL)
                                     /\ GoodFor(<<"open", c.secret>>, cl[c].now, CredTTL)
                                     /\ cl[c].fp # 0 => GoodFor(<<"im", c.own>>, cl[c].fp, ImTTL)
    BY DEF CredentialLapses
  <2>1. Rests(c, cl[c]) /\ inst \in Instances
    BY DEF CredInv, CredTypes
  <2>2. c.via \in {"app", "im", "gate"}
    BY <2>1, CallsOf
  <2>3. CASE c.via = "app"
    BY <2>1, <2>3 DEF Rests, Secret
  <2>4. CASE c.via = "im"
    BY <2>1, <2>4 DEF Rests, Im, ImSecretOf
  <2>5. CASE c.via = "gate"
    BY <2>1, <2>5 DEF Rests, Secret, OpenFor, Im, ImSecretOf
  <2>. QED
    BY <2>2, <2>3, <2>4, <2>5
<1>. QED
  BY <1>1, CredInitially, CredStep, PTL DEF Spec

-----------------------------------------------------------------------------
(* References between the tables                                           *)

\* Calls that have checked a code and are still to write it.
PcRefs ==
    /\ pc = [o \in inst.ops |-> pc[o]]
    /\ \A o \in inst.ops : o.do \in {"userRoles", "defaultRole"} => "at" \in DOMAIN pc[o]
ToWrite ==
    \A o \in inst.ops : pc[o].at = "write" =>
        /\ (o.do = "userRoles" => o.codes \subseteq Live \cup raced)
        /\ (o.do = "defaultRole" => o.code \in Live \cup raced \cup {None})

RefTypes ==
    /\ inst \in Instances
    /\ akeys = [k \in AKs |-> akeys[k]] /\ \A k \in AKs : DOMAIN akeys[k] = {"status", "role"}
    /\ DOMAIN perms = Perms /\ DOMAIN userRoles = Users
    /\ DOMAIN grants = RoleIds \X Perms

RefInv == RefTypes /\ PcRefs /\ ToWrite /\ References

\* The SDK, the services and the administrators' accounts write none of these tables.
LEMMA TablesFrame ==
    ASSUME SdkPolicy \/ Watch \/ SdkKeys \/ (\E c \in inst.calls : ServerCall(c)) \/ Accounts
    PROVE  UNCHANGED <<inst, tableVars, pc, raced>>
<1>1. CASE SdkPolicy \/ Watch
  BY <1>1 DEF SdkPolicy, TimerPolicy, Break, Reconnect, RefreshStep, ReadGraph, ReadGrants, setPolicy,
              RefreshFails, Watch, SdkRest, histVars
<1>2. CASE SdkKeys
  BY <1>2 DEF SdkKeys, Tick, Evict, Resolve, Compare, Add, LookupFails, MiddlewareWith, Get, Do,
              verifyAccessKey, Middleware, take, ReportAccessKeyUsage, ReportFails, FlightRest,
              RequestRest, UsageRest, authzVars, histVars
<1>3. CASE \E c \in inst.calls : ServerCall(c)
  BY <1>3, ServerFrame DEF authzVars, histVars
<1>4. CASE Accounts
  BY <1>4 DEF Accounts, currentEpoch, Login, issueToken, ChangeAccount, ChangeWrites, ResetPassword,
              EnsureBootstrap, bumpEpoch, BumpFails, Logout, LoginRest, ChangeRest, authzVars, histVars
<1>. QED
  BY <1>1, <1>2, <1>3, <1>4

\* A call moves itself, and has checked what it is going to write.
LEMMA CallChecks ==
    ASSUME PcRefs, NEW o \in inst.ops, ConsoleCall(o) \/ KeyCall(o) \/ AppCall(o)
    PROVE  /\ PcRefs' /\ \A p \in inst.ops : p # o => pc'[p] = pc[p]
           /\ (pc'[o].at = "write" /\ o.do = "userRoles" => o.codes \subseteq Live)
           /\ (pc'[o].at = "write" /\ o.do = "defaultRole" => o.code \in Live \cup {None})
<1>0. inst' = inst
  BY ConsoleFrame, KeyFrame, AppFrame
<1>1. ASSUME NEW at, Step(o, at)
      PROVE  /\ PcRefs' /\ \A p \in inst.ops : p # o => pc'[p] = pc[p]
             /\ (o.do \in {"userRoles", "defaultRole"} => pc'[o].at = at)
  <2>1. pc' = [pc EXCEPT ![o] = [pc[o] EXCEPT !.at = at]]
    BY <1>1 DEF Step
  <2>2. /\ pc' = [p \in inst.ops |-> pc'[p]]
        /\ \A p \in inst.ops : pc'[p] = IF p = o THEN [pc[o] EXCEPT !.at = at] ELSE pc[p]
    BY <2>1 DEF PcRefs
  <2>3. DOMAIN [pc[o] EXCEPT !.at = at] = DOMAIN pc[o]
    OBVIOUS
  <2>4. o.do \in {"userRoles", "defaultRole"} => pc'[o].at = at
    BY <2>2 DEF PcRefs
  <2>5. \A p \in inst.ops : DOMAIN pc'[p] = DOMAIN pc[p]
    BY <2>2, <2>3
  <2>. QED
    BY <1>0, <2>2, <2>4, <2>5 DEF PcRefs
<1>2. CASE UpdateRole(o) \/ wouldCycle(o)
  <2>1. o.do = "updateRole" /\ \E new : pc' = [pc EXCEPT ![o] = new]
    BY <1>2 DEF UpdateRole, wouldCycle, At
  <2>2. pc' = [p \in inst.ops |-> pc'[p]] /\ \A p \in inst.ops : p # o => pc'[p] = pc[p]
    BY <2>1 DEF PcRefs
  <2>. QED
    BY <1>0, <2>1, <2>2 DEF PcRefs
<1>3. CASE SetUserRoles(o)
  <2>1. o.do = "userRoles" /\ ((o.codes \subseteq Live /\ Step(o, "write")) \/ Step(o, "end"))
    BY <1>3 DEF SetUserRoles, At, End
  <2>. QED
    BY <1>1, <2>1
<1>4. CASE SetDefaultRole(o)
  <2>1. o.do = "defaultRole" /\ ((o.code \in Live \cup {None} /\ Step(o, "write")) \/ Step(o, "end"))
    BY <1>4 DEF SetDefaultRole, At, End
  <2>. QED
    BY <1>1, <2>1
<1>5. CASE Step(o, "say") \/ Step(o, "end")
  BY <1>1, <1>5
<1>6. ConsoleCall(o) => \/ UpdateRole(o) \/ wouldCycle(o) \/ SetUserRoles(o) \/ SetDefaultRole(o)
                        \/ Step(o, "say") \/ Step(o, "end")
  BY DEF ConsoleCall, CreateRole, UpdateRoleWrites, DeleteRole, SetUserRolesWrites, SetDefaultRoleWrites,
         ReportPermissions, UpdatePermission, DeletePermission, SetRolePermission, announcePolicy,
         Publish, End
<1>7. KeyCall(o) => Step(o, "say") \/ Step(o, "end")
  BY DEF KeyCall, Publish, Create, Update, SetStatus, Delete, announce, End
<1>8. CASE AppCall(o)
  <2>1. \E at : Step(o, at)
    BY <1>8 DEF AppCall, CreateApp, SetAppStatus, SetIMConfig, DeleteApp, Rotate, End
  <2>2. o.do \notin {"userRoles", "defaultRole"}
    BY <1>8 DEF AppCall, CreateApp, SetAppStatus, SetIMConfig, DeleteApp, Rotate, At
  <2>. QED
    BY <1>1, <2>1, <2>2
<1>. QED
  BY <1>2, <1>3, <1>4, <1>5, <1>6, <1>7, <1>8

\* A call that takes no role away.
LEMMA RolesStay ==
    ASSUME RefInv, NEW o \in inst.ops, ConsoleCall(o) \/ KeyCall(o) \/ AppCall(o), inst' = inst,
           Live \subseteq Live', raced \subseteq raced', References', RefTypes'
    PROVE  RefInv'
<1>1. /\ PcRefs' /\ \A p \in inst.ops : p # o => pc'[p] = pc[p]
      /\ (pc'[o].at = "write" /\ o.do = "userRoles" => o.codes \subseteq Live)
      /\ (pc'[o].at = "write" /\ o.do = "defaultRole" => o.code \in Live \cup {None})
  BY CallChecks DEF RefInv
<1>2. ToWrite'
  BY <1>1 DEF RefInv, ToWrite
<1>. QED
  BY <1>1, <1>2 DEF RefInv

\* The calls on roles.
LEMMA RolesKeepRefs ==
    ASSUME RefInv, NEW o \in inst.ops, ConsoleCall(o)
    PROVE  RefInv'
<1>t. /\ inst \in Instances
      /\ akeys = [k \in AKs |-> akeys[k]] /\ \A k \in AKs : DOMAIN akeys[k] = {"status", "role"}
      /\ DOMAIN perms = Perms /\ DOMAIN userRoles = Users
      /\ DOMAIN grants = RoleIds \X Perms
  BY DEF RefInv, RefTypes
<1>r. /\ \A k \in AKs : akeys[k].role = None \/ akeys[k].role \in Live
      /\ \A u \in Users : userRoles[u] \subseteq Live \cup raced
      /\ defaultRole \in Live \cup raced \cup {None}
      /\ \A r \in RoleIds, p \in Perms : grants[r, p] # "" => r \in roles /\ perms[p] # None
  BY DEF RefInv, References
<1>0. inst' = inst /\ akeys' = akeys
  BY ConsoleFrame
<1>1. CASE UNCHANGED <<roles, perms, grants, userRoles, defaultRole, raced>>
  <2>1. Live' = Live
    BY <1>1 DEF Live
  <2>2. RefTypes' /\ References'
    BY <1>0, <1>1, <1>t, <1>r, <2>1 DEF RefTypes, References
  <2>. QED
    BY <1>0, <1>1, <2>1, <2>2, RolesStay
<1>2. CASE CreateRole(o)
  <2>1. roles \subseteq roles' /\ UNCHANGED <<perms, grants, userRoles, defaultRole, raced>>
    BY <1>2 DEF CreateRole
  <2>2. Live \subseteq Live'
    BY <2>1 DEF Live
  <2>3. RefTypes' /\ References'
    BY <1>0, <1>t, <1>r, <2>1, <2>2 DEF RefTypes, References
  <2>. QED
    BY <1>0, <2>1, <2>2, <2>3, RolesStay
<1>3. CASE DeleteRole(o) /\ roles' # roles
  <2>. DEFINE c == CodeOf[o.id]
  <2>1. /\ roles' = roles \ {o.id} /\ \A k \in AKs : akeys[k].role # c
        /\ grants' = [x \in RoleIds \X Perms |-> IF x[1] = o.id THEN "" ELSE grants[x]]
        /\ userRoles' = [u \in Users |-> userRoles[u] \ {c}]
        /\ defaultRole' = IF defaultRole = c THEN None ELSE defaultRole
        /\ raced' = IF Writing(c) THEN raced \cup {c} ELSE raced
        /\ perms' = perms
    BY <1>3 DEF DeleteRole, StripRole
  <2>2. Live \ {c} \subseteq Live'
    BY <2>1 DEF Live
  <2>3. o.do = "deleteRole"
    BY <1>3 DEF DeleteRole, At
  <2>. HIDE DEF c
  <2>4. RefTypes'
    BY <1>0, <1>t, <2>1 DEF RefTypes
  <2>5. /\ \A k \in AKs : akeys'[k].role = None \/ akeys'[k].role \in Live'
        /\ \A u \in Users : userRoles'[u] \subseteq Live' \cup raced'
        /\ defaultRole' \in Live' \cup raced' \cup {None}
    BY <1>0, <1>r, <2>1, <2>2
  <2>6. \A r \in RoleIds, p \in Perms : grants'[r, p] # "" => r \in roles' /\ perms'[p] # None
    BY <1>r, <2>1
  <2>7. PcRefs' /\ \A p \in inst.ops : p # o => pc'[p] = pc[p]
    BY CallChecks DEF RefInv
  <2>8. ToWrite'
    <3>. SUFFICES ASSUME NEW p \in inst.ops, pc'[p].at = "write",
                         p.do \in {"userRoles", "defaultRole"}
                  PROVE  /\ (p.do = "userRoles" => p.codes \subseteq Live' \cup raced')
                         /\ (p.do = "defaultRole" => p.code \in Live' \cup raced' \cup {None})
      BY <1>0 DEF ToWrite
    <3>1. pc[p].at = "write"
      BY <2>3, <2>7
    <3>2. /\ (p.do = "userRoles" => p.codes \subseteq Live \cup raced)
          /\ (p.do = "defaultRole" => p.code \in Live \cup raced \cup {None})
      BY <3>1 DEF RefInv, ToWrite
    <3>3. /\ (p.do = "userRoles" /\ c \in p.codes => Writing(c))
          /\ (p.do = "defaultRole" /\ c = p.code => Writing(c))
      BY <3>1 DEF Writing
    <3>. QED
      BY <2>1, <2>2, <3>2, <3>3
  <2>. QED
    BY <2>4, <2>5, <2>6, <2>7, <2>8 DEF RefInv, References
<1>4. CASE DeleteRole(o) /\ roles' = roles
  <2>1. CASE o.id \in roles /\ roles' = roles \ {o.id}
    BY <1>4, <2>1
  <2>2. CASE UNCHANGED <<grants, userRoles, defaultRole, raced>>
    BY <1>1, <1>4, <2>2 DEF DeleteRole
  <2>. QED
    BY <1>4, <2>1, <2>2 DEF DeleteRole
<1>5. CASE SetUserRolesWrites(o)
  <2>1. /\ userRoles' = [userRoles EXCEPT ![o.user] = o.codes] /\ o.do = "userRoles" /\ pc[o].at = "write"
        /\ UNCHANGED <<roles, perms, grants, defaultRole, raced>>
    BY <1>5 DEF SetUserRolesWrites, At, histVars
  <2>2. o.codes \subseteq Live \cup raced
    BY <2>1 DEF RefInv, ToWrite
  <2>3. Live' = Live
    BY <2>1 DEF Live
  <2>4. DOMAIN userRoles' = Users /\ \A u \in Users : userRoles'[u] \subseteq Live \cup raced
    BY <1>t, <1>r, <2>1, <2>2
  <2>5. RefTypes' /\ References'
    BY <1>0, <1>t, <1>r, <2>1, <2>3, <2>4 DEF RefTypes, References
  <2>. QED
    BY <1>0, <2>1, <2>3, <2>5, RolesStay
<1>6. CASE SetDefaultRoleWrites(o)
  <2>1. /\ defaultRole' = o.code /\ o.do = "defaultRole" /\ pc[o].at = "write"
        /\ UNCHANGED <<roles, perms, grants, userRoles, raced>>
    BY <1>6 DEF SetDefaultRoleWrites, At, histVars
  <2>2. o.code \in Live \cup raced \cup {None}
    BY <2>1 DEF RefInv, ToWrite
  <2>3. Live' = Live
    BY <2>1 DEF Live
  <2>4. RefTypes' /\ References'
    BY <1>0, <1>t, <1>r, <2>1, <2>2, <2>3 DEF RefTypes, References
  <2>. QED
    BY <1>0, <2>1, <2>3, <2>4, RolesStay
<1>7. CASE /\ UNCHANGED <<roles, userRoles, defaultRole, raced>>
           /\ DOMAIN perms' = Perms /\ DOMAIN grants' = RoleIds \X Perms
           /\ \A r \in RoleIds, p \in Perms : grants'[r, p] # "" => r \in roles /\ perms'[p] # None
  <2>1. Live' = Live
    BY <1>7 DEF Live
  <2>2. RefTypes' /\ References'
    BY <1>0, <1>7, <1>t, <1>r, <2>1 DEF RefTypes, References
  <2>. QED
    BY <1>0, <1>7, <2>1, <2>2, RolesStay
<1>k. None \notin Keys /\ (o.do \in {"report", "rename"} => o.key \in Keys)
  BY <1>t, AuthzAssumption
<1>8. CASE ReportPermissions(o) \/ UpdatePermission(o)
  <2>1. /\ o.do \in {"report", "rename"} /\ (perms' = perms \/ perms' = [perms EXCEPT ![o.perm] = o.key])
        /\ UNCHANGED <<roles, grants, userRoles, defaultRole, raced>>
    BY <1>8 DEF ReportPermissions, UpdatePermission, At, histVars
  <2>2. DOMAIN perms' = Perms /\ \A p \in Perms : perms[p] # None => perms'[p] # None
    BY <1>k, <1>t, <2>1
  <2>. QED
    BY <1>7, <1>r, <1>t, <2>1, <2>2
<1>9. CASE DeletePermission(o)
  <2>0. UNCHANGED <<roles, userRoles, defaultRole, raced>>
    BY <1>9 DEF DeletePermission, histVars
  <2>1. CASE UNCHANGED <<perms, grants>>
    BY <1>1, <2>0, <2>1
  <2>2. CASE /\ perms' = [perms EXCEPT ![o.perm] = None]
             /\ grants' = [x \in RoleIds \X Perms |-> IF x[2] = o.perm THEN "" ELSE grants[x]]
    <3>1. DOMAIN perms' = Perms /\ DOMAIN grants' = RoleIds \X Perms
      BY <1>t, <2>2
    <3>2. ASSUME NEW r \in RoleIds, NEW p \in Perms, grants'[r, p] # ""
          PROVE  r \in roles /\ perms'[p] # None
      <4>1. p # o.perm /\ grants[r, p] # ""
        BY <2>2, <3>2
      <4>. QED
        BY <1>r, <1>t, <2>2, <4>1
    <3>. QED
      BY <1>7, <2>0, <3>1, <3>2
  <2>. QED
    BY <1>9, <2>1, <2>2 DEF DeletePermission
<1>10. CASE SetRolePermission(o)
  <2>0. UNCHANGED <<roles, perms, userRoles, defaultRole, raced>>
    BY <1>10 DEF SetRolePermission, histVars
  <2>1. CASE UNCHANGED grants
    BY <1>1, <2>0, <2>1
  <2>2. CASE /\ grants' = [grants EXCEPT ![<<o.id, o.perm>>] = o.effect]
             /\ (o.effect = "" \/ (o.id \in roles /\ perms[o.perm] # None))
    <3>1. DOMAIN grants' = RoleIds \X Perms
      BY <1>t, <2>2
    <3>2. ASSUME NEW r \in RoleIds, NEW p \in Perms, grants'[r, p] # ""
          PROVE  r \in roles /\ perms[p] # None
      <4>1. CASE <<r, p>> = <<o.id, o.perm>>
        BY <1>t, <2>2, <3>2, <4>1
      <4>2. CASE <<r, p>> # <<o.id, o.perm>>
        BY <1>r, <1>t, <2>2, <3>2, <4>2
      <4>. QED
        BY <4>1, <4>2
    <3>. QED
      BY <1>7, <1>t, <2>0, <3>1, <3>2
  <2>. QED
    BY <1>10, <2>1, <2>2 DEF SetRolePermission
<1>11. CASE \/ UpdateRole(o) \/ wouldCycle(o) \/ UpdateRoleWrites(o) \/ SetUserRoles(o) \/ SetDefaultRole(o)
            \/ announcePolicy(o)
  BY <1>1, <1>11 DEF UpdateRole, wouldCycle, UpdateRoleWrites, SetUserRoles, SetDefaultRole, announcePolicy,
                     Publish, tableVars, histVars
<1>. QED
  BY <1>2, <1>3, <1>4, <1>5, <1>6, <1>8, <1>9, <1>10, <1>11 DEF ConsoleCall

\* The calls on access keys: a key is bound to a role that exists.
LEMMA KeysKeepRefs ==
    ASSUME RefInv, NEW o \in inst.ops, KeyCall(o)
    PROVE  RefInv'
<1>t. /\ inst \in Instances
      /\ akeys = [k \in AKs |-> akeys[k]] /\ \A k \in AKs : DOMAIN akeys[k] = {"status", "role"}
      /\ DOMAIN perms = Perms /\ DOMAIN userRoles = Users
      /\ DOMAIN grants = RoleIds \X Perms
  BY DEF RefInv, RefTypes
<1>r. /\ \A k \in AKs : akeys[k].role = None \/ akeys[k].role \in Live
      /\ \A u \in Users : userRoles[u] \subseteq Live \cup raced
      /\ defaultRole \in Live \cup raced \cup {None}
      /\ \A r \in RoleIds, p \in Perms : grants[r, p] # "" => r \in roles /\ perms[p] # None
  BY DEF RefInv, References
<1>1. inst' = inst /\ UNCHANGED <<roles, perms, grants, userRoles, defaultRole, raced>>
  BY DEF KeyCall, Create, Update, SetStatus, Delete, announce, Publish, KeyCallRest, CallRest, tableVars,
         histVars
<1>2. Live' = Live
  BY <1>1 DEF Live
<1>3. ASSUME /\ akeys' = [k \in AKs |-> akeys'[k]] /\ \A k \in AKs : DOMAIN akeys'[k] = {"status", "role"}
             /\ \A k \in AKs : akeys'[k].role = None \/ akeys'[k].role \in Live
      PROVE  RefInv'
  <2>1. RefTypes' /\ References'
    BY <1>t, <1>r, <1>1, <1>2, <1>3 DEF RefTypes, References
  <2>. QED
    BY <1>1, <1>2, <2>1, RolesStay
<1>4. CASE akeys' = akeys
  BY <1>t, <1>r, <1>3, <1>4
<1>5. ASSUME NEW s, NEW c \in Live \cup {None}, akeys' = [akeys EXCEPT ![o.ak] = [status |-> s, role |-> c]]
      PROVE  RefInv'
  <2>1. \A k \in AKs : akeys'[k] = IF k = o.ak THEN [status |-> s, role |-> c] ELSE akeys[k]
    BY <1>t, <1>5
  <2>2. akeys' = [k \in AKs |-> akeys'[k]]
    BY <1>t, <1>5
  <2>3. DOMAIN [status |-> s, role |-> c] = {"status", "role"} /\ [status |-> s, role |-> c].role = c
    OBVIOUS
  <2>4. \A k \in AKs : DOMAIN akeys'[k] = {"status", "role"}
    BY <1>t, <2>1, <2>3
  <2>5. \A k \in AKs : akeys'[k].role = None \/ akeys'[k].role \in Live
    BY <1>r, <1>5, <2>1, <2>3
  <2>. QED
    BY <1>3, <2>2, <2>4, <2>5
<1>6. CASE Create(o)
  BY <1>4, <1>5, <1>6 DEF Create, Bindable
<1>7. CASE Update(o)
  <2>1. CASE akeys' = [akeys EXCEPT ![o.ak].role = o.code] /\ Bindable(o.code)
    <3>1. \A k \in AKs : akeys'[k] = IF k = o.ak THEN [akeys[k] EXCEPT !.role = o.code] ELSE akeys[k]
      BY <1>t, <2>1
    <3>2. akeys' = [k \in AKs |-> akeys'[k]]
      BY <1>t, <2>1
    <3>3. o.code \in Live \cup {None}
      BY <2>1 DEF Bindable
    <3>. QED
      BY <1>t, <1>r, <1>3, <3>1, <3>2, <3>3
  <2>. QED
    BY <1>4, <1>7, <2>1 DEF Update
<1>8. CASE SetStatus(o)
  <2>1. CASE akeys' = [akeys EXCEPT ![o.ak].status = o.status]
    <3>1. \A k \in AKs : akeys'[k] = IF k = o.ak THEN [akeys[k] EXCEPT !.status = o.status] ELSE akeys[k]
      BY <1>t, <2>1
    <3>2. akeys' = [k \in AKs |-> akeys'[k]]
      BY <1>t, <2>1
    <3>. QED
      BY <1>t, <1>r, <1>3, <3>1, <3>2
  <2>. QED
    BY <1>4, <1>8, <2>1 DEF SetStatus
<1>9. CASE Delete(o)
  BY <1>4, <1>5, <1>9 DEF Delete
<1>10. CASE announce(o)
  BY <1>4, <1>10 DEF announce, Publish, tableVars
<1>. QED
  BY <1>6, <1>7, <1>8, <1>9, <1>10 DEF KeyCall

\* Nothing refers to what is not there, at the start.
LEMMA RefStart == Init => RefInv
<1>. SUFFICES ASSUME Init PROVE RefInv
  OBVIOUS
<1>1. /\ inst \in Instances /\ roles = inst.roles /\ grants = inst.grants
      /\ perms = [p \in Perms |-> IF \E r \in RoleIds : grants[r, p] # "" THEN inst.keyOf[p] ELSE None]
      /\ userRoles = [u \in Users |-> {}] /\ defaultRole = None
      /\ akeys = [k \in AKs |-> IF inst.keys[k] = "absent" THEN [status |-> "absent", role |-> None]
                                ELSE [status |-> "ACTIVE", role |-> inst.keys[k]]]
      /\ pc = [o \in inst.ops |-> [at |-> "todo", cur |-> None, n |-> 0]]
  BY DEF Init, AuthzInit
<1>2. /\ inst.grants \in [RoleIds \X Perms -> {"", "allow", "deny"}] /\ inst.keyOf \in [Perms -> Keys]
      /\ inst.keys \in [AKs -> {CodeOf[r] : r \in inst.roles} \cup {None, "absent"}]
      /\ \A x \in RoleIds \X Perms : inst.grants[x] # "" => x[1] \in inst.roles
      /\ None \notin Keys
  BY <1>1, AuthzAssumption
<1>3. RefTypes
  BY <1>1, <1>2 DEF RefTypes
<1>4. PcRefs /\ ToWrite
  <2>1. pc = [o \in inst.ops |-> pc[o]] /\ \A o \in inst.ops : pc[o] = [at |-> "todo", cur |-> None, n |-> 0]
    BY <1>1
  <2>. QED
    BY <2>1 DEF PcRefs, ToWrite
<1>5. References
  <2>1. \A k \in AKs : akeys[k].role = None \/ akeys[k].role \in Live
    BY <1>1, <1>2 DEF Live
  <2>2. \A r \in RoleIds, p \in Perms : grants[r, p] # "" => r \in roles /\ perms[p] # None
    <3>. SUFFICES ASSUME NEW r \in RoleIds, NEW p \in Perms, grants[r, p] # ""
                  PROVE  r \in roles /\ perms[p] # None
      OBVIOUS
    <3>1. <<r, p>> \in RoleIds \X Perms /\ inst.grants[<<r, p>>] # "" /\ <<r, p>>[1] = r
      BY <1>1
    <3>2. perms[p] = inst.keyOf[p]
      BY <1>1
    <3>. QED
      BY <1>1, <1>2, <3>1, <3>2
  <2>. QED
    BY <1>1, <2>1, <2>2 DEF References
<1>. QED
  BY <1>3, <1>4, <1>5 DEF RefInv

\* A step that writes none of the tables.
LEMMA RefsFrame ==
    ASSUME RefInv, UNCHANGED <<inst, tableVars, raced>>, UNCHANGED pc
    PROVE  RefInv'
<1>1. Live' = Live
  BY DEF Live, tableVars
<1>. QED
  BY <1>1 DEF RefInv, RefTypes, PcRefs, ToWrite, References, tableVars

\* Every step keeps the references.
LEMMA RefStep == RefInv /\ [Next]_vars => RefInv'
<1>. SUFFICES ASSUME RefInv, [Next]_vars PROVE RefInv'
  OBVIOUS
<1>1. ASSUME NEW o \in inst.ops, ConsoleCall(o) PROVE RefInv'
  BY <1>1, RolesKeepRefs
<1>2. ASSUME NEW o \in inst.ops, KeyCall(o) PROVE RefInv'
  BY <1>2, KeysKeepRefs
<1>3. ASSUME NEW o \in inst.ops, AppCall(o) PROVE RefInv'
  <2>1. inst' = inst /\ UNCHANGED <<roles, perms, grants, userRoles, defaultRole, akeys, raced>>
    BY <1>3 DEF AppCall, CreateApp, SetAppStatus, SetIMConfig, DeleteApp, Rotate, AppRest, CallRest,
                tableVars, histVars
  <2>2. Live' = Live
    BY <2>1 DEF Live
  <2>3. RefTypes' /\ References'
    BY <2>1, <2>2 DEF RefInv, RefTypes, References
  <2>. QED
    BY <1>3, <2>1, <2>2, <2>3, RolesStay
<1>4. ASSUME SdkPolicy \/ Watch \/ SdkKeys \/ (\E c \in inst.calls : ServerCall(c)) \/ Accounts
      PROVE  RefInv'
  BY <1>4, TablesFrame, RefsFrame
<1>5. CASE UNCHANGED vars
  BY <1>5, RefsFrame DEF vars, authzVars, histVars
<1>6. WatchKeys => Watch
  BY DEF WatchKeys
<1>. QED
  BY <1>1, <1>2, <1>3, <1>4, <1>5, <1>6 DEF Next

\* DeleteRole, checkRoleKey and the transactions of permission.go: whatever calls overlap,
\* an access key is bound to a role that exists, a grant has both its rows, and a user or the
\* application names a role that is gone only if it was deleted between the check and the
\* write of the call that wrote the name.
THEOREM RefsKept == Spec => []References
<1>1. Init => RefInv
  BY RefStart
<1>2. RefInv /\ [Next]_vars => RefInv'
  BY RefStep
<1>3. RefInv => References
  BY DEF RefInv
<1>. QED
  BY <1>1, <1>2, <1>3, PTL DEF Spec

=============================================================================
