------------------------------- MODULE SignIn -------------------------------
(***************************************************************************)
(* Signing in with a login code or through a third party (WeChat), and the *)
(* identities both write: LoginCodeService (logincode.go), RateLimiter,    *)
(* the OAuth half of AuthService (auth_oauth.go, oauth_store.go), and      *)
(* UserService's identity table (user.go, user_link.go).                   *)
(*                                                                         *)
(* Each flow is one StartOAuth with the profile its                        *)
(* provider will return.  Requests are handled concurrently; a step is one *)
(* Redis script or command, or one transaction.  What completeLogin does   *)
(* with sessions is in LoginFence.                                         *)
(***************************************************************************)
EXTENDS Integers, FiniteSets

CONSTANTS
    Flows, Deliver,      \* the flows and how each returns its result
    Subject, UnionKey,   \* the profile of each flow: openid and unionid
    Phones,              \* phone numbers
    Callbacks, Requests, \* the provider's calls; login and bind requests
    InitIds,             \* the identity tables to begin with
    Instances,           \* the instances to check, one of which is inst
    MaxTries,            \* MaxVerifyAttempts
    MaxCodes             \* bound: codes sent

ASSUME SignInAssumption ==
    /\ Deliver \in [Flows -> {"web", "poll"}]
    /\ DOMAIN Subject = Flows /\ DOMAIN UnionKey = Flows
    /\ MaxTries \in Nat \ {0} /\ MaxCodes \in Nat
    /\ "none" \notin Flows
    /\ \A i \in Instances : i.ttl \in Nat \ {0} /\ i.phones \subseteq Phones

(* The tables to begin with: users are numbered from 1, only third-party   *)
(* identities have a union key, and its rows are of one account.           *)
ASSUME TableAssumption ==
    \A t \in InitIds :
        /\ IsFiniteSet(t)
        /\ \A i \in t : /\ i.id \in Nat /\ i.user \in Nat \ {0}
                        /\ i.type = "phone" => i.union = ""
        /\ \A i, j \in t : i.union # "" /\ i.union = j.union => i.user = j.user

VARIABLES
    inst,       \* the flows that start, the phones used, the limits of the rate rules (the shortest
                \* window first), the life of a code, whether wrong codes are
                \* tried, and how many steps may fail; never changes
    code,       \* Redis, per phone: the code sent, its tries and what is left of both lives
    minted,     \* codes made so far; a code is its number
    window,     \* Redis, per phone: the counter of each rate rule
    flow,       \* Redis: state, done, result, ticket and bind of each flow
    cb, req,    \* the callbacks and the requests under way
    ids,        \* table identity
    serial,     \* ids and users handed out by the database
    faults,
    tried, used,         \* history: tries and successes of each code
    exchanged, logins    \* history, per flow: exchanges with the provider; logins

codes   == <<code, minted, window, tried, used>>
Rules   == inst.rules
CodeTTL == inst.ttl
table   == <<ids, serial>>
history == <<exchanged, logins>>
vars    == <<inst, codes, flow, cb, req, table, faults, history>>

NoCode == [val |-> 0, ttl |-> 0, tries |-> 0, tryTTL |-> 0]
NoFlow == [state |-> FALSE, done |-> FALSE, result |-> "none", ticket |-> "none",
           bind |-> FALSE]
Idle   == [pc |-> "idle", flow |-> "none", phone |-> "none", out |-> "none", user |-> 0, id |-> 0,
           found |-> FALSE, gone |-> {}, again |-> FALSE]

Init ==
    /\ inst \in Instances
    /\ code = [n \in Phones |-> NoCode] /\ minted = 0
    /\ window = [n \in Phones |-> [i \in DOMAIN Rules |-> 0]]
    /\ flow = [f \in Flows |-> NoFlow]
    /\ cb = [c \in Callbacks |-> Idle] /\ req = [r \in Requests |-> Idle]
    /\ ids \in InitIds /\ serial = Cardinality(ids) + 1
    /\ faults = 0
    /\ tried = [c \in 1..MaxCodes |-> 0] /\ used = tried
    /\ exchanged = [f \in Flows |-> 0] /\ logins = exchanged

-----------------------------------------------------------------------------
(* Login codes                                                             *)

(* RateLimiter.Allow: a counter that lives for the rule's window.          *)
Allow(n, i) == window[n][i] < Rules[i]

(* AllowSend asks the rules in order and counts up to the first refusal.   *)
AllowSend(n) ==
    LET refused == {i \in DOMAIN Rules : ~Allow(n, i)} IN
    window' = [window EXCEPT ![n] = [i \in DOMAIN Rules |->
                  IF \A j \in refused : i <= j THEN @[i] + 1 ELSE @[i]]]

(* Variant: a code sent again keeps the old expiry of its tries.           *)
IssueKeepsTries(old, fresh) ==
    IF old.val # 0 /\ old.tries < MaxTries THEN [old EXCEPT !.ttl = CodeTTL]
    ELSE [val |-> fresh, ttl |-> CodeTTL, tries |-> 0, tryTTL |-> 0]

(* issueScript: a live code with tries left is sent again, and its tries   *)
(* live as long as it does; otherwise a fresh code starts without tries.   *)
Issue(old, fresh) ==
    IF old.val # 0 /\ old.tries < MaxTries
    THEN [old EXCEPT !.ttl = CodeTTL, !.tryTTL = IF old.tries > 0 THEN CodeTTL ELSE 0]
    ELSE [val |-> fresh, ttl |-> CodeTTL, tries |-> 0, tryTTL |-> 0]

(* SendLoginCode.  Sending the message may fail; the code stays.           *)
SendLoginCode(n) ==
    LET sent == Issue(code[n], minted + 1) IN
    /\ minted < MaxCodes /\ n \in inst.phones
    /\ \A i \in DOMAIN Rules : window[n][i] <= Rules[i]
    /\ AllowSend(n)
    /\ IF \A i \in DOMAIN Rules : Allow(n, i)
       THEN /\ code' = [code EXCEPT ![n] = sent]
            /\ minted' = IF sent.val > minted THEN minted + 1 ELSE minted
       ELSE UNCHANGED <<code, minted>>
    /\ UNCHANGED <<flow, cb, req, table, faults, tried, used, history>>

(* The window of a rule ends.                                              *)
WindowEnds(n, i) ==
    /\ window[n][i] > 0 /\ window' = [window EXCEPT ![n][i] = 0]
    /\ UNCHANGED <<code, minted, tried, used, flow, cb, req, table, faults, history>>

(* Time passes for the code and its tries.                                 *)
Older(c) ==
    LET left == [c EXCEPT !.ttl = @ - 1] IN
    IF c.ttl = 1 THEN NoCode
    ELSE IF c.tryTTL = 1 THEN [left EXCEPT !.tries = 0, !.tryTTL = 0]
    ELSE IF c.tryTTL = 0 THEN left
    ELSE [left EXCEPT !.tryTTL = @ - 1]

Tick(n) ==
    /\ code[n].val # 0
    /\ code' = [code EXCEPT ![n] = Older(@)]
    /\ UNCHANGED <<minted, window, tried, used, flow, cb, req, table, faults, history>>

(* verifyScript, with the right code or a wrong one: count the try, refuse *)
(* beyond MaxTries, and delete both keys on a match.                       *)
Verify(n, right) ==
    LET val == code[n].val  tries == code[n].tries + 1
        left == IF tries > MaxTries \/ right THEN NoCode
                ELSE [code[n] EXCEPT !.tries = tries, !.tryTTL = IF tries = 1 THEN CodeTTL ELSE @] IN
    \/ val = 0 /\ UNCHANGED <<code, tried, used>>
    \/ /\ val # 0
       /\ code' = [code EXCEPT ![n] = left]
       /\ IF tries > MaxTries THEN UNCHANGED <<tried, used>>
          ELSE /\ tried' = [tried EXCEPT ![val] = @ + 1]
               /\ used' = [used EXCEPT ![val] = IF right THEN @ + 1 ELSE @]

Verified(n) == code[n].val # 0 /\ code[n].tries < MaxTries

(* A login or a bind with a wrong code ends here.                          *)
WrongCode(n) ==
    /\ inst.guesses /\ Verify(n, FALSE)
    /\ UNCHANGED <<minted, window, flow, cb, req, table, faults, history>>

-----------------------------------------------------------------------------
(* The identity table                                                      *)

Row(i, t, s, k, u) == [id |-> i, type |-> t, subject |-> s, union |-> k, user |-> u]
FindByIdentity(t, s) == {i \in ids : i.type = t /\ i.subject = s}
FindByUnionKey(k) == {i \in ids : k # "" /\ i.union = k}
ThirdPartyOwner(f) ==
    LET own == FindByIdentity("wechat", Subject[f]) IN
    IF own # {} THEN own ELSE FindByUnionKey(UnionKey[f])
HasPhone(u) == \E i \in ids : i.user = u /\ i.type = "phone"
Phone(n) == FindByIdentity("phone", n)

Set(r, new) == req' = [req EXCEPT ![r] = new]
Go(r, pc) == Set(r, [req[r] EXCEPT !.pc = pc])

(* The advisory locks a transaction of LinkPhone holds: on the phone and   *)
(* on the union key.                                                       *)
Linking == {r \in Requests : req[r].pc = "linking"}
UnionLocked(k) == k # "" /\ \E r \in Linking : UnionKey[req[r].flow] = k
PhoneLocked(n) == \E r \in Linking : req[r].phone = n

(* Login with sms_code: SMSCodeConnector.Authenticate verifies the code.   *)
Login(r, n) ==
    /\ req[r].pc = "idle"
    /\ Verify(n, TRUE)
    /\ Set(r, IF Verified(n) THEN [req[r] EXCEPT !.pc = "find", !.phone = n] ELSE Idle)
    /\ UNCHANGED <<minted, window, flow, cb, table, faults, history>>

(* EnsureUserWithIdentity: look the phone up ...                           *)
EnsureFind(r) ==
    /\ req[r].pc = "find"
    /\ IF Phone(req[r].phone) = {} THEN Go(r, "insert")
       ELSE \E i \in Phone(req[r].phone) : Set(r, [req[r] EXCEPT !.pc = "complete", !.user = i.user, !.id = i.id])
    /\ UNCHANGED <<codes, flow, cb, table, faults, history>>

(* A unique violation rolls back, and the transaction is tried once more.  *)
Conflict(r, pc) ==
    Set(r, IF req[r].again THEN Idle
           ELSE [req[r] EXCEPT !.pc = pc, !.again = TRUE, !.gone = {}])

(* ... and insert user and identity.                                       *)
EnsureInsert(r) ==
    /\ req[r].pc = "insert"
    /\ \/ Phone(req[r].phone) # {} /\ Conflict(r, "find") /\ UNCHANGED table
       \/ /\ Phone(req[r].phone) = {}
          /\ ids' = ids \cup {Row(serial, "phone", req[r].phone, "", serial)}
          /\ serial' = serial + 1
          /\ Set(r, [req[r] EXCEPT !.pc = "complete", !.user = serial, !.id = serial])
    /\ UNCHANGED <<codes, flow, cb, faults, history>>

(* completeLogin: TouchIdentityLogin fails when the identity is gone.      *)
CompleteLogin(r) ==
    LET f == req[r].flow
        there == \E i \in ids : i.id = req[r].id IN
    /\ req[r].pc = "complete"
    /\ Set(r, IF there THEN [req[r] EXCEPT !.pc = "in"] ELSE Idle)
    /\ logins' = IF there /\ f \in Flows THEN [logins EXCEPT ![f] = @ + 1] ELSE logins
    /\ UNCHANGED <<codes, flow, cb, table, faults, exchanged>>

-----------------------------------------------------------------------------
(* The OAuth flow                                                          *)

SetFlow(f, new) == flow' = [flow EXCEPT ![f] = new]

(* StartOAuth: putState.                                                   *)
StartOAuth(f) ==
    /\ f \in inst.flows
    /\ flow[f] = NoFlow /\ exchanged[f] = 0
    /\ SetFlow(f, [NoFlow EXCEPT !.state = TRUE])
    /\ UNCHANGED <<codes, cb, req, table, faults, history>>

(* HandleOAuthCallback: getState ...                                       *)
CallbackState(c, f) ==
    /\ cb[c].pc = "idle" /\ flow[f].state
    /\ cb' = [cb EXCEPT ![c].pc = "claim", ![c].flow = f]
    /\ UNCHANGED <<codes, flow, req, table, faults, history>>

(* Variant: the claim does not look whether another callback has it.       *)
ClaimAlways(c) ==
    /\ cb[c].pc = "claim"
    /\ SetFlow(cb[c].flow, [flow[cb[c].flow] EXCEPT !.done = TRUE])
    /\ cb' = [cb EXCEPT ![c].pc = "exchange"]
    /\ UNCHANGED <<codes, req, table, faults, history>>

(* ... claimCallback (SETNX) ...                                           *)
ClaimCallback(c) ==
    LET f == cb[c].flow IN
    /\ cb[c].pc = "claim"
    /\ cb' = [cb EXCEPT ![c].pc = IF flow[f].done THEN "expired" ELSE "exchange"]
    /\ SetFlow(f, [flow[f] EXCEPT !.done = TRUE])
    /\ UNCHANGED <<codes, req, table, faults, history>>

(* What the provider makes of an authorisation code.                       *)
Exchange == {"ok", "failed"}

(* ... exchangeCode: without a code the user has cancelled ...             *)
ExchangeCode(c) ==
    /\ cb[c].pc = "exchange"
    /\ \E out \in Exchange \cup {"cancelled"} :
          /\ cb' = [cb EXCEPT ![c].pc = "deliver", ![c].out = out]
          /\ exchanged' = [exchanged EXCEPT ![cb[c].flow] = IF out = "cancelled" THEN @ ELSE @ + 1]
    /\ UNCHANGED <<codes, flow, req, table, faults, logins>>

(* ... and putResult, or deleteState and putTicket; both may fail.         *)
DeliverResult(c) ==
    LET f == cb[c].flow  out == cb[c].out
        gone == [flow[f] EXCEPT !.state = FALSE] IN
    /\ cb[c].pc = "deliver" /\ cb' = [cb EXCEPT ![c].pc = "done"]
    /\ \/ /\ SetFlow(f, CASE Deliver[f] = "poll" -> [flow[f] EXCEPT !.result = out]
                          [] Deliver[f] = "web" /\ out = "ok" -> [gone EXCEPT !.ticket = "ok"]
                          [] OTHER -> gone)
          /\ UNCHANGED faults
       \/ /\ faults < inst.faults /\ faults' = faults + 1
          /\ SetFlow(f, IF Deliver[f] = "poll" THEN flow[f] ELSE gone)
    /\ UNCHANGED <<codes, req, table, history>>

(* Keys expire; done and result outlive the state they were written for,   *)
(* and a callback is over by then.                                         *)
Expire(f) ==
    /\ \/ flow[f].state /\ SetFlow(f, [flow[f] EXCEPT !.state = FALSE])
       \/ flow[f].ticket # "none" /\ SetFlow(f, [flow[f] EXCEPT !.ticket = "none"])
       \/ flow[f].bind /\ SetFlow(f, [flow[f] EXCEPT !.bind = FALSE])
       \/ /\ ~flow[f].state /\ flow[f].done
          /\ \A c \in Callbacks : cb[c].flow = f => cb[c].pc \in {"done", "expired"}
          /\ SetFlow(f, [flow[f] EXCEPT !.done = FALSE, !.result = "none"])
    /\ UNCHANGED <<codes, cb, req, table, faults, history>>

(* PollOAuth: takeResult is GETDEL, and the state goes with it.            *)
PollOAuth(r, f) ==
    /\ req[r].pc = "idle" /\ flow[f].state /\ flow[f].result # "none"
    /\ Deliver[f] = "poll"
    /\ Set(r, [req[r] EXCEPT !.pc = "settle", !.flow = f, !.out = flow[f].result])
    /\ SetFlow(f, [flow[f] EXCEPT !.result = "none", !.state = FALSE])
    /\ UNCHANGED <<codes, cb, table, faults, history>>

(* ExchangeOAuth: takeTicket is GETDEL; a ticket of another application is *)
(* refused after it was taken.                                             *)
ExchangeOAuth(r, f) ==
    /\ req[r].pc = "idle" /\ flow[f].ticket # "none"
    /\ \E own \in BOOLEAN :
          Set(r, IF own THEN [req[r] EXCEPT !.pc = "settle", !.flow = f, !.out = flow[f].ticket]
                 ELSE Idle)
    /\ SetFlow(f, [flow[f] EXCEPT !.ticket = "none"])
    /\ UNCHANGED <<codes, cb, table, faults, history>>

(* Variant: settle lets a user without a phone in.                         *)
SettlePhoneless(r) ==
    LET f == req[r].flow
        own == FindByIdentity("wechat", Subject[f]) IN
    /\ req[r].pc = "settle" /\ req[r].out = "ok"
    /\ \E i \in own : Set(r, [req[r] EXCEPT !.pc = "complete", !.user = i.user, !.id = i.id])
    /\ UNCHANGED <<codes, flow, cb, table, faults, history>>

(* settle: the owner of the identity, or of its union key, logs in if he   *)
(* has a phone; everyone else gets a bind ticket.                          *)
Settle(r) ==
    LET f == req[r].flow
        own == FindByIdentity("wechat", Subject[f])
        cand == ThirdPartyOwner(f) IN
    /\ req[r].pc = "settle"
    /\ IF req[r].out # "ok" THEN Set(r, Idle) /\ UNCHANGED flow
       ELSE \/ /\ ~\E i \in cand : HasPhone(i.user)
               /\ Set(r, Idle) /\ SetFlow(f, [flow[f] EXCEPT !.bind = TRUE])
            \/ \E i \in cand :
                  /\ HasPhone(i.user)
                  /\ Set(r, IF own # {}
                            THEN [req[r] EXCEPT !.pc = "complete", !.user = i.user, !.id = i.id]
                            ELSE [req[r] EXCEPT !.pc = "attach", !.user = i.user])
                  /\ UNCHANGED flow
    /\ UNCHANGED <<codes, cb, table, faults, history>>

(* AttachIdentity: under the lock of the union key, whose owner must be    *)
(* this user.                                                              *)
AttachIdentity(r) ==
    LET f == req[r].flow
        taken == \/ \E i \in FindByUnionKey(UnionKey[f]) : i.user # req[r].user
                 \/ FindByIdentity("wechat", Subject[f]) # {} IN
    /\ req[r].pc = "attach" /\ ~UnionLocked(UnionKey[f])
    /\ \/ taken /\ Set(r, Idle) /\ UNCHANGED table
       \/ /\ ~taken
          /\ ids' = ids \cup {Row(serial, "wechat", Subject[f], UnionKey[f], req[r].user)}
          /\ serial' = serial + 1
          /\ Set(r, [req[r] EXCEPT !.pc = "complete", !.id = serial])
    /\ UNCHANGED <<codes, flow, cb, faults, history>>

-----------------------------------------------------------------------------
(* BindPhone: peekBind, verify the code, takeBind (GETDEL), LinkPhone.     *)
BindPhone(r, f, n) ==
    /\ req[r].pc = "idle" /\ flow[f].bind
    /\ Set(r, [req[r] EXCEPT !.pc = "verify", !.flow = f, !.phone = n])
    /\ UNCHANGED <<codes, flow, cb, table, faults, history>>

BindVerify(r) ==
    /\ req[r].pc = "verify"
    /\ Verify(req[r].phone, TRUE)
    /\ Set(r, IF Verified(req[r].phone) THEN [req[r] EXCEPT !.pc = "take"] ELSE Idle)
    /\ UNCHANGED <<minted, window, flow, cb, table, faults, history>>

TakeBind(r) ==
    LET f == req[r].flow IN
    /\ req[r].pc = "take"
    /\ Set(r, IF flow[f].bind THEN [req[r] EXCEPT !.pc = "link"] ELSE Idle)
    /\ SetFlow(f, [flow[f] EXCEPT !.bind = FALSE])
    /\ UNCHANGED <<codes, cb, table, faults, history>>

(* What the deletes of linkPhoneOnce remove: the other third-party         *)
(* identities of account u with all that shares their union key, and this  *)
(* identity and its union key on other accounts.                           *)
Replaced(u, f) ==
    LET other == {i \in ids : i.user = u /\ i.type = "wechat" /\ i.subject # Subject[f]}
        shared == {i \in ids : i.user = u /\ i.union # "" /\ i.union # UnionKey[f]
                               /\ \E o \in other : o.union = i.union}
        elsewhere == {i \in ids : i.user # u /\ \/ i.type = "wechat" /\ i.subject = Subject[f]
                                                \/ UnionKey[f] # "" /\ i.union = UnionKey[f]} IN
    other \cup shared \cup elsewhere

(* The transaction up to its commit: the account is the owner of the       *)
(* phone, or else of the third-party identity, or a new one (0).           *)
LinkPhoneTx(r) ==
    LET f == req[r].flow
        phone == Phone(req[r].phone)
        cand == IF phone # {} THEN phone ELSE ThirdPartyOwner(f) IN
    \E u \in IF cand = {} THEN {0} ELSE {i.user : i \in cand} :
        Set(r, [req[r] EXCEPT !.pc = "linking", !.user = u, !.found = (phone # {}),
                              !.gone = Replaced(u, f)])

(* Variant: the union key is not locked.                                   *)
LinkPhoneUnlocked(r) ==
    /\ req[r].pc = "link" /\ ~PhoneLocked(req[r].phone)
    /\ LinkPhoneTx(r)
    /\ UNCHANGED <<codes, flow, cb, table, faults, history>>

(* linkPhoneOnce under the locks of phone and union key ...                *)
LinkPhone(r) ==
    /\ req[r].pc = "link" /\ ~PhoneLocked(req[r].phone) /\ ~UnionLocked(UnionKey[req[r].flow])
    /\ LinkPhoneTx(r)
    /\ UNCHANGED <<codes, flow, cb, table, faults, history>>

(* ... commits what is deleted and what was missing; a phone that a login  *)
(* inserted meanwhile is a conflict.                                       *)
LinkCommit(r) ==
    LET f == req[r].flow  n == req[r].phone
        u == IF req[r].user = 0 THEN serial ELSE req[r].user
        kept == ids \ req[r].gone
        phone == IF req[r].found THEN {} ELSE {Row(serial, "phone", n, "", u)}
        own == {i \in kept : i.type = "wechat" /\ i.subject = Subject[f]}
        wechat == IF own # {} THEN {} ELSE {Row(serial + 1, "wechat", Subject[f], UnionKey[f], u)} IN
    /\ req[r].pc = "linking"
    /\ \/ ~req[r].found /\ Phone(n) # {} /\ Conflict(r, "link") /\ UNCHANGED table
       \/ /\ req[r].found \/ Phone(n) = {}
          /\ ids' = kept \cup phone \cup wechat
          /\ serial' = serial + 2
          /\ \E i \in own \cup wechat :
                Set(r, [req[r] EXCEPT !.pc = "complete", !.user = u, !.id = i.id, !.gone = {}])
    /\ UNCHANGED <<codes, flow, cb, faults, history>>

(* A request fails for a reason of its own: Redis, Postgres, a timeout.    *)
Fail(r) ==
    /\ req[r].pc \notin {"idle", "in"}
    /\ faults < inst.faults /\ faults' = faults + 1
    /\ Set(r, Idle)
    /\ UNCHANGED <<codes, flow, cb, table, history>>

-----------------------------------------------------------------------------
(* The callers: the provider's redirect, the operations of the SDK's       *)
(* OAuthHandler, the RPCs behind them, and login with a code.              *)
OAuthCallback(c) ==
    \/ \E f \in Flows : CallbackState(c, f)
    \/ ClaimCallback(c) \/ ExchangeCode(c) \/ DeliverResult(c)

OAuthHandler(r) ==
    \/ \E f \in Flows : PollOAuth(r, f) \/ ExchangeOAuth(r, f)
    \/ \E f \in Flows, n \in inst.phones : BindPhone(r, f, n)

OAuthService(r) ==
    \/ Settle(r) \/ AttachIdentity(r)
    \/ BindVerify(r) \/ TakeBind(r) \/ LinkPhone(r) \/ LinkCommit(r)

ResolveUser(r) == EnsureFind(r) \/ EnsureInsert(r)

Step ==
    \/ \E n \in Phones :
          \/ SendLoginCode(n) \/ Tick(n) \/ WrongCode(n)
          \/ \E i \in DOMAIN Rules : WindowEnds(n, i)
    \/ \E f \in Flows : StartOAuth(f) \/ Expire(f)
    \/ \E c \in Callbacks : OAuthCallback(c)
    \/ \E r \in Requests :
          \/ OAuthHandler(r) \/ OAuthService(r)
          \/ \E n \in Phones : Login(r, n)
          \/ ResolveUser(r) \/ CompleteLogin(r) \/ Fail(r)

Next == Step /\ UNCHANGED inst
Spec == Init /\ [][Next]_vars

-----------------------------------------------------------------------------
(* Types of the variables.                                                 *)
TypeOK ==
    /\ \A n \in Phones : /\ code[n].val \in 0..minted /\ code[n].ttl \in 0..CodeTTL
                         /\ code[n].tries \in 0..MaxTries /\ code[n].tryTTL \in 0..CodeTTL
    /\ minted \in 0..MaxCodes /\ faults \in 0..inst.faults
    /\ \A n \in Phones, i \in DOMAIN Rules : window[n][i] \in 0..Rules[i] + 1
    /\ \A i \in ids : i.id < serial /\ i.user < serial
    /\ \A i, j \in ids : (i.type = j.type /\ i.subject = j.subject) \/ i.id = j.id => i = j

(* verifyScript and issueScript: however sending, expiry and guesses       *)
(* interleave, one code is compared at most MaxVerifyAttempts times and    *)
(* succeeds at most once.                                                  *)
TriesBounded == \A c \in 1..MaxCodes : tried[c] <= MaxTries /\ used[c] <= 1

(* lockUnionKeyTx: concurrent attaches and links leave every union key     *)
(* with one account.                                                       *)
UnionKeyOneOwner == \A i, j \in ids : i.union # "" /\ i.union = j.union => i.user = j.user

(* claimCallback, takeResult, takeTicket, takeBind and settle: whatever is *)
(* delivered twice, one flow exchanges the provider's code once and logs in*)
(* once, and nobody who has no phone.                                      *)
OneLoginPerFlow ==
    /\ \A f \in Flows : exchanged[f] <= 1 /\ logins[f] <= 1
    /\ \A r \in Requests : req[r].pc = "in" => HasPhone(req[r].user)
=============================================================================
