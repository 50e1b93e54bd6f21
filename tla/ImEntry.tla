------------------------------ MODULE ImEntry ------------------------------
(***************************************************************************)
(* A client's way into fp-im and out of it.                                *)
(*                                                                         *)
(* The client SDK (sdk/im Client) dials, sends its first frame and waits   *)
(* for the result; when an open connection ends, the close code tells it   *)
(* to reconnect or to give up.  The gateway (wsapi ServeHTTP) loads the    *)
(* application's settings (fpappcfg, one fetch for all who wait), finds    *)
(* out who the client is (fp token, token of the business, guest), runs    *)
(* the handshake of the registry and enters the connection in the hub.     *)
(* fp's revocations arrive on the gateway's Watch stream, and the hub      *)
(* closes the connections that hold the tokens.                            *)
(*                                                                         *)
(* Clients reach one node; when it dies they reach another one that has    *)
(* nothing in memory.  The registry is ImConns, the events of a connection *)
(* are ImServing, the verdict cache of the SDK is RevokePush: here a       *)
(* handshake is let in or not, and a verdict is remembered until an event. *)
(***************************************************************************)
EXTENDS Integers, Sequences, FiniteSets, SequencesExt

CONSTANTS
    Clients, Apps, Tokens,
    MaxTries,          \* connections of one client are numbered up to this
    Minute,            \* window of the guest limiter, in ticks
    Rate,              \* AppConfig.GuestIPRate
    Instances,         \* the instances to consider (see EntryInit)
    None, All          \* no leader, no dispatch; the scope of an event that names no app

EntryConstants ==
    /\ MaxTries \in Nat \ {0} /\ Minute \in Nat \ {0} /\ Rate \in Nat
    /\ None \notin Clients \X (1..MaxTries) /\ All \notin Apps
    /\ None \notin [apps : SUBSET Apps, tokens : SUBSET Tokens]
    /\ \A i \in Instances :
         /\ i.who \in [Clients -> [kind : {"fp", "biz", "guest"}, app : Apps, by : {"id", "code"},
                                   token : Tokens]]
         /\ i.part \subseteq Clients   \* the clients that take part
         /\ i.revokes \subseteq [app : Apps \cup {All}, tokens : SUBSET Tokens] \* what fp revokes
         /\ i.ticks \in Nat            \* bound: the clock
         /\ i.closes \subseteq {4001, 4003, 4004, 4005, 1013} \* codes of closings by the gateway
         /\ i.faults \in Nat           \* bound: faults and closings
         /\ i.kinds \subseteq {"net", "node", "fp", "redis", "full", "biz", "gap", "close", "slow"}
         (* A token of fp is a session of one application, which its revocation names, if it *)
         (* names one.                                                                       *)
         /\ \A c \in Clients : i.who[c].kind = "fp" =>
              /\ \A d \in Clients : (i.who[d].kind = "fp" /\ i.who[d].token = i.who[c].token)
                                       => i.who[d].app = i.who[c].app
              /\ \A e \in i.revokes : i.who[c].token \in e.tokens => e.app \in {All, i.who[c].app}

ASSUME EntryAssumption == EntryConstants

(* Close codes.                                                            *)
AuthFailed     == 4001
PolicyRejected == 4002
Kicked         == 4003
Unavailable    == 4004

Sockets == Clients \X (1..MaxTries)
Names == Apps \X {"id", "code"}

VARIABLES
    inst, now,
    cl,                \* per client: the SDK's loop
    told,              \* per client: the codes OnClose was called with
    link,              \* per connection: the transport
    reply, fin,        \* per connection: the result frame, the close code sent
    h,                 \* per connection: where its ServeHTTP is
    apps, flight,      \* Source.apps: the names cached; per name: who fetches
    cached, stale,     \* tokens the SDK remembers as good; lookups an event overtook
    verdict,           \* per connection: what fp answered
    bizCache,          \* tokens bizauth remembers
    buckets,           \* per app: the guest limiter's bucket (all clients share one IP)
    hubConns, byToken, \* Hub.conns, Hub.byToken
    closure,           \* per connection: the code of wsConn.Close, 0 if not called
    revoked, events,   \* tokens fp revoked; events on the Watch stream
    dispatch,          \* dispatchRevoke: the apps left and the tokens
    mishaps,           \* how many faults happened
    admitted,          \* history: the guests let in, with the time
    late, lost         \* history: connections that passed an event on its way; events lost

clientVars == <<cl, told>>
wireVars   == <<link, reply, fin>>
appVars    == <<apps, flight>>
authVars   == <<cached, stale, verdict, bizCache>>
guestVars  == <<buckets, admitted>>
hubVars    == <<hubConns, byToken, closure>>
revVars    == <<revoked, events, dispatch, lost>>
entryVars == <<inst, now, clientVars, wireVars, h, appVars, authVars, guestVars, hubVars, revVars,
               late, mishaps>>

Who(k)   == inst.who[k[1]]
Name(k)  == <<Who(k).app, Who(k).by>>
Key(k)   == <<Who(k).app, Who(k).token>>
Token(k) == Who(k).token
Current(c) == <<c, cl[c].try>>

NoBucket == [start |-> 0, ids |-> {}]

(* Types; the hub's two tables agree: a connection is listed under the key *)
(* of its token exactly while it is in the table.                          *)
EntryTypeOK ==
    /\ now \in 0..inst.ticks
    /\ \A c \in Clients :
         /\ cl[c].at \in {"new", "dial", "open", "wait", "redial", "failed", "ended"}
         /\ cl[c].try \in 0..MaxTries /\ cl[c].gaveUp \in BOOLEAN /\ cl[c].closed \in BOOLEAN
    /\ link \in [Sockets -> {"none", "up", "cut"}]
    /\ reply \in [Sockets -> {"none", "success", "refused"}]
    /\ h \in [Sockets -> {"none", "frame", "load", "fetch", "join", "verify", "ask", "shake", "add",
                          "hello", "open", "down", "done"}]
    /\ apps \subseteq Names
    /\ \A n \in Names : flight[n] # None => h[flight[n]] = "fetch"
    /\ cached \cup bizCache \cup revoked \cup lost \subseteq Tokens
    /\ \A k \in Sockets : k \in hubConns <=> h[k] \in {"hello", "open", "down"}
    /\ \A x \in Apps \X Tokens : byToken[x] = {k \in hubConns : Who(k).kind # "guest" /\ Key(k) = x}

-----------------------------------------------------------------------------
EntryInit ==
    /\ inst \in Instances
    /\ now = 0
    /\ cl = [c \in Clients |-> [at |-> IF c \in inst.part THEN "new" ELSE "ended", try |-> 0,
                                gaveUp |-> FALSE, closed |-> FALSE]]
    /\ told = [c \in Clients |-> <<>>]
    /\ link = [k \in Sockets |-> "none"] /\ reply = [k \in Sockets |-> "none"]
    /\ fin = [k \in Sockets |-> 0]
    /\ h = [k \in Sockets |-> "none"]
    /\ apps = {} /\ flight = [n \in Names |-> None]
    /\ cached = {} /\ stale = {} /\ bizCache = {} /\ verdict = [k \in Sockets |-> FALSE]
    /\ buckets = [a \in Apps |-> NoBucket] /\ admitted = {}
    /\ hubConns = {} /\ byToken = [x \in Apps \X Tokens |-> {}] /\ closure = [k \in Sockets |-> 0]
    /\ revoked = {} /\ events = <<>> /\ dispatch = None /\ lost = {}
    /\ late = {} /\ mishaps = 0

Mishap(kind) == kind \in inst.kinds /\ mishaps < inst.faults /\ mishaps' = mishaps + 1

Go(k, at) == h' = [h EXCEPT ![k] = at]

-----------------------------------------------------------------------------
(* The client: Dial, runLoop, readUntilClosed, Close.                      *)

ClientRest == UNCHANGED <<inst, now, appVars, authVars, guestVars, hubVars, revVars, late>>

noAutoReconnect(code) == code \in {AuthFailed, PolicyRejected, Kicked}

(* A new connection of the client, which sends the first frame on it.      *)
Connect(c, at) ==
    LET k == <<c, cl[c].try + 1>> IN
    /\ cl[c].try < MaxTries
    /\ cl' = [cl EXCEPT ![c].at = at, ![c].try = @ + 1]
    /\ link' = [link EXCEPT ![k] = "up"]
    /\ Go(k, "frame")
    /\ UNCHANGED <<told, reply, fin, mishaps>> /\ ClientRest

Dial(c) == cl[c].at = "new" /\ Connect(c, "dial")

(* After the back-off, or at once after an idle timeout.                   *)
Redial(c) == cl[c].at = "wait" /\ ~cl[c].closed /\ Connect(c, "redial")

Connected(c) ==
    LET k == Current(c) IN
    /\ cl[c].at \in {"dial", "redial"} /\ link[k] = "up" /\ reply[k] = "success"
    /\ cl' = [cl EXCEPT ![c].at = "open"]
    /\ UNCHANGED <<told, wireVars, h, mishaps>> /\ ClientRest

(* Variant: giving up in a reconnect is not reported.                      *)
GiveUpQuiet(c, code, notify) ==
    /\ cl' = [cl EXCEPT ![c].at = "ended", ![c].gaveUp = TRUE]
    /\ UNCHANGED told

GiveUp(c, code, notify) ==
    /\ cl' = [cl EXCEPT ![c].at = "ended", ![c].gaveUp = TRUE]
    /\ told' = IF notify /\ ~cl[c].closed THEN [told EXCEPT ![c] = Append(@, code)] ELSE told

(* connect returns an error with this close code (-1: none was read).      *)
ConnectFails(c, code) ==
    \/ /\ cl[c].at = "dial"
       /\ cl' = [cl EXCEPT ![c].at = "failed"]
       /\ UNCHANGED told
    \/ /\ cl[c].at = "redial" /\ noAutoReconnect(code)
       /\ GiveUp(c, code, TRUE)
    \/ /\ cl[c].at = "redial" /\ ~noAutoReconnect(code)
       /\ cl' = [cl EXCEPT ![c].at = IF cl[c].closed THEN "ended" ELSE "wait"]
       /\ UNCHANGED told

Refused(c) ==
    LET k == Current(c) IN
    /\ cl[c].at \in {"dial", "redial"} /\ link[k] = "up" /\ reply[k] = "refused"
    /\ ConnectFails(c, fin[k])
    /\ UNCHANGED <<wireVars, h, mishaps>> /\ ClientRest

DialFails(c) ==
    /\ cl[c].at \in {"dial", "redial"} /\ link[Current(c)] = "cut"
    /\ ConnectFails(c, -1)
    /\ UNCHANGED <<wireVars, h, mishaps>> /\ ClientRest

(* readUntilClosed returns: OnClose, then end, give up or reconnect.       *)
Lost(c) ==
    LET k    == Current(c)
        code == IF link[k] = "cut" THEN -1 ELSE fin[k]
    IN
    /\ cl[c].at = "open" /\ code # 0
    /\ told' = IF cl[c].closed THEN told ELSE [told EXCEPT ![c] = Append(@, code)]
    /\ cl' = [cl EXCEPT ![c].at = IF cl[c].closed \/ noAutoReconnect(code) THEN "ended" ELSE "wait",
                        ![c].gaveUp = ~cl[c].closed /\ noAutoReconnect(code)]
    /\ UNCHANGED <<wireVars, h, mishaps>> /\ ClientRest

Close(c) ==
    /\ cl[c].at \in {"open", "wait", "redial"} /\ ~cl[c].closed /\ Mishap("close")
    /\ cl' = [cl EXCEPT ![c].closed = TRUE, ![c].at = IF @ = "wait" THEN "ended" ELSE @]
    /\ link' = [link EXCEPT ![Current(c)] = "cut"]
    /\ UNCHANGED <<told, reply, fin, h>> /\ ClientRest

(* The network, or the client's own timeout of a handshake.                *)
CutLink(k) ==
    /\ link[k] = "up" /\ fin[k] = 0 /\ Mishap("net")
    /\ link' = [link EXCEPT ![k] = "cut"]
    /\ UNCHANGED <<clientVars, reply, fin, h>> /\ ClientRest

-----------------------------------------------------------------------------
(* The gateway: ServeHTTP of connection k.                                 *)

GateRest == UNCHANGED <<inst, now, clientVars, link, revVars>>

(* reject: a result frame and a close frame, for the connections ks.       *)
Reject(ks, code) ==
    /\ reply' = [k \in Sockets |-> IF k \in ks THEN "refused" ELSE reply[k]]
    /\ fin' = [k \in Sockets |-> IF k \in ks THEN code ELSE fin[k]]
    /\ h' = [k \in Sockets |-> IF k \in ks THEN "done" ELSE h[k]]

Admit(ks, at) ==
    /\ h' = [k \in Sockets |-> IF k \in ks THEN at ELSE h[k]]
    /\ UNCHANGED <<reply, fin>>

(* The first frame arrives, does not arrive in time, or the read breaks.   *)
ReadAuthFrame(k) ==
    /\ h[k] = "frame"
    /\ \/ link[k] = "up" /\ Admit({k}, "load") /\ UNCHANGED mishaps
       \/ link[k] = "up" /\ Mishap("slow") /\ Reject({k}, AuthFailed)
       \/ link[k] = "cut" /\ Admit({k}, "done") /\ UNCHANGED mishaps
    /\ UNCHANGED <<appVars, authVars, guestVars, hubVars, late>> /\ GateRest

(* Source.Load: cached, or one fetch per name whose result all share.      *)
Load(k) ==
    LET n == Name(k) IN
    /\ h[k] = "load"
    /\ Admit({k}, IF n \in apps THEN "verify" ELSE IF flight[n] = None THEN "fetch" ELSE "join")
    /\ flight' = IF n \notin apps /\ flight[n] = None THEN [flight EXCEPT ![n] = k] ELSE flight
    /\ UNCHANGED <<apps, authVars, guestVars, hubVars, late, mishaps>> /\ GateRest

(* Variant: only the name asked for is remembered.                         *)
NamesOfOne(k) == {Name(k)}

(* The settings are stored under the name asked for and the application id.*)
NamesOf(k) == {Name(k), <<Who(k).app, "id">>}

(* The leader's fetch returns; an error of any kind refuses all who wait.  *)
Fetched(k) ==
    LET n  == Name(k)
        ks == {k} \cup {j \in Sockets : h[j] = "join" /\ Name(j) = n}
    IN
    /\ h[k] = "fetch"
    /\ flight' = [flight EXCEPT ![n] = None]
    /\ \/ Admit(ks, "verify") /\ apps' = apps \cup NamesOf(k) /\ UNCHANGED mishaps
       \/ Mishap("fp") /\ Reject(ks, PolicyRejected) /\ UNCHANGED apps
    /\ UNCHANGED <<authVars, guestVars, hubVars, late>> /\ GateRest

(* fpauth.Verify: a verdict the SDK remembers, or fp is asked; lookups of  *)
(* one token that overlap share the answer.                                *)
VerifyFp(k) ==
    LET leaders == {j \in Sockets : h[j] = "ask" /\ Who(j).kind = "fp" /\ Token(j) = Token(k)} IN
    /\ h[k] = "verify" /\ Who(k).kind = "fp"
    /\ IF Token(k) \in cached
         THEN Admit({k}, "shake") /\ UNCHANGED <<verdict, stale, late>>
         ELSE /\ Admit({k}, "ask")
              /\ IF leaders = {}
                   THEN verdict' = [verdict EXCEPT ![k] = Token(k) \notin revoked]
                        /\ UNCHANGED <<stale, late>>
                   ELSE LET j == CHOOSE x \in leaders : TRUE IN
                        /\ verdict' = [verdict EXCEPT ![k] = verdict[j]]
                        /\ stale' = IF j \in stale THEN stale \cup {k} ELSE stale
                        /\ late' = IF j \in late THEN late \cup {k} ELSE late
    /\ UNCHANGED <<cached, bizCache, appVars, guestVars, hubVars, mishaps>> /\ GateRest

(* Variant: the handler returns without an answer when fp is not reached.  *)
VerifyAnswerSilent(k) ==
    /\ h[k] = "ask" /\ Who(k).kind = "fp"
    /\ \/ verdict[k] /\ Admit({k}, "shake") /\ UNCHANGED mishaps
          /\ cached' = IF k \in stale THEN cached ELSE cached \cup {Token(k)}
       \/ ~verdict[k] /\ Reject({k}, AuthFailed) /\ UNCHANGED <<cached, mishaps>>
       \/ Mishap("fp") /\ Admit({k}, "done") /\ UNCHANGED cached
    /\ UNCHANGED <<stale, verdict, bizCache, appVars, guestVars, hubVars, late>> /\ GateRest

VerifyAnswer(k) ==
    /\ h[k] = "ask" /\ Who(k).kind = "fp"
    /\ \/ verdict[k] /\ Admit({k}, "shake") /\ UNCHANGED mishaps
          /\ cached' = IF k \in stale THEN cached ELSE cached \cup {Token(k)}
       \/ ~verdict[k] /\ Reject({k}, AuthFailed) /\ UNCHANGED <<cached, mishaps>>
       \/ Mishap("fp") /\ Reject({k}, Unavailable) /\ UNCHANGED cached
    /\ UNCHANGED <<stale, verdict, bizCache, appVars, guestVars, hubVars, late>> /\ GateRest

(* bizauth.Verify: remembered, or the business is asked; its refusal, and  *)
(* its silence.                                                            *)
VerifyBiz(k) ==
    /\ h[k] = "verify" /\ Who(k).kind = "biz"
    /\ \/ Token(k) \in bizCache /\ Admit({k}, "shake") /\ UNCHANGED <<bizCache, mishaps>>
       \/ /\ Token(k) \notin bizCache
          /\ \/ /\ Admit({k}, "shake") /\ UNCHANGED mishaps
                /\ bizCache' = bizCache \cup {Token(k)}
             \/ /\ Mishap("biz") /\ UNCHANGED bizCache
                /\ Reject({k}, AuthFailed) \/ Reject({k}, Unavailable)
    /\ UNCHANGED <<cached, stale, verdict, appVars, guestVars, hubVars, late>> /\ GateRest

(* The bucket the limiter looks at: a new one when the minute is over.     *)
Bucket(a) ==
    IF buckets[a].ids = {} \/ now - buckets[a].start >= Minute
      THEN [start |-> now, ids |-> {}] ELSE buckets[a]

(* Guests.Allow: an id seen before costs nothing.                          *)
VerifyGuest(k) ==
    LET a == Who(k).app
        b == Bucket(a)
        allowed == k[1] \in b.ids \/ Cardinality(b.ids) < Rate
    IN
    /\ h[k] = "verify" /\ Who(k).kind = "guest"
    /\ buckets' = [buckets EXCEPT ![a] = IF allowed THEN [b EXCEPT !.ids = @ \cup {k[1]}] ELSE b]
    /\ IF allowed
         THEN Admit({k}, "shake") /\ admitted' = admitted \cup {[at |-> now, app |-> a, guest |-> k[1]]}
         ELSE Reject({k}, AuthFailed) /\ UNCHANGED admitted
    /\ UNCHANGED <<appVars, authVars, hubVars, late, mishaps>> /\ GateRest

(* Variant: every bucket goes.                                             *)
SweepAll == buckets' = [a \in Apps |-> NoBucket]

Sweep == buckets' = [a \in Apps |-> IF now - buckets[a].start >= Minute THEN NoBucket ELSE buckets[a]]

SweepLoop ==
    /\ \E a \in Apps : buckets[a] # NoBucket
    /\ Sweep
    /\ UNCHANGED <<inst, now, clientVars, wireVars, h, appVars, authVars, admitted, hubVars,
                   revVars, late, mishaps>>

Tick ==
    /\ now < inst.ticks
    /\ now' = now + 1
    /\ UNCHANGED <<inst, clientVars, wireVars, h, appVars, authVars, guestVars, hubVars, revVars,
                   late, mishaps>>

(* The registry's handshake and its policy.                                *)
ServeHandshake(k) ==
    /\ h[k] = "shake"
    /\ \/ Admit({k}, "add") /\ UNCHANGED mishaps
       \/ Mishap("full") /\ Reject({k}, PolicyRejected)
       \/ Mishap("redis") /\ Reject({k}, Unavailable)
    /\ UNCHANGED <<appVars, authVars, guestVars, hubVars, late>> /\ GateRest

HubAddConn(k) ==
    /\ h[k] = "add"
    /\ hubConns' = hubConns \cup {k}
    /\ byToken' = IF Who(k).kind = "guest" THEN byToken
                    ELSE [byToken EXCEPT ![Key(k)] = @ \cup {k}]
    /\ Admit({k}, "hello")
    /\ UNCHANGED <<closure, appVars, authVars, guestVars, late, mishaps>> /\ GateRest

(* The result frame; then writeLoop and readLoop run.                      *)
Hello(k) ==
    /\ h[k] = "hello"
    /\ h' = [h EXCEPT ![k] = IF link[k] = "up" THEN "open" ELSE "down"]
    /\ reply' = [reply EXCEPT ![k] = IF link[k] = "up" THEN "success" ELSE @]
    /\ UNCHANGED <<fin, hubVars, appVars, authVars, guestVars, late, mishaps>> /\ GateRest

(* wsConn.Close: the first code wins.                                      *)
Closed(ks, code) ==
    closure' = [k \in Sockets |-> IF k \in ks /\ closure[k] = 0 THEN code ELSE closure[k]]

(* Kicked, idle, backpressure, shutdown of the node.                       *)
HubCloses(k, code) ==
    /\ k \in hubConns /\ closure[k] = 0 /\ code \in inst.closes
    /\ mishaps < inst.faults /\ mishaps' = mishaps + 1
    /\ Closed({k}, code)
    /\ UNCHANGED <<hubConns, byToken, h, reply, fin, appVars, authVars, guestVars, late>> /\ GateRest

(* writeLoop sends the close frame, which ends readLoop; or the read fails.*)
ReadLoopEnds(k) ==
    /\ h[k] = "open" /\ (closure[k] # 0 \/ link[k] = "cut")
    /\ Go(k, "down")
    /\ fin' = [fin EXCEPT ![k] = closure[k]]
    /\ UNCHANGED <<reply, hubVars, appVars, authVars, guestVars, late, mishaps>> /\ GateRest

Forget(k) == [byToken EXCEPT ![Key(k)] = @ \ {k}]

(* teardown and RemoveConn.                                                *)
Teardown(k) ==
    /\ h[k] = "down"
    /\ hubConns' = hubConns \ {k}
    /\ byToken' = IF Who(k).kind = "guest" THEN byToken ELSE Forget(k)
    /\ Go(k, "done")
    /\ UNCHANGED <<closure, reply, fin, appVars, authVars, guestVars, late, mishaps>> /\ GateRest

(* The node dies; the next connections reach another one.                  *)
NodeDies ==
    /\ Mishap("node")
    /\ link' = [k \in Sockets |-> IF link[k] = "up" /\ h[k] # "done" THEN "cut" ELSE link[k]]
    /\ h' = [k \in Sockets |-> IF h[k] = "none" THEN "none" ELSE "done"]
    /\ apps' = {} /\ flight' = [n \in Names |-> None]
    /\ cached' = {} /\ stale' = {} /\ bizCache' = {}
    /\ buckets' = [a \in Apps |-> NoBucket] /\ admitted' = {}
    /\ hubConns' = {} /\ byToken' = [x \in Apps \X Tokens |-> {}]
    /\ events' = <<>> /\ dispatch' = None
    /\ UNCHANGED <<inst, now, clientVars, reply, fin, verdict, closure, revoked, lost, late>>

-----------------------------------------------------------------------------
(* Revocation: fp, the Watch stream, dispatchRevoke, Hub.OnRevoked.        *)

RevRest == UNCHANGED <<inst, now, clientVars, wireVars, h, appVars, guestVars, hubConns, byToken,
                       verdict, bizCache>>

Revoke(e) ==
    /\ e \in inst.revokes /\ ~(e.tokens \subseteq revoked)
    /\ revoked' = revoked \cup e.tokens
    /\ events' = Append(events, e)
    /\ UNCHANGED <<cached, stale, closure, dispatch, lost, late, mishaps>> /\ RevRest

Asking == {k \in Sockets : h[k] = "ask"}

(* Source.Apps: the ids among the names cached.                            *)
AppIDs == {a \in Apps : <<a, "id">> \in apps}

(* onRevoke: the cache first, then dispatchRevoke, for the event's app or  *)
(* for all the gateway knows.                                              *)
OnRevoke ==
    /\ dispatch = None /\ events # <<>>
    /\ LET e == Head(events) IN
       /\ cached' = cached \ e.tokens
       /\ dispatch' = [apps |-> IF e.app = All THEN AppIDs ELSE {e.app}, tokens |-> e.tokens]
    /\ stale' = stale \cup Asking
    /\ events' = Tail(events)
    /\ UNCHANGED <<closure, revoked, lost, late, mishaps>> /\ RevRest

(* Connections with a good verdict of a revoked token, not yet in the hub. *)
OnTheWay(a, ts) ==
    {k \in Sockets : /\ Who(k).kind = "fp" /\ Who(k).app = a /\ Token(k) \in ts
                     /\ (h[k] = "ask" /\ verdict[k]) \/ h[k] \in {"shake", "add"}}

OnRevoked ==
    /\ dispatch # None
    /\ IF dispatch.apps = {}
         THEN dispatch' = None /\ UNCHANGED <<closure, late>>
         ELSE \E a \in dispatch.apps :
                /\ dispatch' = [dispatch EXCEPT !.apps = @ \ {a}]
                /\ Closed(UNION {byToken[<<a, t>>] : t \in dispatch.tokens}, AuthFailed)
                /\ late' = late \cup OnTheWay(a, dispatch.tokens)
    /\ UNCHANGED <<cached, stale, revoked, events, lost, mishaps>> /\ RevRest

(* The Watch stream breaks, or fp orders a purge: what was on its way is   *)
(* lost, and only the cache is emptied.                                    *)
StreamGap ==
    /\ Mishap("gap") /\ events # <<>>
    /\ lost' = lost \cup UNION {events[i].tokens : i \in DOMAIN events}
    /\ events' = <<>>
    /\ cached' = {} /\ stale' = stale \cup Asking
    /\ UNCHANGED <<closure, revoked, dispatch, late>> /\ RevRest

-----------------------------------------------------------------------------
ClientStep(c) == Redial(c) \/ Connected(c) \/ Refused(c) \/ DialFails(c) \/ Lost(c)
Verify(k) == VerifyFp(k) \/ VerifyAnswer(k) \/ VerifyBiz(k) \/ VerifyGuest(k)
Serve(k) == ReadAuthFrame(k) \/ Load(k) \/ Fetched(k) \/ Verify(k) \/ ServeHandshake(k) \/ HubAddConn(k)
              \/ Hello(k) \/ ReadLoopEnds(k) \/ Teardown(k)
Revocation == OnRevoke \/ OnRevoked

EntryNext ==
    \/ \E c \in Clients : Dial(c) \/ ClientStep(c) \/ Close(c)
    \/ \E k \in Sockets : Serve(k) \/ CutLink(k) \/ \E code \in inst.closes : HubCloses(k, code)
    \/ \E e \in inst.revokes : Revoke(e)
    \/ Revocation \/ StreamGap \/ NodeDies \/ SweepLoop \/ Tick

(* Goroutines run on, back-offs end, close frames and results arrive.  The *)
(* connections are finitely many, so it is enough that some goroutine of   *)
(* each side runs when one can.                                            *)
Fairness ==
    /\ WF_entryVars(\E c \in Clients : ClientStep(c))
    /\ WF_entryVars(\E k \in Sockets : Serve(k))

EntrySpec == EntryInit /\ [][EntryNext]_entryVars /\ Fairness

-----------------------------------------------------------------------------
(* Once the gateway has dispatched a revocation, no connection with the    *)
(* token stays open, whatever name of the application it was opened with   *)
(* and whatever other connections of the token came and went.  Excepted are*)
(* handshakes that had a good verdict and were not yet in the hub          *)
(* (push.go: OnRevoked finds only what is there), and events a gap lost.   *)
RevokedIsClosed ==
    \A k \in hubConns \ late :
        (Who(k).kind = "fp" /\ Token(k) \in revoked \ lost /\ events = <<>> /\ dispatch = None)
            => closure[k] # 0

(* A client that gave up told its owner so, exactly once, with the code    *)
(* that made it give up, also when that happened in a reconnect.           *)
GiveUpReported ==
    \A c \in Clients :
        (cl[c].gaveUp /\ ~cl[c].closed) =>
            /\ told[c] # <<>> /\ noAutoReconnect(Last(told[c]))
            /\ \A i \in 1..(Len(told[c]) - 1) : ~noAutoReconnect(told[c][i])

(* However the limiter's windows lie and buckets are swept, no minute lets *)
(* in more than two windows' worth of different guests of one address.     *)
GuestsBounded ==
    \A a \in Apps, t \in 0..now :
        Cardinality({x.guest : x \in {y \in admitted : y.app = a /\ y.at \in t..(t + Minute - 1)}})
            <= 2 * Rate

(* A client that lost its connection is connected again, unless its owner  *)
(* closed it, or a code that means giving up reached it, and then the owner*)
(* was told.  The 4002 that answers an outage of fp in Load is such a code *)
(* for the client, and the reason why OutageIsTransient fails.             *)
ClientReturns ==
    \A c \in Clients :
        cl[c].at = "wait" ~>
            \/ cl[c].at = "open" \/ cl[c].closed
            \/ cl[c].gaveUp /\ told[c] # <<>> /\ noAutoReconnect(Last(told[c]))

(* What a comment of the repository says and the code does not keep, so    *)
(* that TLC refutes it (README, section 6).  CloseUnavailable: "the        *)
(* backends the gateway depends on (identity service, registry) are        *)
(* unavailable for the moment.  Reconnect after a back-off."  Where nothing*)
(* else can go wrong, no client gives up.                                  *)
OnlyOutages ==
    /\ inst.revokes = {} /\ inst.closes \subseteq {Unavailable, 4005, 1013}
    /\ inst.kinds \subseteq {"net", "node", "fp", "redis"}
    /\ \A c \in inst.part : inst.who[c].kind = "fp"

OutageIsTransient == OnlyOutages => \A c \in Clients : ~cl[c].gaveUp

=============================================================================
