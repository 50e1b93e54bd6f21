----------------------------- MODULE AccessKeys -----------------------------
(***************************************************************************)
(* Access keys: the rows that the console writes (service/accesskey.go),   *)
(* the copy of them in the SDK's verdict cache, and a request that is      *)
(* signed with a key, from the SDK's middleware to the decision            *)
(* (sdk/middleware.go, accesskey.go, fpchi.go), with the table of nonces   *)
(* (nonce.go) and the reports of last use (usage.go).                      *)
(*                                                                         *)
(* Requests of users and of nobody share the decision; how a token is      *)
(* validated is SessionLifecycle and RevokePush.  Signing is not computed: *)
(* a request either has the signature of its key or not.  How long an entry*)
(* of the cache stays fresh is left open: it may be used, passed over, or  *)
(* gone at any time.                                                       *)
(***************************************************************************)
EXTENDS Authz

CONSTANTS
    Window,            \* signatureWindow
    NonceCapacity,
    Minute             \* what record truncates to, in ticks of the clock

ASSUME KeyAssumption ==
    /\ Window \in Nat \ {0} /\ NonceCapacity \in Nat \ {0} /\ Minute \in Nat \ {0}
    /\ None \notin [AKs -> Nat]
    /\ \A i \in Instances :
         /\ i.ticks \in Nat            \* bound: the clock stops at Minute + ticks
         /\ i.stale \in BOOLEAN        \* AllowStaleOnOutage
         /\ i.flushers \subseteq {"every", "close"} \* whether uses are reported, the client closed
         /\ IsFiniteSet(i.reqs)        \* the requests that arrive
         /\ \A q \in i.reqs : q.ak \in AKs /\ q.ts \in Int
         \* Create makes up an identifier that no key has had
         /\ \A o, p \in i.ops :
              o.do = "createKey" => /\ i.keys[o.ak] = "absent"
                                    /\ p.do = "createKey" /\ p.ak = o.ak => p = o

VARIABLES
    clock,
    cache,             \* per key: the role in its entry, Absent without one
    flight,            \* per key: the GetAccessKey under way, None without one
    slipped,           \* history: keys written back after the test of putIfGen
    rq,                \* per request: where it is, the time it read, its roles
    nonces,            \* nonceStore.seen
    accepted,          \* history: the requests that passed the table, and when
    last, batch,       \* usageRecorder.last; per flusher: the batch it took
    used,              \* access_key.last_used_at
    seen,              \* history: the latest use recorded
    closed

keyVars == <<clock, cache, flight, slipped, rq, nonces, accepted, last, batch, used, seen, closed>>

Absent == "absent"
Flushers == {"every", "close"}
NoUse == [k \in AKs |-> 0]

KeyInit ==
    /\ clock = Minute
    /\ cache = [k \in AKs |-> Absent] /\ flight = [k \in AKs |-> None] /\ slipped = {}
    /\ rq = [q \in inst.reqs |-> [at |-> "todo", now |-> 0, roles |-> {}]]
    /\ nonces = {} /\ accepted = {}
    /\ last = NoUse /\ batch = [f \in Flushers |-> None] /\ used = NoUse /\ seen = NoUse
    /\ closed = FALSE

-----------------------------------------------------------------------------
(* The console.                                                            *)

(* checkRoleKey, and the foreign key to role.                              *)
Bindable(code) == code = None \/ (code # GuestRoleKey /\ code \in Live)

KeyCallRest == UNCHANGED <<roles, parent, perms, grants, userRoles, defaultRole, histVars, keyVars>> /\ CallRest

(* A new key has an identifier nobody asked for yet: nothing is announced. *)
Create(o) ==
    /\ At(o, "createKey", "todo") /\ End(o)
    /\ akeys' = IF Bindable(o.code) /\ akeys[o.ak].status = Absent
                  THEN [akeys EXCEPT ![o.ak] = [status |-> "ACTIVE", role |-> o.code]]
                  ELSE akeys
    /\ KeyCallRest

(* Update and SetStatus; afterWrite announces the key if there is a row.   *)
Update(o) ==
    /\ At(o, "bindKey", "todo")
    /\ IF Bindable(o.code) /\ akeys[o.ak].status # Absent
         THEN Step(o, "say") /\ akeys' = [akeys EXCEPT ![o.ak].role = o.code]
         ELSE End(o) /\ UNCHANGED akeys
    /\ KeyCallRest

SetStatus(o) ==
    /\ At(o, "keyStatus", "todo")
    /\ IF akeys[o.ak].status # Absent
         THEN Step(o, "say") /\ akeys' = [akeys EXCEPT ![o.ak].status = o.status]
         ELSE End(o) /\ UNCHANGED akeys
    /\ KeyCallRest

Delete(o) ==
    /\ At(o, "deleteKey", "todo")
    /\ IF akeys[o.ak].status # Absent
         THEN Step(o, "say") /\ akeys' = [akeys EXCEPT ![o.ak] = [status |-> Absent, role |-> None]]
         ELSE End(o) /\ UNCHANGED akeys
    /\ KeyCallRest

announce(o) ==
    /\ o.do \in {"bindKey", "keyStatus", "deleteKey"}
    /\ Publish(o, [kind |-> "key", ak |-> o.ak])
    /\ UNCHANGED keyVars

KeyCall(o) == Create(o) \/ Update(o) \/ SetStatus(o) \/ Delete(o) \/ announce(o)

-----------------------------------------------------------------------------
(* The cache.                                                              *)

Overtake(f) == IF f = None THEN None ELSE [f EXCEPT !.overtaken = TRUE]

(* An event of the stream in the cache: drop and purge move the generation,*)
(* which overtakes every flight, whatever its key.                         *)
WatchKeys ==
    /\ Watch
    /\ LET e == Head(stream)
           gone == IF e.kind = "ready" THEN AKs ELSE IF e.kind = "key" THEN {e.ak} ELSE {} IN
       /\ cache' = [k \in AKs |-> IF k \in gone THEN Absent ELSE cache[k]]
       /\ flight' = IF gone = {} THEN flight ELSE [k \in AKs |-> Overtake(flight[k])]
       /\ slipped' = IF gone = {} THEN slipped
                     ELSE (slipped \ gone) \cup {k \in gone : flight[k] # None /\ flight[k].at = "add"}
    /\ UNCHANGED <<clock, rq, nonces, accepted, last, batch, used, seen, closed>>

(* An entry too old for any use, or evicted for another.                   *)
Evict(k) ==
    /\ cache[k] # Absent /\ cache' = [cache EXCEPT ![k] = Absent]
    /\ UNCHANGED <<authzVars, clock, flight, slipped, rq, nonces, accepted, last, batch, used, seen, closed>>

FlightRest == UNCHANGED <<authzVars, clock, nonces, accepted, last, batch, used, seen, closed>>

(* Resolve.                                                                *)
Resolve(k) ==
    /\ flight[k] # None /\ flight[k].at = "sent"
    /\ flight' = [flight EXCEPT ![k].at = "answer",
                    ![k].res = IF akeys[k].status = "ACTIVE" THEN akeys[k].role ELSE Absent]
    /\ UNCHANGED <<cache, slipped, rq>> /\ FlightRest

(* Everyone who joined gets what the flight brings.                        *)
Land(k, how) ==
    /\ flight' = [flight EXCEPT ![k] = None]
    /\ rq' = [q \in inst.reqs |-> IF rq[q].at = "join" /\ q.ak = k
                THEN [rq[q] EXCEPT !.at = how.at, !.roles = how.roles] ELSE rq[q]]

Having(role) == [at |-> "verify", roles |-> IF role = None THEN {} ELSE {role}]
Refused      == [at |-> "refused", roles |-> {}]

(* Variant: the generation is not compared.                                *)
putIfGenAlways(f) == TRUE

putIfGen(f) == ~f.overtaken

(* A refusal is not written back; an answer is if nothing overtook it.     *)
Compare(k) ==
    /\ flight[k] # None /\ flight[k].at = "answer"
    /\ IF flight[k].res # Absent /\ putIfGen(flight[k])
         THEN flight' = [flight EXCEPT ![k].at = "add"] /\ UNCHANGED rq
         ELSE Land(k, IF flight[k].res = Absent THEN Refused ELSE Having(flight[k].res))
    /\ UNCHANGED <<cache, slipped>> /\ FlightRest

Add(k) ==
    /\ flight[k] # None /\ flight[k].at = "add"
    /\ cache' = [cache EXCEPT ![k] = flight[k].res]
    /\ Land(k, Having(flight[k].res))
    /\ UNCHANGED slipped /\ FlightRest

(* The call fails: what is cached may serve, if that is allowed.           *)
LookupFails(k) ==
    /\ flight[k] # None /\ flight[k].at = "sent" /\ Fault("lookup")
    /\ \/ Land(k, Refused)
       \/ inst.stale /\ cache[k] # Absent /\ Land(k, Having(cache[k]))
    /\ UNCHANGED <<cache, slipped, clock, nonces, accepted, last, batch, used, seen, closed>>
    /\ UNCHANGED <<inst, tableVars, pc, wireVars, policyVars, histVars, missed>>

-----------------------------------------------------------------------------
(* A request.                                                              *)

RequestRest == UNCHANGED <<authzVars, clock, cache, slipped, batch, used, closed>>

(* MiddlewareWith: a key in the header excludes every other credential.    *)
(* Without one the roles are those of the token, whose session is opened   *)
(* here with the request, or none.                                         *)
MiddlewareWith(q) ==
    /\ rq[q].at = "todo"
    /\ rq' = [rq EXCEPT ![q] =
         IF q.by = "user" THEN [at |-> "decide", now |-> clock, roles |-> EffectiveRoles(q.user)]
         ELSE IF q.by = "nobody" THEN [at |-> "decide", now |-> clock, roles |-> {}]
         ELSE IF clock - q.ts > Window \/ q.ts - clock > Window
           THEN [at |-> "refused", now |-> clock, roles |-> {}]
           ELSE [at |-> "get", now |-> clock, roles |-> {}]]
    /\ UNCHANGED <<flight, nonces, accepted, last, seen>> /\ RequestRest

Get(q) ==
    /\ rq[q].at = "get"
    /\ \/ /\ cache[q.ak] # Absent
          /\ rq' = [rq EXCEPT ![q].at = "verify", ![q].roles = Having(cache[q.ak]).roles]
       \/ rq' = [rq EXCEPT ![q].at = "do"]
    /\ UNCHANGED <<flight, nonces, accepted, last, seen>> /\ RequestRest

(* akSF.Do: join the flight, or start one.                                 *)
Do(q) ==
    /\ rq[q].at = "do" /\ rq' = [rq EXCEPT ![q].at = "join"]
    /\ flight' = IF flight[q.ak] # None THEN flight
                 ELSE [flight EXCEPT ![q.ak] = [at |-> "sent", overtaken |-> FALSE, res |-> Absent]]
    /\ UNCHANGED <<nonces, accepted, last, seen>> /\ RequestRest

Same(n, q)  == n.ak = q.ak /\ n.nonce = q.nonce
Expires(q)  == q.ts + Window

(* Variant: a full table makes room with entries that are still live.      *)
RoomOfLive(now) == IF Cardinality(nonces) < NonceCapacity THEN nonces ELSE {}

(* In a full table only the entries that are no longer live make room.     *)
Room(now) == IF Cardinality(nonces) < NonceCapacity THEN nonces ELSE {n \in nonces : n.exp > now}

Used(q, now) == \E n \in nonces : Same(n, q) /\ n.exp > now
Full(now)    == Cardinality(Room(now)) >= NonceCapacity

(* nonceStore.add, when there is room.                                     *)
add(q, now) ==
    nonces' = {n \in Room(now) : ~Same(n, q)} \cup {[ak |-> q.ak, nonce |-> q.nonce, exp |-> Expires(q)]}

Truncate(now) == now - (now % Minute)

(* Both record and restore keep the later of two times.                    *)
Later(s, t) == IF s > t THEN s ELSE t

record(k, now) ==
    /\ last' = [last EXCEPT ![k] = Later(@, Truncate(now))]
    /\ seen' = [seen EXCEPT ![k] = Later(@, Truncate(now))]

Turn(q, at) == rq' = [rq EXCEPT ![q].at = at]

(* The rest of verifyAccessKey: signature, nonce, address, use.  The time  *)
(* is the one that was read at the beginning.                              *)
verifyAccessKey(q) ==
    LET now == rq[q].now IN
    /\ rq[q].at = "verify"
    /\ \/ /\ ~q.good \/ Used(q, now)
          /\ Turn(q, "refused") /\ UNCHANGED <<nonces, accepted, last, seen>>
       \/ /\ q.good /\ ~Used(q, now) /\ Full(now)
          /\ Turn(q, "refused") /\ nonces' = Room(now) /\ UNCHANGED <<accepted, last, seen>>
       \/ /\ q.good /\ ~Used(q, now) /\ ~Full(now) /\ add(q, now)
          /\ accepted' = accepted \cup {[id |-> q.id, ak |-> q.ak, nonce |-> q.nonce, exp |-> Expires(q), at |-> clock]}
          /\ IF q.ip THEN Turn(q, "decide") /\ record(q.ak, now)
                     ELSE Turn(q, "refused") /\ UNCHANGED <<last, seen>>
    /\ UNCHANGED flight /\ RequestRest

(* fpchi's middleware.                                                     *)
Middleware(q) ==
    /\ rq[q].at = "decide"
    /\ Turn(q, IF Allow(rq[q].roles, q.by = "key", q.key) = "yes" THEN "served" ELSE "refused")
    /\ UNCHANGED <<flight, nonces, accepted, last, seen>> /\ RequestRest

-----------------------------------------------------------------------------
(* Reports of use.                                                         *)

UsageRest == UNCHANGED <<authzVars, clock, cache, flight, slipped, rq, nonces, accepted, seen>>

take(f) ==
    /\ batch[f] = None /\ last # NoUse /\ ~closed /\ f \in inst.flushers
    /\ batch' = [batch EXCEPT ![f] = last] /\ last' = NoUse
    /\ UNCHANGED <<used, closed>> /\ UsageRest

(* RecordUsage: one statement; a key without a row is passed over.         *)
Recorded(b) ==
    [k \in AKs |-> IF akeys[k].status = Absent THEN used[k] ELSE Later(used[k], b[k])]

ReportAccessKeyUsage(f) ==
    /\ batch[f] # None
    /\ used' = Recorded(batch[f]) /\ batch' = [batch EXCEPT ![f] = None]
    /\ closed' = (closed \/ f = "close")
    /\ UNCHANGED last /\ UsageRest

(* Variant: the batch overwrites what was recorded since.                  *)
restoreOver(b) == last' = [k \in AKs |-> IF b[k] > 0 THEN b[k] ELSE last[k]]

restore(b) == last' = [k \in AKs |-> Later(last[k], b[k])]

(* An error, before or after the statement.                                *)
ReportFails(f) ==
    /\ batch[f] # None /\ Fault("usage")
    /\ used' \in {used, Recorded(batch[f])}
    /\ restore(batch[f]) /\ batch' = [batch EXCEPT ![f] = None]
    /\ closed' = (closed \/ f = "close")
    /\ UNCHANGED <<inst, tableVars, pc, wireVars, policyVars, histVars, missed>>
    /\ UNCHANGED <<clock, cache, flight, slipped, rq, nonces, accepted, seen>>

Tick ==
    /\ clock < Minute + inst.ticks /\ clock' = clock + 1
    /\ UNCHANGED <<authzVars, cache, flight, slipped, rq, nonces, accepted, last, batch, used, seen, closed>>

SdkKeys ==
    \/ Tick
    \/ \E k \in AKs : Evict(k) \/ Resolve(k) \/ Compare(k) \/ Add(k) \/ LookupFails(k)
    \/ \E q \in inst.reqs : MiddlewareWith(q) \/ Get(q) \/ Do(q) \/ verifyAccessKey(q) \/ Middleware(q)
    \/ \E f \in Flushers : take(f) \/ ReportAccessKeyUsage(f) \/ ReportFails(f)

-----------------------------------------------------------------------------
(* cache.gen, and the ready that refreshes all: once every announcement is *)
(* made and handled, with or without a gap in the stream, the SDK's copies *)
(* are what the tables say: it decides as they do for all roles (but those *)
(* created with a parent, and while no periodic refresh can end late), and *)
(* it has no entry of a key that is gone or disabled, nor one with another *)
(* role (but for a flight that had passed the test of putIfGen).           *)
QuietDecides ==
    Quiet /\ ~missed =>
        /\ inst.timer \/ PolicyRight(Codes \ silent)
        /\ \A k \in AKs \ slipped :
              cache[k] # Absent => akeys[k].status = "ACTIVE" /\ cache[k] = akeys[k].role

(* nonceStore: while the window of a request that was let through is open, *)
(* no other with its key and its nonce is, at any capacity.                *)
NonceOnce ==
    \A m, n \in accepted :
        m.id # n.id /\ Same(m, n) => m.at >= n.exp \/ n.at >= m.exp

(* usageRecorder: no use of a key is forgotten, in whatever order batches  *)
(* fail, are taken back and are reported, until the client is closed.      *)
UsageKept ==
    \A k \in AKs :
        ~closed /\ akeys[k].status # Absent =>
            \/ last[k] >= seen[k] \/ used[k] >= seen[k]
            \/ \E f \in Flushers : batch[f] # None /\ batch[f][k] >= seen[k]

=============================================================================
