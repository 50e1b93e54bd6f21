----------------------------- MODULE RevokePush -----------------------------
(***************************************************************************)
(* From a revocation on the server to the verdict cache of one SDK client. *)
(*                                                                         *)
(*   SessionService.announce -> Redis channel -> store.Subscribe ->        *)
(*   RevokeHub (internal/grpcapi/watch.go) -> Watch stream ->              *)
(*   Client.watchOnce -> cache (sdk/client.go, sdk/cache.go), read and     *)
(*   filled by Auth.Validate (sdk/auth.go).                                *)
(*                                                                         *)
(* One token is followed; events about other tokens fill the same buffers. *)
(* A Watch stream's subscriber channel and the wire behind it are one FIFO *)
(* queue, buf.  The connection may break unnoticed, the Redis subscription *)
(* may be lost and re-established, the server may stop and start again.    *)
(* gen is modelled by its use: flight.overtaken says whether the           *)
(* generation changed since the flight captured it.                        *)
(***************************************************************************)
EXTENDS Integers, Sequences

CONSTANTS
    Callers,           \* goroutines calling Auth.Validate, again and again
    DegradedTTL,       \* Options.DegradedCacheTTL
    Timeout,           \* Options.ValidateTimeout
    BufSize,           \* revokeBufferSize
    Instances          \* the other options, and the bounds; one is chosen at the start

ASSUME OptionsAssumption ==
    /\ {DegradedTTL, BufSize, Timeout} \subseteq Nat \ {0}
    /\ \A i \in Instances :
         /\ i.ttl \in Nat \ {0}        \* the cache_ttl fp hands out
         /\ i.stale \in Nat            \* Options.MaxStaleness; 0: AllowStaleOnOutage is off
         /\ i.others \in Nat           \* bound: revocations of other tokens
         /\ i.breaks \in Nat           \* bound: faults of connection, subscription or server
         /\ i.time \in Nat             \* bound: the clock
         /\ i.logout \in BOOLEAN       \* whether Auth.Logout is called

VARIABLES
    inst, now,
    valid, revAt,      \* the token's session exists; when it was revoked
    pub,               \* announcing the revocation: "none", "pending", "done"
    hub,               \* server: "off" (not serving), "on" (subscribed and serving),
                       \* "cut" (serving, Redis subscription broken), "closing"
    sigs,              \* signals between store.Subscribe and RevokeHub.run
    sub, buf,          \* the stream's subscriber: "none", "open", "closed"; its queue
    watch,             \* runWatch: "down", "opened", "purged", "up"
    streamUp,          \* Client.streamUp
    entry,             \* the cache's entry for the token
    flight,            \* the singleflight call for the token
    call,              \* each caller's Validate
    logout,            \* a call of Auth.Logout
    others, breaks,    \* how often the bounded events happened
    lost,              \* history: this token's event was dropped for good
    raced              \* history: the entry was removed between putIfGen's test and
                       \* its Add

serverVars == <<valid, revAt, pub>>
hubVars    == <<hub, sigs, sub, buf>>
budget     == <<inst, others, breaks>>
vars == <<now, serverVars, hubVars, watch, streamUp, entry, flight, call, logout,
          budget, lost, raced>>

-----------------------------------------------------------------------------
CacheTTL == inst.ttl
MaxStale == inst.stale

NoEntry  == [at |-> -1, ttl |-> 0]
NoFlight == [phase |-> "none", sent |-> 0, ttl |-> 0, overtaken |-> FALSE]
NoCall   == [pc |-> "idle", degraded |-> FALSE, after |-> FALSE, at |-> 0]

Init ==
    /\ inst \in Instances
    /\ now = 0 /\ valid = TRUE /\ revAt = 0 /\ pub = "none"
    /\ hub = "on" /\ sigs = <<>>
    /\ sub = "none" /\ buf = <<>>
    /\ watch = "down" /\ streamUp = FALSE
    /\ entry = NoEntry /\ flight = NoFlight
    /\ call = [c \in Callers |-> NoCall]
    /\ logout = "idle"
    /\ others = 0 /\ breaks = 0 /\ lost = FALSE /\ raced = FALSE

-----------------------------------------------------------------------------
(* cache                                                                   *)

\* The generation moves: a flight under way will not be written back.
Overtake(f) == IF f.phase = "none" THEN f ELSE [f EXCEPT !.overtaken = TRUE]

\* drop(token) and purge, seen from the token.
Forget ==
    /\ entry' = NoEntry
    /\ flight' = Overtake(flight)
    /\ raced' = (flight.phase = "add")

\* drop of other tokens.
ForgetOther ==
    /\ flight' = Overtake(flight)
    /\ UNCHANGED <<entry, raced>>

\* get: how long an entry counts as fresh; only ever tightened.
Effective(e, degraded) ==
    IF degraded /\ DegradedTTL < e.ttl THEN DegradedTTL ELSE e.ttl

Fresh(e, degraded) == e # NoEntry /\ now - e.at < Effective(e, degraded)
Stale(e, degraded) == /\ e # NoEntry
                      /\ ~Fresh(e, degraded)
                      /\ now - e.at < Effective(e, degraded) + MaxStale

-----------------------------------------------------------------------------
(* the server                                                              *)

\* The session is deleted, by an administrator or through another client.
Revoke ==
    /\ valid /\ valid' = FALSE
    /\ revAt' = now
    /\ pub' = "pending"
    /\ UNCHANGED <<now, hubVars, watch, streamUp, entry, flight, call, logout, budget,
                   lost, raced>>

\* announce: PUBLISH reaches whoever is subscribed now, or fails and is logged.
Publish ==
    /\ pub = "pending" /\ pub' = "done"
    /\ \/ /\ sigs' = IF hub \in {"on", "closing"} THEN Append(sigs, "rev") ELSE sigs
          /\ UNCHANGED lost
       \/ lost' = TRUE /\ UNCHANGED sigs
    /\ UNCHANGED <<now, valid, revAt, hub, sub, buf, watch, streamUp, entry, flight,
                   call, logout, budget, raced>>

\* Some other token is revoked and announced.
RevokeOther ==
    /\ others < inst.others /\ others' = others + 1
    /\ hub \in {"on", "closing"}
    /\ sigs' = Append(sigs, "other")
    /\ UNCHANGED <<now, serverVars, hub, sub, buf, watch, streamUp, entry, flight, call,
                   logout, inst, breaks, lost, raced>>

\* The Redis connection of the subscription breaks; what is in transit is gone.
SubscriptionCut ==
    /\ hub = "on" /\ breaks < inst.breaks
    /\ breaks' = breaks + 1
    /\ hub' = "cut"
    /\ UNCHANGED <<now, serverVars, sigs, sub, buf, watch, streamUp, entry, flight, call,
                   logout, inst, others, lost, raced>>

\* Variant: the first acknowledgement is taken for the initial subscription.
ResubscribeSilently ==
    /\ hub = "cut"
    /\ hub' = "on"
    /\ UNCHANGED <<now, serverVars, sigs, sub, buf, watch, streamUp, entry, flight, call,
                   logout, budget, lost, raced>>

\* store.Subscribe: go-redis resubscribes; each acknowledgement is a Gap.
Resubscribe ==
    /\ hub = "cut"
    /\ hub' = "on"
    /\ sigs' = Append(sigs, "gap")
    /\ UNCHANGED <<now, serverVars, sub, buf, watch, streamUp, entry, flight, call,
                   logout, budget, lost, raced>>

\* fanout: a non-blocking send; a full buffer drops the event.
Fanout(e) ==
    /\ e \in {"rev", "other"}
    /\ IF sub # "open"
         THEN UNCHANGED <<sub, buf, lost>>
         ELSE \/ /\ Len(buf) < BufSize
                 /\ buf' = Append(buf, e)
                 /\ UNCHANGED <<sub, lost>>
              \/ /\ Len(buf) >= BufSize
                 /\ lost' = (lost \/ e = "rev")
                 /\ UNCHANGED <<sub, buf>>

\* Variant: a purge that does not fit is dropped like an event.
BroadcastPurgeDrop ==
    /\ buf' = IF sub = "open" /\ Len(buf) < BufSize THEN Append(buf, "purge") ELSE buf
    /\ UNCHANGED <<sub, lost>>

\* broadcastPurge: a full buffer closes the stream instead.
BroadcastPurge ==
    /\ IF sub # "open"
         THEN UNCHANGED <<sub, buf>>
         ELSE \/ Len(buf) < BufSize  /\ buf' = Append(buf, "purge") /\ UNCHANGED sub
              \/ Len(buf) >= BufSize /\ sub' = "closed" /\ UNCHANGED buf
    /\ UNCHANGED lost

\* RevokeHub.run takes a signal.
HubRun ==
    /\ hub # "off" /\ sigs # <<>>
    /\ sigs' = Tail(sigs)
    /\ \/ Fanout(Head(sigs))
       \/ Head(sigs) = "gap" /\ BroadcastPurge
    /\ UNCHANGED <<now, serverVars, hub, watch, streamUp, entry, flight, call, logout,
                   budget, raced>>

\* Server.Shutdown closes the hub: every stream ends after what it has queued.
Shutdown ==
    /\ hub \in {"on", "cut"} /\ breaks < inst.breaks
    /\ breaks' = breaks + 1
    /\ hub' = "closing"
    /\ sub' = IF sub = "open" THEN "closed" ELSE sub
    /\ UNCHANGED <<now, serverVars, sigs, buf, watch, streamUp, entry, flight, call,
                   logout, inst, others, lost, raced>>

\* The process ends, after Shutdown or by a crash.  RPCs fail on the client.
Exit ==
    /\ \/ hub = "closing" /\ UNCHANGED breaks
       \/ hub \in {"on", "cut"} /\ breaks < inst.breaks /\ breaks' = breaks + 1
    /\ hub' = "off" /\ sigs' = <<>>
    /\ sub' = "none" /\ buf' = <<>>
    /\ flight' = IF flight.phase \in {"sent", "yes", "no"}
                   THEN [flight EXCEPT !.phase = "down"] ELSE flight
    /\ UNCHANGED <<now, serverVars, watch, streamUp, entry, call, logout, inst, others, lost,
                   raced>>

\* ServeWhenReady: connections are accepted once Run has subscribed.
ServeWhenReady ==
    /\ hub = "off"
    /\ hub' = "on"
    /\ UNCHANGED <<now, serverVars, sigs, sub, buf, watch, streamUp, entry, flight, call,
                   logout, budget, lost, raced>>

-----------------------------------------------------------------------------
(* the Watch stream                                                        *)

\* authServer.Watch: subscribe, then ready.  A closed hub hands out a closed
\* channel, and ready is sent all the same.
Watch ==
    /\ watch = "down" /\ hub # "off"
    /\ watch' = "opened"
    /\ sub' = IF hub = "closing" THEN "closed" ELSE "open"
    /\ buf' = <<>>
    /\ UNCHANGED <<now, serverVars, hub, sigs, streamUp, entry, flight, call, logout,
                   budget, lost, raced>>

\* The connection breaks; the server's handler returns and unsubscribes.  The
\* client does not know yet.
ConnectionBreaks ==
    /\ sub # "none" /\ breaks < inst.breaks
    /\ breaks' = breaks + 1
    /\ sub' = "none" /\ buf' = <<>>
    /\ UNCHANGED <<now, serverVars, hub, sigs, watch, streamUp, entry, flight, call,
                   logout, inst, others, lost, raced>>

\* watchOnce returns and runWatch lowers streamUp; it will reconnect.
StreamEnds ==
    /\ watch # "down"
    /\ sub = "none" \/ (sub = "closed" /\ buf = <<>> /\ watch = "up")
    /\ watch' = "down" /\ streamUp' = FALSE
    /\ sub' = "none"
    /\ UNCHANGED <<now, serverVars, hub, sigs, buf, entry, flight, call, logout, budget,
                   lost, raced>>

\* watchOnce on ready: purge first ...
RecvReady ==
    /\ watch = "opened" /\ sub # "none"
    /\ watch' = "purged"
    /\ Forget /\ lost' = FALSE
    /\ UNCHANGED <<now, serverVars, hubVars, streamUp, call, logout, budget>>

\* ... then streamUp.
StreamUp ==
    /\ watch = "purged"
    /\ watch' = "up" /\ streamUp' = TRUE
    /\ UNCHANGED <<now, serverVars, hubVars, entry, flight, call, logout, budget, lost,
                   raced>>

\* watchOnce on revoke and purge.
Recv ==
    /\ watch = "up" /\ sub # "none" /\ buf # <<>>
    /\ buf' = Tail(buf)
    /\ \/ Head(buf) = "rev"   /\ Forget      /\ UNCHANGED lost
       \/ Head(buf) = "other" /\ ForgetOther /\ UNCHANGED lost
       \/ Head(buf) = "purge" /\ Forget      /\ lost' = FALSE
    /\ UNCHANGED <<now, serverVars, hub, sigs, sub, watch, streamUp, call, logout, budget>>

-----------------------------------------------------------------------------
(* Auth.Validate                                                           *)

\* The health of the stream is read once, before the cache.
ValidateBegin(c) ==
    /\ call[c].pc \in {"idle", "fresh", "origin", "stale", "refused"}
    /\ call' = [call EXCEPT ![c] = [pc |-> "get", degraded |-> ~streamUp,
                                    at |-> 0,
                                    after |-> logout = "quiet"]]
    /\ UNCHANGED <<now, serverVars, hubVars, watch, streamUp, entry, flight, logout,
                   budget, lost, raced>>

Answer(c, how) == call' = [call EXCEPT ![c].pc = how, ![c].at = now]

\* Variant: a hit renews the entry.
CacheGetRenew(c) ==
    /\ call[c].pc = "get"
    /\ \/ /\ Fresh(entry, call[c].degraded)
          /\ Answer(c, "fresh")
          /\ entry' = [entry EXCEPT !.at = now]
       \/ /\ ~Fresh(entry, call[c].degraded)
          /\ call' = [call EXCEPT ![c].pc = "join"]
          /\ entry' = IF Stale(entry, call[c].degraded) THEN entry ELSE NoEntry
    /\ UNCHANGED <<now, serverVars, hubVars, watch, streamUp, flight, logout, budget,
                   lost, raced>>

\* cache.get: answer from the cache, or go to the origin.
CacheGet(c) ==
    /\ call[c].pc = "get"
    /\ \/ /\ Fresh(entry, call[c].degraded)
          /\ Answer(c, "fresh")
          /\ UNCHANGED entry
       \/ /\ ~Fresh(entry, call[c].degraded)
          /\ call' = [call EXCEPT ![c].pc = "join"]
          /\ entry' = IF Stale(entry, call[c].degraded) THEN entry ELSE NoEntry
    /\ UNCHANGED <<now, serverVars, hubVars, watch, streamUp, flight, logout, budget,
                   lost, raced>>

\* sf.Do: join the call under way, or lead a new one, which notes the generation.
SingleFlight(c) ==
    /\ call[c].pc = "join"
    /\ call' = [call EXCEPT ![c].pc = "wait"]
    /\ flight' = IF flight.phase = "none"
                   THEN [NoFlight EXCEPT !.phase = "sent", !.sent = now] ELSE flight
    /\ UNCHANGED <<now, serverVars, hubVars, watch, streamUp, entry, logout, budget,
                   lost, raced>>

\* fp decides on the token; the answer is on its way.
ValidateToken ==
    /\ flight.phase = "sent" /\ hub # "off"
    /\ \E ttl \in {0, CacheTTL} :
          flight' = [flight EXCEPT !.phase = IF valid THEN "yes" ELSE "no",
                                   !.ttl = IF valid THEN ttl ELSE 0]
    /\ UNCHANGED <<now, serverVars, hubVars, watch, streamUp, entry, call, logout, budget,
                   lost, raced>>

\* ValidateTimeout passes, or fp cannot be reached.
RpcFails ==
    /\ flight.phase \in {"sent", "yes", "no"}
    /\ flight' = [flight EXCEPT !.phase = "down"]
    /\ UNCHANGED <<now, serverVars, hubVars, watch, streamUp, entry, call, logout, budget,
                   lost, raced>>

\* putIfGen: the generation is compared ...
PutIfGen ==
    /\ flight.phase = "yes"
    /\ flight' = [flight EXCEPT !.phase = IF ~flight.overtaken /\ flight.ttl > 0
                                            THEN "add" ELSE "done"]
    /\ UNCHANGED <<now, serverVars, hubVars, watch, streamUp, entry, call, logout, budget,
                   lost, raced>>

\* ... and put adds the entry.
Add ==
    /\ flight.phase = "add"
    /\ entry' = [at |-> now, ttl |-> flight.ttl]
    /\ flight' = [flight EXCEPT !.phase = "done"]
    /\ UNCHANGED <<now, serverVars, hubVars, watch, streamUp, call, logout, budget, lost,
                   raced>>

\* The flight's result goes to everyone who waits for it.
FlightEnds ==
    /\ flight.phase \in {"done", "no", "down"}
    /\ call' = [c \in Callers |->
                  IF call[c].pc # "wait" THEN call[c]
                  ELSE [call[c] EXCEPT !.at = now,
                                       !.pc = CASE flight.phase = "done" -> "origin"
                                                [] flight.phase = "no"   -> "refused"
                                                [] OTHER                 -> "outage"]]
    /\ flight' = NoFlight
    /\ UNCHANGED <<now, serverVars, hubVars, watch, streamUp, entry, logout, budget, lost,
                   raced>>

\* fp is unreachable: a stale entry may answer if the options allow it.
StaleGet(c) ==
    /\ call[c].pc = "outage"
    /\ \/ Stale(entry, call[c].degraded)  /\ Answer(c, "stale")
       \/ ~Stale(entry, call[c].degraded) /\ Answer(c, "refused")
    /\ entry' = IF MaxStale > 0 /\ entry # NoEntry /\ ~Fresh(entry, call[c].degraded)
                     /\ ~Stale(entry, call[c].degraded)
                  THEN NoEntry ELSE entry
    /\ UNCHANGED <<now, serverVars, hubVars, watch, streamUp, flight, logout, budget,
                   lost, raced>>

-----------------------------------------------------------------------------
(* Auth.Logout                                                             *)

\* The RPC: the session is deleted and announced, or the call fails.
LogoutRpc ==
    /\ inst.logout /\ logout = "idle" /\ hub # "off"
    /\ \/ /\ logout' = "drop"
          /\ valid' = FALSE
          /\ revAt' = IF valid THEN now ELSE revAt
          /\ pub' = IF valid THEN "pending" ELSE pub
       \/ logout' = "dropFailed" /\ UNCHANGED serverVars
    /\ UNCHANGED <<now, hubVars, watch, streamUp, entry, flight, call, budget, lost, raced>>

\* cache.drop, and Logout returns.  "quiet": no flight was under way by then.
LogoutDrop ==
    /\ logout \in {"drop", "dropFailed"}
    /\ logout' = IF logout = "dropFailed" THEN "failed"
                 ELSE IF flight.phase = "none" THEN "quiet" ELSE "done"
    /\ Forget
    /\ UNCHANGED <<now, serverVars, hubVars, watch, streamUp, call, budget, lost>>

-----------------------------------------------------------------------------
\* Time passes, except while a goroutine is only computing, and never beyond a
\* flight's deadline.
Tick ==
    /\ now < inst.time
    /\ flight.phase \notin {"add", "done", "down"}
    /\ flight.phase # "none" => now < flight.sent + Timeout
    /\ \A c \in Callers : call[c].pc \notin {"get", "join", "outage"}
    /\ now' = now + 1
    /\ UNCHANGED <<serverVars, hubVars, watch, streamUp, entry, flight, call, logout,
                   budget, lost, raced>>

Server == Publish \/ Resubscribe \/ HubRun \/ ServeWhenReady \/ Exit
Client == Watch \/ StreamEnds \/ RecvReady \/ StreamUp \/ Recv
Origin == ValidateToken \/ RpcFails \/ PutIfGen \/ Add \/ FlightEnds

Next ==
    \/ Server \/ Client \/ Origin
    \/ Revoke \/ RevokeOther \/ SubscriptionCut \/ Shutdown \/ ConnectionBreaks
    \/ LogoutRpc \/ LogoutDrop \/ Tick
    \/ \E c \in Callers :
          ValidateBegin(c) \/ CacheGet(c) \/ SingleFlight(c) \/ StaleGet(c)

Spec == Init /\ [][Next]_vars

\* Goroutines that can run do run, redials and resubscriptions eventually
\* succeed; nothing is assumed of callers, faults or the clock.
Fairness ==
    /\ WF_vars(Publish) /\ WF_vars(Resubscribe) /\ WF_vars(HubRun)
    /\ WF_vars(ServeWhenReady) /\ WF_vars(hub = "closing" /\ Exit)
    /\ WF_vars(Watch) /\ WF_vars(StreamEnds) /\ WF_vars(RecvReady) /\ WF_vars(StreamUp)
    /\ WF_vars(Recv)
    /\ WF_vars(PutIfGen) /\ WF_vars(Add) /\ WF_vars(FlightEnds) /\ WF_vars(RpcFails)

LiveSpec == Spec /\ Fairness

-----------------------------------------------------------------------------
\* Types of the variables.
TypeOK ==
    /\ now \in Nat /\ valid \in BOOLEAN /\ revAt \in Nat
    /\ pub \in {"none", "pending", "done"}
    /\ hub \in {"off", "on", "cut", "closing"}
    /\ sigs \in Seq({"rev", "other", "gap"})
    /\ sub \in {"none", "open", "closed"} /\ buf \in Seq({"rev", "other", "purge"})
    /\ Len(buf) <= BufSize
    /\ watch \in {"down", "opened", "purged", "up"} /\ streamUp \in BOOLEAN
    /\ entry = NoEntry \/ entry \in [at : Nat, ttl : Nat \ {0}]
    /\ flight \in [phase : {"none", "sent", "yes", "no", "down", "add", "done"},
                   sent : Nat, ttl : Nat, overtaken : BOOLEAN]
    /\ call \in [Callers -> [pc : {"idle", "get", "join", "wait", "outage", "fresh",
                                    "origin", "stale", "refused"},
                             degraded : BOOLEAN, after : BOOLEAN, at : Nat]]
    /\ logout \in {"idle", "drop", "dropFailed", "quiet", "done", "failed"}
    /\ others \in Nat /\ breaks \in Nat /\ lost \in BOOLEAN /\ raced \in BOOLEAN

Accepted(c) == call[c].pc \in {"fresh", "origin", "stale"}

\* Nothing is on its way between the revocation and the cache, and nothing is broken.
Quiescent ==
    /\ pub # "pending" /\ hub = "on" /\ sigs = <<>>
    /\ sub = "open" /\ buf = <<>> /\ watch = "up"
    /\ flight.phase \in {"none", "sent"}

\* RevokeHub and watchOnce: when the push path is quiet, a revoked token is not
\* in the cache, whatever broke, restarted or overflowed before; the exceptions
\* are an event dropped for good and putIfGen's window.
QuiescentCoherent == Quiescent /\ ~lost /\ ~raced /\ ~valid => entry = NoEntry

AcceptedBy(c, limit) == call[c].at < revAt + limit \/ call[c].at <= revAt

\* cache.get, Auth.Validate and Auth.Logout: how long a revoked token may still be
\* accepted without any push: for one validation and one cache window (and the
\* staleness allowed); when the stream is known to be down the window shrinks, for
\* the entries that are cached already too; and after a Logout in this process
\* that no validation overlapped, not at all.
BoundedStaleness ==
    \A c \in Callers :
        /\ Accepted(c) /\ ~valid => AcceptedBy(c, Timeout + CacheTTL + MaxStale)
        /\ call[c].pc = "fresh" /\ call[c].degraded /\ ~valid => AcceptedBy(c, Timeout + DegradedTTL)
        /\ call[c].after => ~Accepted(c)

\* The push does its work: a revoked token that is cached is removed, unless its
\* event was dropped for good or slipped through putIfGen's window.
PushClears == ~valid /\ entry # NoEntry ~> entry = NoEntry \/ lost \/ raced
=============================================================================
