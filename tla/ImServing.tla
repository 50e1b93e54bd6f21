----------------------------- MODULE ImServing -----------------------------
(***************************************************************************)
(* How the fp-im nodes reach the business servers of one application.      *)
(*                                                                         *)
(* A business server opens a gRPC stream to one node (imgrpc.Connect), and *)
(* the node declares in Redis that it serves the application (Liveness).   *)
(* Messages of clients and the Connected / Disconnected events of their    *)
(* connections are handed to a local stream, or sent along a route of      *)
(* serving nodes (Hub.Deliver) over the nodes' Redis channels.  A node     *)
(* that is told to stop closes its clients, waits for their events to be   *)
(* handed over, stops gRPC and leaves the tables (shutdown).               *)
(*                                                                         *)
(* Goroutines: one per stream, one per client connection, and per node the *)
(* consumer of its channel, the liveness loop and shutdown.  Every critical*)
(* section and every Redis command is a step.  All connections belong to   *)
(* one subject, so one stream of a node's list and one ranking of the nodes*)
(* apply to all of them.                                                   *)
(***************************************************************************)
EXTENDS Integers, Sequences, FiniteSets, SequencesExt

CONSTANTS
    Nodes,             \* fp-im processes; a restarted one has a new id
    Streams, Conns,    \* Connect calls of business servers; client connections
    Instances,         \* the instances to consider (see Init)
    None               \* no envelope, no route

ASSUME ServingAssumption ==
    /\ IsFiniteSet(Nodes) /\ Nodes \cap Conns = {}
    /\ None \notin Nodes \cup Conns /\ None \notin Seq(Nodes)
    /\ None \notin [msg : Conns \X {"Connected", "Up", "Disconnected"}, route : {None},
                     hop : Nat, looping : BOOLEAN]
    /\ \A i \in Instances :
         /\ i.at \in [Streams \cup Conns -> Nodes]   \* the node each of them reaches
         /\ i.weight \in [Nodes -> Nat]              \* rendezvous weight for the subject
         /\ \A m, n \in Nodes : i.weight[m] = i.weight[n] => m = n
         /\ i.hash \in Nat                           \* hash32(subject)
         /\ i.part \subseteq Nodes \cup Streams \cup Conns \* who takes part
         /\ i.ticks \subseteq Nodes                  \* bound: nodes whose heartbeat is due
         /\ i.ups \subseteq Conns                     \* bound: clients that send a message
         /\ i.stops \subseteq Nodes                  \* nodes that may be told to stop
         /\ i.faults \in Nat                         \* bound: faults
         /\ i.kinds \subseteq {"redis", "unsure", "crash", "budget"}

VARIABLES
    inst,              \* the instance
    spc,               \* per stream: where its Connect handler is
    streams,           \* per node: Hub.streams
    serving, tracked, everSrv, \* the nodes for which Liveness holds TRUE in these maps
    sig,               \* nodes with a signal in servingSig
    lv,                \* per node: Liveness.Run
    srvTab, view,      \* fp:im:srv in Redis; per node: Liveness.srv
    phase,             \* per node: serve and shutdown
    cpc,               \* per connection: where its ServeHTTP goroutine is
    closed,            \* connections on which Close was called
    delivered,         \* connections whose Connected event was delivered
    out,               \* per goroutine (connection, node): the envelope in Deliver
    inbox,             \* per node: envelopes received and not handled
    ups, faults,       \* the bounded events that happened
    got,               \* history: the envelopes business servers received, in order
    visits,            \* history: per message, the nodes it was published to
    unsure,            \* history: messages for which a failed publish may have arrived
    crossed,           \* history: nodes on which two calls of SetServing overlapped
    unwritten,         \* history: nodes whose last write of the table failed
    snapshot, overrun, \* history: connections shutdown closed; nodes that stopped waiting
    steady             \* history: nodes whose streams have all stayed since the snapshot

streamVars == <<spc, streams, crossed, steady>>
liveVars   == <<serving, everSrv, sig, lv, unwritten>>
tabVars    == <<tracked, srvTab, view>>
connVars   == <<cpc, delivered>>
busVars    == <<out, inbox, got, visits, unsure>>
stopVars   == <<phase, closed, snapshot, overrun>>
vars == <<inst, streamVars, liveVars, tabVars, connVars, busVars, stopVars, ups, faults>>

At(g) == IF g \in Nodes THEN g ELSE inst.at[g]

Msgs == Conns \X {"Connected", "Up", "Disconnected"}

Envelope(c, kind) == [msg |-> <<c, kind>>, route |-> None, hop |-> 0, looping |-> FALSE]

StreamsAt(n) == {s \in Streams : inst.at[s] = n}
Table(n)     == {c \in Conns : inst.at[c] = n /\ cpc[c] \in {"hello", "open", "leaving"}}
Teardowns(n) == {c \in Conns : inst.at[c] = n /\ cpc[c] = "bye"}
Running(n)   == phase[n] # "down"

(* Types; a node's list holds the streams between AddStream and remove, a  *)
(* connection emits an event exactly in the two states where it is inside  *)
(* emit, and only a running node has envelopes.                            *)
TypeOK ==
    /\ spc \in [Streams -> {"new", "declare", "open", "ended", "retract", "done"}]
    /\ \A n \in Nodes :
         /\ ToSet(streams[n]) = {s \in StreamsAt(n) : spc[s] \in {"declare", "open", "ended"}}
         /\ IsInjective(streams[n])
         /\ Running(n) \/ (out[n] = None /\ inbox[n] = <<>>)
    /\ serving \cup everSrv \cup tracked \cup srvTab \cup sig \subseteq Nodes
    /\ serving \subseteq everSrv
    /\ lv \in [Nodes -> [at : {"idle", "beat", "refresh", "write"}, on : BOOLEAN]]
    /\ view \in [Nodes -> SUBSET Nodes]
    /\ phase \in [Nodes -> {"up", "http", "close", "drain", "stop", "deregister", "down"}]
    /\ cpc \in [Conns -> {"new", "shake", "hello", "open", "leaving", "bye", "done"}]
    /\ \A c \in Conns : cpc[c] \in {"hello", "bye"} => out[c] # None

-----------------------------------------------------------------------------
Init ==
    /\ inst \in Instances
    /\ spc = [s \in Streams |-> IF s \in inst.part THEN "new" ELSE "done"]
    /\ streams = [n \in Nodes |-> <<>>]
    /\ serving = {} /\ tracked = {} /\ everSrv = {} /\ sig = {}
    /\ lv = [n \in Nodes |-> [at |-> "idle", on |-> FALSE]]
    /\ srvTab = {} /\ view = [n \in Nodes |-> {}]
    /\ phase = [n \in Nodes |-> IF n \in inst.part THEN "up" ELSE "down"]
    /\ cpc = [c \in Conns |-> IF c \in inst.part THEN "new" ELSE "done"]
    /\ closed = {} /\ delivered = {}
    /\ out = [g \in Nodes \cup Conns |-> None] /\ inbox = [n \in Nodes |-> <<>>]
    /\ ups = {} /\ faults = 0
    /\ got = <<>> /\ visits = [m \in Msgs |-> <<>>] /\ unsure = {}
    /\ crossed = {} /\ unwritten = {} /\ snapshot = {} /\ overrun = {} /\ steady = {}

Fault(kind) == kind \in inst.kinds /\ faults < inst.faults /\ faults' = faults + 1

(* Every step of Redis may fail instead.                                   *)
RedisFails == Fault("redis")

-----------------------------------------------------------------------------
(* The business server's stream: Connect and Hub.AddStream.                *)

(* AddStream under its lock; the first stream of the node still has to     *)
(* call SetServing.  A stopping node refuses.                              *)
AddStream(s) ==
    LET n == inst.at[s] IN
    /\ spc[s] = "new" /\ phase[n] \in {"up", "http", "close", "drain"}
    /\ streams' = [streams EXCEPT ![n] = Append(@, s)]
    /\ spc' = [spc EXCEPT ![s] = IF streams[n] = <<>> THEN "declare" ELSE "open"]
    /\ UNCHANGED <<inst, liveVars, tabVars, connVars, busVars, stopVars, ups, faults, crossed, steady>>

(* Other streams of the node between their lock and their SetServing.      *)
Pending(n) == {s \in StreamsAt(n) : spc[s] \in {"declare", "retract"}}

(* Variant: nobody is told that the node stopped serving.                  *)
SetServingQuiet(n, on) ==
    /\ serving' = IF on THEN serving \cup {n} ELSE serving \ {n}
    /\ tracked' = IF on THEN tracked \cup {n} ELSE tracked
    /\ everSrv' = everSrv \cup {n}
    /\ sig' = IF on THEN sig \cup {n} ELSE sig

SetServing(n, on) ==
    /\ serving' = IF on THEN serving \cup {n} ELSE serving \ {n}
    /\ tracked' = IF on THEN tracked \cup {n} ELSE tracked
    /\ everSrv' = everSrv \cup {n}
    /\ sig' = sig \cup {n}

Declare(s) ==
    LET n == inst.at[s] IN
    /\ spc[s] = "declare"
    /\ SetServing(n, TRUE)
    /\ spc' = [spc EXCEPT ![s] = "open"]
    /\ crossed' = IF Pending(n) = {s} THEN crossed ELSE crossed \cup {n}
    /\ UNCHANGED <<inst, streams, lv, srvTab, view, connVars, busVars, stopVars, ups, faults, unwritten, steady>>

(* Recv fails (the business server went away), or stopping is closed.      *)
StreamEnds(s) ==
    /\ spc[s] = "open"
    /\ spc' = [spc EXCEPT ![s] = "ended"]
    /\ steady' = IF phase[inst.at[s]] = "stop" THEN steady ELSE steady \ {inst.at[s]}
    /\ UNCHANGED <<inst, streams, liveVars, tabVars, connVars, busVars, stopVars, ups, faults, crossed>>

(* The list is copied, not changed in place; it holds a stream once.       *)
Without(n, s) ==
    RemoveAt(streams[n], CHOOSE i \in DOMAIN streams[n] : streams[n][i] = s)

(* The deferred remove, once the workers of the stream are finished.       *)
RemoveStream(s) ==
    LET n == inst.at[s]
        list == Without(n, s)
    IN
    /\ spc[s] = "ended"
    /\ streams' = [streams EXCEPT ![n] = list]
    /\ spc' = [spc EXCEPT ![s] = IF list = <<>> THEN "retract" ELSE "done"]
    /\ UNCHANGED <<inst, liveVars, tabVars, connVars, busVars, stopVars, ups, faults, crossed, steady>>

Retract(s) ==
    LET n == inst.at[s] IN
    /\ spc[s] = "retract"
    /\ SetServing(n, FALSE)
    /\ spc' = [spc EXCEPT ![s] = "done"]
    /\ crossed' = IF Pending(n) = {s} THEN crossed ELSE crossed \cup {n}
    /\ UNCHANGED <<inst, streams, lv, srvTab, view, connVars, busVars, stopVars, ups, faults, unwritten, steady>>

-----------------------------------------------------------------------------
(* Liveness.Run, which ends when the node is told to stop: on a tick Beat, *)
(* Refresh and writeServingTable, on a signal writeServingTable alone.     *)

LvRest == UNCHANGED <<inst, streamVars, connVars, busVars, stopVars, ups, serving, everSrv, tracked>>

Tick(n) ==
    /\ phase[n] = "up" /\ lv[n].at = "idle" /\ n \in inst.ticks
    /\ lv' = [lv EXCEPT ![n] = [at |-> "beat", on |-> n \in serving]]
    /\ UNCHANGED <<srvTab, view, sig, faults, unwritten>> /\ LvRest

Beat(n) ==
    /\ phase[n] = "up" /\ lv[n].at = "beat"
    /\ \/ /\ srvTab' = IF lv[n].on THEN srvTab \cup {n} ELSE srvTab
          /\ UNCHANGED faults
       \/ RedisFails /\ UNCHANGED srvTab
    /\ lv' = [lv EXCEPT ![n].at = "refresh"]
    /\ UNCHANGED <<view, sig, unwritten>> /\ LvRest

(* The application's serving nodes, read from Redis only if it is tracked; *)
(* then writeServingTable reads what to write, when the node ever served.  *)
Refresh(n) ==
    /\ phase[n] = "up" /\ lv[n].at = "refresh"
    /\ \/ /\ view' = [view EXCEPT ![n] = IF n \in tracked THEN srvTab ELSE {}]
          /\ UNCHANGED faults
       \/ RedisFails /\ UNCHANGED view
    /\ lv' = [lv EXCEPT ![n] = IF n \in everSrv THEN [at |-> "write", on |-> n \in serving]
                                                 ELSE [@ EXCEPT !.at = "idle"]]
    /\ UNCHANGED <<srvTab, sig, unwritten>> /\ LvRest

Signalled(n) ==
    /\ phase[n] = "up" /\ lv[n].at = "idle" /\ n \in sig
    /\ sig' = sig \ {n}
    /\ lv' = [lv EXCEPT ![n] = [at |-> "write", on |-> n \in serving]]
    /\ UNCHANGED <<srvTab, view, faults, unwritten>> /\ LvRest

WriteServingTable(n) ==
    /\ phase[n] = "up" /\ lv[n].at = "write"
    /\ \/ /\ srvTab' = IF lv[n].on THEN srvTab \cup {n} ELSE srvTab \ {n}
          /\ unwritten' = unwritten \ {n}
          /\ UNCHANGED faults
       \/ RedisFails /\ unwritten' = unwritten \cup {n} /\ UNCHANGED srvTab
    /\ lv' = [lv EXCEPT ![n].at = "idle"]
    /\ UNCHANGED <<view, sig>> /\ LvRest

(* The entry of a node that is gone is filtered by its age, and expires.   *)
Stale(n) ==
    /\ phase[n] = "down" /\ n \in srvTab
    /\ srvTab' = srvTab \ {n}
    /\ UNCHANGED <<inst, streamVars, liveVars, tracked, view, connVars, busVars, stopVars, ups, faults>>

-----------------------------------------------------------------------------
(* Hub.Deliver, run by goroutine g with the envelope out[g] on node At(g). *)

Subscribed(n) == phase[n] = "up"

(* ServerNodes without the node itself, ranked by weight for the subject:  *)
(* the i-th has i - 1 heavier ones.                                        *)
Candidates(n) == view[n] \ {n}

Heavier(ns, n) == {m \in ns : inst.weight[m] > inst.weight[n]}

Rank(ns) == [i \in 1..Cardinality(ns) |-> CHOOSE n \in ns : Cardinality(Heavier(ns, n)) = i - 1]

(* What the caller does with the result of Deliver: AddConn notes whether  *)
(* Connected was delivered, RemoveConn ends after Disconnected.            *)
Finish(g, ok) ==
    /\ out' = [out EXCEPT ![g] = None]
    /\ IF g \in Conns /\ cpc[g] = "hello"
         THEN /\ delivered' = IF ok THEN delivered \cup {g} ELSE delivered
              /\ cpc' = [cpc EXCEPT ![g] = "open"]
         ELSE /\ cpc' = IF g \in Conns /\ cpc[g] = "bye" THEN [cpc EXCEPT ![g] = "done"] ELSE cpc
              /\ UNCHANGED delivered

LocalStream(n) == streams[n][(inst.hash % Len(streams[n])) + 1]

DeliverRest == UNCHANGED <<inst, streamVars, liveVars, srvTab, stopVars, ups>>

(* A local stream: written, or the write fails and the envelope is gone.   *)
DeliverLocal(g) ==
    LET n == At(g) IN
    /\ out[g] # None /\ ~out[g].looping /\ streams[n] # <<>>
    /\ IF spc[LocalStream(n)] \in {"declare", "open"}
         THEN got' = Append(got, out[g].msg) /\ Finish(g, TRUE)
         ELSE UNCHANGED got /\ Finish(g, FALSE)
    /\ UNCHANGED <<tracked, view, faults, inbox, visits, unsure>> /\ DeliverRest

(* Only the first node computes the route.                                 *)
RouteOf(g) == IF out[g].route = None THEN Rank(Candidates(At(g))) ELSE out[g].route

(* No local stream.                                                        *)
DeliverRoute(g) ==
    LET n == At(g) IN
    /\ out[g] # None /\ ~out[g].looping /\ streams[n] = <<>>
    /\ out' = [out EXCEPT ![g] = [@ EXCEPT !.route = RouteOf(g), !.looping = TRUE]]
    /\ tracked' = IF out[g].route = None THEN tracked \cup {n} ELSE tracked
    /\ UNCHANGED <<view, connVars, faults, inbox, got, visits, unsure>> /\ DeliverRest

(* Variant: the cursor is moved after the envelope was encoded.            *)
SentEarly(env) == [env EXCEPT !.looping = FALSE]

(* What travels: the cursor already points behind the target.              *)
Sent(env) == [env EXCEPT !.hop = @ + 1, !.looping = FALSE]

(* One turn of the loop over the route: the target has a subscriber, it has*)
(* none and is dropped from the node's view, or the publish fails, after   *)
(* which the target may have the envelope all the same.                    *)
PublishNext(g) ==
    LET target == out[g].route[out[g].hop + 1]
        next   == [out[g] EXCEPT !.hop = @ + 1]
        Arrives == /\ inbox' = [inbox EXCEPT ![target] = Append(@, Sent(out[g]))]
                   /\ visits' = [visits EXCEPT ![next.msg] = Append(@, target)]
        Continue == out' = [out EXCEPT ![g] = next] /\ UNCHANGED connVars
    IN
    /\ out[g] # None /\ out[g].looping /\ out[g].hop < Len(out[g].route)
    /\ \/ /\ Subscribed(target) /\ Arrives /\ Finish(g, TRUE)
          /\ UNCHANGED <<view, faults, unsure>>
       \/ /\ ~Subscribed(target) /\ Continue
          /\ view' = [view EXCEPT ![At(g)] = @ \ {target}]
          /\ UNCHANGED <<faults, inbox, visits, unsure>>
       \/ /\ RedisFails /\ Continue
          /\ UNCHANGED <<view, inbox, visits, unsure>>
       \/ /\ Fault("unsure") /\ Subscribed(target) /\ Arrives /\ Continue
          /\ unsure' = unsure \cup {next.msg}
          /\ UNCHANGED view
    /\ UNCHANGED <<tracked, got>> /\ DeliverRest

(* No candidate is left: the envelope is dropped silently.                 *)
Drop(g) ==
    /\ out[g] # None /\ out[g].looping /\ out[g].hop = Len(out[g].route)
    /\ Finish(g, FALSE)
    /\ UNCHANGED <<tracked, view, faults, inbox, got, visits, unsure>> /\ DeliverRest

(* HandleEnvelope: the consumer of the node's channel, one at a time.      *)
HandleEnvelope(n) ==
    /\ Running(n) /\ out[n] = None /\ inbox[n] # <<>>
    /\ out' = [out EXCEPT ![n] = Head(inbox[n])]
    /\ inbox' = [inbox EXCEPT ![n] = Tail(@)]
    /\ UNCHANGED <<tracked, view, connVars, faults, got, visits, unsure>> /\ DeliverRest

-----------------------------------------------------------------------------
(* A client connection: ServeHTTP.                                         *)

ConnRest == UNCHANGED <<inst, streamVars, liveVars, srvTab, phase, snapshot, overrun,
                        inbox, got, visits, unsure>>

(* The request is accepted while the listener is open; the first one of the*)
(* application on the node loads it, which tracks it and refreshes.        *)
Accept(c) ==
    LET n == inst.at[c] IN
    /\ cpc[c] = "new" /\ phase[n] \in {"up", "http"}
    /\ cpc' = [cpc EXCEPT ![c] = "shake"]
    /\ tracked' = tracked \cup {n}
    /\ \/ view' = [view EXCEPT ![n] = IF n \in tracked THEN @ ELSE srvTab] /\ UNCHANGED faults
       \/ n \notin tracked /\ RedisFails /\ UNCHANGED view
    /\ UNCHANGED <<closed, delivered, out, ups>> /\ ConnRest

(* AddConn: into the hub's table, then emit Connected.                     *)
AddConn(c) ==
    /\ cpc[c] = "shake" /\ Running(inst.at[c])
    /\ cpc' = [cpc EXCEPT ![c] = "hello"]
    /\ out' = [out EXCEPT ![c] = Envelope(c, "Connected")]
    /\ UNCHANGED <<closed, delivered, tracked, view, faults, ups>> /\ ConnRest

(* readLoop hands a message of the client to Deliver.                      *)
SendUp(c) ==
    /\ cpc[c] = "open" /\ out[c] = None /\ c \in inst.ups \ ups
    /\ ups' = ups \cup {c}
    /\ out' = [out EXCEPT ![c] = Envelope(c, "Up")]
    /\ UNCHANGED <<closed, cpc, delivered, tracked, view, faults>> /\ ConnRest

(* readLoop ends: the client left, was idle, or Close was called.          *)
ReadEnds(c) ==
    /\ cpc[c] = "open" /\ out[c] = None
    /\ cpc' = [cpc EXCEPT ![c] = "leaving"]
    /\ closed' = closed \ {c}
    /\ UNCHANGED <<delivered, out, tracked, view, faults, ups>> /\ ConnRest

(* RemoveConn: out of the table, and emit Disconnected if Connected was    *)
(* delivered; AddConn has long returned.                                   *)
RemoveConn(c) ==
    /\ cpc[c] = "leaving"
    /\ cpc' = [cpc EXCEPT ![c] = IF c \in delivered THEN "bye" ELSE "done"]
    /\ out' = [out EXCEPT ![c] = IF c \in delivered THEN Envelope(c, "Disconnected") ELSE None]
    /\ UNCHANGED <<closed, delivered, tracked, view, faults, ups>> /\ ConnRest

-----------------------------------------------------------------------------
(* serve and shutdown.                                                     *)

StopRest == UNCHANGED <<inst, crossed, liveVars, tracked, view, got, visits, unsure, ups>>

(* The signal cancels the context: the subscription and Liveness.Run end.  *)
Signal(n) ==
    /\ phase[n] = "up" /\ n \in inst.stops
    /\ phase' = [phase EXCEPT ![n] = "http"]
    /\ UNCHANGED <<spc, streams, steady, srvTab, connVars, out, inbox, closed, snapshot, overrun, faults>> /\ StopRest

(* httpSrv.Shutdown closes the listener and leaves hijacked connections.   *)
HttpShutdown(n) ==
    /\ phase[n] = "http"
    /\ phase' = [phase EXCEPT ![n] = "close"]
    /\ UNCHANGED <<spc, streams, steady, srvTab, connVars, out, inbox, closed, snapshot, overrun, faults>> /\ StopRest

Healthy(n) == \A s \in ToSet(streams[n]) : spc[s] # "ended"

CloseLocalConns(n) ==
    /\ phase[n] = "close"
    /\ closed' = closed \cup Table(n)
    /\ snapshot' = snapshot \cup Table(n)
    /\ steady' = IF streams[n] # <<>> /\ Healthy(n) THEN steady \cup {n} ELSE steady
    /\ phase' = [phase EXCEPT ![n] = IF Table(n) = {} THEN "stop" ELSE "drain"]
    /\ UNCHANGED <<spc, streams, srvTab, connVars, out, inbox, overrun, faults>> /\ StopRest

(* Variant: the table alone.                                               *)
UnsettledTable(n) == Table(n)

UnsettledConns(n) == Table(n) \cup Teardowns(n)

(* waitConnsDrained, until all is settled or the budget is used up.        *)
WaitConnsDrained(n) ==
    /\ phase[n] = "drain"
    /\ \/ UnsettledConns(n) = {} /\ UNCHANGED <<overrun, faults>>
       \/ Fault("budget") /\ overrun' = overrun \cup {n}
    /\ phase' = [phase EXCEPT ![n] = "stop"]
    /\ UNCHANGED <<spc, streams, steady, srvTab, connVars, out, inbox, closed, snapshot>> /\ StopRest

(* grpcSrv.Stop: stopping is closed, every handler ends and is waited for. *)
GrpcStop(n) ==
    /\ phase[n] = "stop"
    /\ \A s \in StreamsAt(n) : spc[s] \in {"new", "done"}
    /\ phase' = [phase EXCEPT ![n] = "deregister"]
    /\ UNCHANGED <<spc, streams, steady, srvTab, connVars, out, inbox, closed, snapshot, overrun, faults>> /\ StopRest

(* What ends with the process.                                             *)
Exit(n) ==
    LET here == {c \in Conns : inst.at[c] = n /\ cpc[c] # "new"} IN
    /\ phase' = [phase EXCEPT ![n] = "down"]
    /\ cpc' = [c \in Conns |-> IF c \in here THEN "done" ELSE cpc[c]]
    /\ spc' = [s \in Streams |-> IF s \in StreamsAt(n) THEN "done" ELSE spc[s]]
    /\ streams' = [streams EXCEPT ![n] = <<>>]
    /\ out' = [g \in DOMAIN out |-> IF g \in here \cup {n} THEN None ELSE out[g]]
    /\ inbox' = [inbox EXCEPT ![n] = <<>>]
    /\ closed' = closed \ here

(* The entries of the node are deleted, or left to expire.                 *)
Deregister(n) ==
    /\ phase[n] = "deregister"
    /\ \/ srvTab' = (IF n \in everSrv THEN srvTab \ {n} ELSE srvTab) /\ UNCHANGED faults
       \/ RedisFails /\ UNCHANGED srvTab
    /\ Exit(n)
    /\ UNCHANGED <<steady, delivered, snapshot, overrun>> /\ StopRest

Crash(n) ==
    /\ Running(n) /\ Fault("crash")
    /\ Exit(n)
    /\ UNCHANGED <<steady, delivered, srvTab, snapshot, overrun>> /\ StopRest

-----------------------------------------------------------------------------
StreamNext(s) == AddStream(s) \/ Declare(s) \/ StreamEnds(s) \/ RemoveStream(s) \/ Retract(s)
LivenessNext(n) == Tick(n) \/ Beat(n) \/ Refresh(n) \/ Signalled(n) \/ WriteServingTable(n) \/ Stale(n)
DeliverNext(g) == DeliverLocal(g) \/ DeliverRoute(g) \/ PublishNext(g) \/ Drop(g)
ConnNext(c) == Accept(c) \/ AddConn(c) \/ SendUp(c) \/ ReadEnds(c) \/ RemoveConn(c)
ShutdownNext(n) == Signal(n) \/ HttpShutdown(n) \/ CloseLocalConns(n) \/ WaitConnsDrained(n)
                     \/ GrpcStop(n) \/ Deregister(n) \/ Crash(n)

Next ==
    \/ \E s \in Streams : StreamNext(s)
    \/ \E n \in Nodes : LivenessNext(n) \/ HandleEnvelope(n) \/ ShutdownNext(n)
    \/ \E g \in Nodes \cup Conns : DeliverNext(g)
    \/ \E c \in Conns : ConnNext(c)

Spec == Init /\ [][Next]_vars

-----------------------------------------------------------------------------
(* A node with no call of SetServing under way, no signal waiting and no   *)
(* write under way.                                                        *)
Settled(n) == phase[n] = "up" /\ Pending(n) = {} /\ n \notin sig /\ lv[n].at = "idle"

(* The table in Redis is right about every settled node: the merged signals*)
(* of Liveness lose no change of the node's streams.  Excepted are a write *)
(* that failed, until the next one, and two calls of SetServing that       *)
(* overlapped (hub.go decides under its lock and calls outside it).        *)
ServingSettles ==
    \A n \in Nodes \ (crossed \cup unwritten) :
        Settled(n) => (n \in srvTab <=> streams[n] # <<>>)

Count(m) == Cardinality({i \in DOMAIN got : got[i] = m})

(* An envelope follows one route: it is handed to a business server at most*)
(* once, is published to a node at most once and never to the node where   *)
(* its connection lives, although nodes disagree on who serves and streams *)
(* come and go while it travels.  Excepted is a publish that failed after  *)
(* it had arrived: the loop goes on to the next candidate.                 *)
HandedOnce ==
    \A m \in Msgs :
        /\ m \in unsure \/ (Count(m) <= 1 /\ IsInjective(visits[m]))
        /\ inst.at[m[1]] \notin ToSet(visits[m])

(* When shutdown stops gRPC, the business has been told of the end of every*)
(* connection that shutdown closed and that it knew of, if its streams on  *)
(* the node stayed and the budget was not used up.                         *)
ShutdownHandsOver ==
    \A n \in steady \ overrun : phase[n] \in {"stop", "deregister"} =>
        \A c \in snapshot \cap delivered :
            inst.at[c] = n => Count(<<c, "Disconnected">>) = 1

=============================================================================
