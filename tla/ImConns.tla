------------------------------ MODULE ImConns ------------------------------
(***************************************************************************)
(* The connections of one subject of one application on the fp-im nodes.   *)
(*                                                                         *)
(* A client's WebSocket is served by one goroutine (wsapi.ServeHTTP):      *)
(* handshake script on the subject's hash in Redis, eviction of the        *)
(* connections it replaces, entry into the node's hub, read loop,          *)
(* teardown.  Other goroutines close connections (Kick, OnRevoked, Push on *)
(* a full queue, KICK envelopes from other nodes), keep the node's view of *)
(* the live nodes (Liveness) and register everything again after Redis     *)
(* lost its data (reregistrar).                                            *)
(*                                                                         *)
(* Every Redis command and every critical section is a step of its own.    *)
(* Redis may cut a node's subscription or lose its data, a node may crash, *)
(* an HDEL, a renewal or a re-registration may fail, a Kick half way.      *)
(***************************************************************************)
EXTENDS Integers, Sequences, FiniteSets

CONSTANTS
    Nodes,             \* fp-im processes; a restarted one has a new id
    Conns,             \* connection attempts, each with its own connId
    Policies,          \* the AppConfig.ConnPolicy values to consider
    Limit,             \* AppConfig.ConnLimit
    FaultKinds,        \* the faults to consider
    MaxFaults,         \* bound: how many of them happen
    MaxKicks           \* bound: calls of Kick

Gap == "gap"           \* a signal that the subscription was interrupted

ConnsConstants ==
    /\ Nodes \cap Conns = {} /\ Gap \notin Conns
    /\ Policies \subseteq {"replace", "reject", "limit"}
    /\ Limit \in Nat \ {0}
    /\ FaultKinds \subseteq {"crash", "cut", "loss", "remove", "kick", "renew"}
    /\ MaxFaults \in Nat /\ MaxKicks \in Nat

ASSUME ConnsAssumption == ConnsConstants

VARIABLES
    policy,            \* the application's policy
    home,              \* the node the load balancer sends each connection to
    reg,               \* the fields of the subject's hash: registered connections
    nodeTab,           \* fp:im:node: the nodes whose heartbeat is fresh
    alive, sub,        \* running nodes; those subscribed to their channel
    inbox,             \* per node: signals received and not handled yet
    view,              \* per node: Liveness.live
    pc,                \* per connection: where its goroutine is
    closed,            \* connections on which Evict called Close, still in the read loop
    table,             \* the connections in the hubs of their nodes
    evict,             \* refs an Evict loop (of a handshake or of a Kick) has left
    rr,                \* per node: the reregistrar's round
    faults, kicks, losses, \* how often the bounded events happened
    accident           \* history: connections taken out of the registry without being
                       \* closed, by one of the accidents of InServiceIsRouted

given     == <<policy, home>>
nodeVars  == <<alive, sub, nodeTab, view>>
connVars  == <<pc, closed, table>>
budget    == <<faults, kicks, losses>>
vars == <<given, reg, nodeVars, inbox, connVars, evict, rr, budget, accident>>

PC   == {"new", "registered", "open", "leaving", "removed", "done", "dead"}
Idle == [at |-> "idle", present |-> FALSE, todo |-> {}]

On(n) == {c \in Conns : home[c] = n}

(* A goroutine that runs Evict: the handshake of a connection, or Kick.    *)
Host(e) == IF e \in Conns THEN home[e] ELSE e

(* Types; the hub holds the connections between AddConn and RemoveConn, and*)
(* only subscriptions of running nodes exist.                              *)
TypeOK ==
    /\ policy \in Policies /\ home \in [Conns -> Nodes]
    /\ reg \subseteq Conns
    /\ table = {c \in Conns : pc[c] \in {"open", "leaving", "removed"}}
    /\ closed \subseteq {c \in Conns : pc[c] = "open"}
    /\ nodeTab \subseteq Nodes /\ alive \subseteq Nodes /\ sub \subseteq alive
    /\ inbox \in [Nodes -> Seq(Conns \cup {Gap})]
    /\ view \in [Nodes -> SUBSET Nodes]
    /\ pc \in [Conns -> PC]
    /\ evict \in [Conns \cup Nodes -> SUBSET Conns]
    /\ rr \in [Nodes -> [at : {"idle", "check", "beat", "register"},
                         present : BOOLEAN, todo : SUBSET Conns]]
    /\ faults \in 0..MaxFaults /\ kicks \in 0..MaxKicks /\ losses \in 0..MaxFaults
    /\ accident \subseteq Conns

-----------------------------------------------------------------------------
(* Every node has subscribed, beaten and refreshed before it accepts       *)
(* connections.                                                            *)
Init ==
    /\ policy \in Policies /\ home \in [Conns -> Nodes]
    /\ reg = {} /\ table = {} /\ closed = {}
    /\ nodeTab = Nodes /\ alive = Nodes /\ sub = Nodes
    /\ inbox = [n \in Nodes |-> <<>>]
    /\ view = [n \in Nodes |-> Nodes]
    /\ pc = [c \in Conns |-> "new"]
    /\ evict = [e \in Conns \cup Nodes |-> {}]
    /\ rr = [n \in Nodes |-> Idle]
    /\ faults = 0 /\ kicks = 0 /\ losses = 0
    /\ accident = {}

Mark(cs) == accident' = accident \cup {c \in cs : pc[c] \in {"registered", "open"}}

Fault(kind) == kind \in FaultKinds /\ faults < MaxFaults /\ faults' = faults + 1

-----------------------------------------------------------------------------
(* handshakeScript, called on node n for connection c: drop the fields of  *)
(* nodes outside n's view, decide, replace, register.                      *)
LiveNodes(n) == view[n] \cup {n}

Purged(n) == {d \in reg : home[d] \notin LiveNodes(n)}

Existing(n, c) == reg \ (Purged(n) \cup {c})

(* Variant: one connection more than the limit.                            *)
RejectsAboveLimit(n, c) ==
    \/ policy = "reject" /\ Existing(n, c) # {}
    \/ policy = "limit"  /\ Cardinality(Existing(n, c)) > Limit

Rejects(n, c) ==
    \/ policy = "reject" /\ Existing(n, c) # {}
    \/ policy = "limit"  /\ Cardinality(Existing(n, c)) >= Limit

Replaced(n, c) == IF policy = "replace" THEN Existing(n, c) ELSE {}

Handshake(c) ==
    LET n == home[c] IN
    /\ pc[c] = "new" /\ n \in alive
    /\ IF Rejects(n, c)
         THEN /\ reg' = reg \ Purged(n)
              /\ pc' = [pc EXCEPT ![c] = "done"]
              /\ UNCHANGED evict
         ELSE /\ reg' = (Existing(n, c) \ Replaced(n, c)) \cup {c}
              /\ pc' = [pc EXCEPT ![c] = "registered"]
              /\ evict' = [evict EXCEPT ![c] = Replaced(n, c)]
    /\ Mark({d \in Purged(n) : home[d] \in alive})
    /\ UNCHANGED <<given, nodeVars, inbox, closed, table, rr, budget>>

(* Variant: the KICK is received and nothing is closed.                    *)
CloseLocalIgnored(d) == UNCHANGED <<closed, accident>>

(* closeLocal: the connection is found only once AddConn has run.          *)
CloseLocal(d) ==
    /\ closed' = IF d \in table /\ pc[d] = "open" THEN closed \cup {d} ELSE closed
    /\ IF pc[d] = "registered" THEN Mark({d}) ELSE UNCHANGED accident

(* One turn of the loop in Evict: close a local connection, or publish a   *)
(* KICK to the connection's node, which nobody receives without a          *)
(* subscription.                                                           *)
Evict(e, d) ==
    LET m == home[d] IN
    /\ d \in evict[e]
    /\ evict' = [evict EXCEPT ![e] = @ \ {d}]
    /\ \/ /\ m = Host(e)
          /\ CloseLocal(d)
          /\ UNCHANGED inbox
       \/ /\ m # Host(e) /\ m \in sub
          /\ inbox' = [inbox EXCEPT ![m] = Append(@, d)]
          /\ UNCHANGED <<closed, accident>>
       \/ /\ m # Host(e) /\ m \notin sub
          /\ Mark({d})
          /\ UNCHANGED <<closed, inbox>>
    /\ UNCHANGED <<given, reg, nodeVars, pc, table, rr, budget>>

(* AddConn, once Evict is through.  "open" covers the Connected event, the *)
(* result frame and the read loop: a Close in that time is seen by the     *)
(* writer as soon as it runs.                                              *)
AddConn(c) ==
    /\ pc[c] = "registered" /\ evict[c] = {}
    /\ pc' = [pc EXCEPT ![c] = "open"]
    /\ table' = table \cup {c}
    /\ UNCHANGED <<given, reg, nodeVars, inbox, closed, evict, rr, budget, accident>>

(* The read loop ends: the writer closed the socket because Close was      *)
(* called.                                                                 *)
Wake(c) ==
    /\ pc[c] = "open" /\ c \in closed
    /\ pc' = [pc EXCEPT ![c] = "leaving"]
    /\ closed' = closed \ {c}
    /\ UNCHANGED <<given, reg, nodeVars, inbox, table, evict, rr, budget, accident>>

(* The read loop ends for another reason: the client went away, the result *)
(* frame could not be written, or the connection was closed by its idle    *)
(* timer, a revoked token, a full queue or the shutdown of the node.       *)
ReadEnds(c) ==
    /\ pc[c] = "open" /\ c \notin closed
    /\ pc' = [pc EXCEPT ![c] = "leaving"]
    /\ UNCHANGED <<given, reg, nodeVars, inbox, closed, table, evict, rr, budget,
                   accident>>

(* teardown, first half: HDEL of the own field; a failure is only logged.  *)
RegistryRemove(c) ==
    /\ pc[c] = "leaving"
    /\ pc' = [pc EXCEPT ![c] = "removed"]
    /\ \/ reg' = reg \ {c} /\ UNCHANGED faults
       \/ Fault("remove") /\ UNCHANGED reg
    /\ UNCHANGED <<given, nodeVars, inbox, closed, table, evict, rr, kicks, losses,
                   accident>>

(* teardown, second half: out of the hub, socket closed.                   *)
RemoveConn(c) ==
    /\ pc[c] = "removed"
    /\ pc' = [pc EXCEPT ![c] = "done"]
    /\ table' = table \ {c} /\ accident' = accident \ {c}
    /\ UNCHANGED <<given, reg, nodeVars, inbox, closed, evict, rr, budget>>

(* A field reaches its TTL: no hub renews it any more, or renewLoop's      *)
(* renewals failed, which it ignores.                                      *)
Expire(c) ==
    /\ c \in reg
    /\ "renew" \in FaultKinds \/ (c \notin table /\ pc[c] # "registered")
    /\ reg' = reg \ {c}
    /\ Mark({c})
    /\ UNCHANGED <<given, nodeVars, inbox, connVars, evict, rr, budget>>

-----------------------------------------------------------------------------
(* Hub.Kick on node n, of everybody or of connection d: the scripts take   *)
(* the fields, then Evict runs over what they returned.                    *)
Kick(n, refs) ==
    /\ n \in alive /\ evict[n] = {} /\ kicks < MaxKicks
    /\ refs # {}
    /\ kicks' = kicks + 1
    /\ reg' = reg \ refs
    /\ UNCHANGED <<given, nodeVars, inbox, connVars, rr, losses>>

KickAll(n) ==
    /\ Kick(n, reg)
    /\ evict' = [evict EXCEPT ![n] = reg]
    /\ UNCHANGED <<faults, accident>>

KickOne(n, d) ==
    /\ Kick(n, {d} \cap reg)
    /\ evict' = [evict EXCEPT ![n] = {d}]
    /\ UNCHANGED <<faults, accident>>

(* Several connIds, and the script for a later one fails: Kick returns     *)
(* without an Evict.                                                       *)
KickError(n, d) ==
    /\ Kick(n, {d} \cap reg)
    /\ Fault("kick")
    /\ Mark({d})
    /\ UNCHANGED evict

(* A node found without a subscription when something was published to it  *)
(* (a Push or an event, of this or of another subject) leaves the view.    *)
DropLocal(n, m) ==
    /\ n \in alive /\ m \in view[n] \ (sub \cup {n})
    /\ view' = [view EXCEPT ![n] = @ \ {m}]
    /\ UNCHANGED <<given, reg, nodeTab, alive, sub, inbox, connVars, evict, rr, budget,
                   accident>>
-----------------------------------------------------------------------------
(* Liveness.Run: heartbeat and refresh of the view.                        *)
Beat(n) ==
    /\ n \in alive
    /\ nodeTab' = nodeTab \cup {n}
    /\ UNCHANGED <<given, reg, alive, sub, view, inbox, connVars, evict, rr, budget,
                   accident>>

Refresh(n) ==
    /\ n \in alive
    /\ view' = [view EXCEPT ![n] = nodeTab \cup {n}]
    /\ UNCHANGED <<given, reg, nodeTab, alive, sub, inbox, connVars, evict, rr, budget,
                   accident>>

(* The connections of n that have no field and will not get one in the     *)
(* reregistrar's round over todo.                                          *)
Unrouted(n, todo) ==
    {c \in On(n) : pc[c] \in {"registered", "open"}} \ (reg \cup todo)

(* runBusLoop takes one signal: a KICK, or a gap, for which onGap starts a *)
(* round unless one is running.                                            *)
Consume(n) ==
    LET sig == Head(inbox[n]) IN
    /\ inbox[n] # <<>>
    /\ inbox' = [inbox EXCEPT ![n] = Tail(@)]
    /\ \/ /\ sig # Gap
          /\ CloseLocal(sig)
          /\ UNCHANGED rr
       \/ /\ sig = Gap /\ rr[n] = Idle
          /\ rr' = [rr EXCEPT ![n].at = "check"]
          /\ UNCHANGED <<closed, accident>>
       \/ /\ sig = Gap /\ rr[n] # Idle
          /\ Mark(Unrouted(n, rr[n].todo))
          /\ UNCHANGED <<rr, closed>>
    /\ UNCHANGED <<given, reg, nodeVars, pc, table, evict, budget>>

(* reregistrar.run: is the own heartbeat entry still there?  A lookup that *)
(* fails counts as no.                                                     *)
SelfPresent(n) ==
    /\ rr[n].at = "check"
    /\ \E present \in BOOLEAN :
         /\ present => n \in nodeTab
         /\ rr' = [rr EXCEPT ![n] = [at |-> "beat", present |-> present, todo |-> {}]]
    /\ UNCHANGED <<given, reg, nodeVars, inbox, connVars, evict, budget, accident>>

(* ... heartbeat, which may fail; done if the entry was there, else a      *)
(* snapshot of the connections in the hub is to be registered again.       *)
Snapshot(n) ==
    LET todo == IF rr[n].present THEN {} ELSE table \cap On(n) IN
    /\ rr[n].at = "beat"
    /\ nodeTab' \in {nodeTab, nodeTab \cup {n}}
    /\ rr' = [rr EXCEPT ![n] =
                 IF todo = {} THEN Idle ELSE [Idle EXCEPT !.at = "register", !.todo = todo]]
    /\ Mark(Unrouted(n, todo))
    /\ UNCHANGED <<given, reg, alive, sub, view, inbox, connVars, evict, budget>>

(* ... one connection: the handshake script with PolicyNone; if it fails,  *)
(* the connection is counted and not tried again.                          *)
Reregister(n, c) ==
    /\ rr[n].at = "register" /\ c \in rr[n].todo
    /\ \/ /\ reg' = (reg \ Purged(n)) \cup {c}
          /\ Mark({d \in Purged(n) : home[d] \in alive})
       \/ /\ Mark({c} \ reg)
          /\ UNCHANGED reg
    /\ rr' = [rr EXCEPT ![n] =
                 IF rr[n].todo = {c} THEN Idle ELSE [rr[n] EXCEPT !.todo = @ \ {c}]]
    /\ UNCHANGED <<given, nodeVars, inbox, connVars, evict, budget>>
-----------------------------------------------------------------------------
(* The connection that carries a node's subscription breaks; signals not   *)
(* yet received are lost.                                                  *)
Cut(n) ==
    /\ n \in sub
    /\ Fault("cut")
    /\ sub' = sub \ {n}
    /\ \E k \in 0..Len(inbox[n]) :
         /\ inbox' = [inbox EXCEPT ![n] = SubSeq(@, 1, k)]
         /\ Mark({inbox[n][i] : i \in (k+1)..Len(inbox[n])} \cap Conns)
    /\ UNCHANGED <<given, reg, alive, nodeTab, view, connVars, evict, rr, kicks,
                   losses>>

(* go-redis subscribes again; the bus reports it as a gap.                 *)
Resubscribe(n) ==
    /\ n \in alive \ sub
    /\ sub' = sub \cup {n}
    /\ inbox' = [inbox EXCEPT ![n] = Append(@, Gap)]
    /\ UNCHANGED <<given, reg, alive, nodeTab, view, connVars, evict, rr, budget,
                   accident>>

(* Redis restarts without its data; all subscriptions break.               *)
Loss ==
    /\ Fault("loss")
    /\ losses' = losses + 1
    /\ reg' = {} /\ nodeTab' = {} /\ sub' = {}
    /\ UNCHANGED <<given, alive, view, inbox, connVars, evict, rr, kicks, accident>>

(* A node's process dies; its heartbeat entry stays until it is stale.     *)
Crash(n) ==
    /\ n \in alive
    /\ Fault("crash")
    /\ alive' = alive \ {n} /\ sub' = sub \ {n}
    /\ inbox' = [inbox EXCEPT ![n] = <<>>]
    /\ pc' = [c \in Conns |-> IF home[c] = n /\ pc[c] # "done" THEN "dead" ELSE pc[c]]
    /\ table' = table \ On(n) /\ closed' = closed \ On(n)
    /\ evict' = [e \in DOMAIN evict |-> IF Host(e) = n THEN {} ELSE evict[e]]
    /\ accident' = (accident \cup
                     UNION {evict[e] : e \in {x \in DOMAIN evict : Host(x) = n}}) \ On(n)
    /\ rr' = [rr EXCEPT ![n] = Idle]
    /\ UNCHANGED <<given, reg, nodeTab, view, kicks, losses>>

NodeStale(n) ==
    /\ n \in nodeTab \ alive
    /\ nodeTab' = nodeTab \ {n}
    /\ UNCHANGED <<given, reg, alive, sub, view, inbox, connVars, evict, rr, budget,
                   accident>>
-----------------------------------------------------------------------------
ConnStep(c) ==
    \/ Handshake(c) \/ AddConn(c) \/ Wake(c) \/ ReadEnds(c)
    \/ RegistryRemove(c) \/ RemoveConn(c) \/ Expire(c)
    \/ \E e \in Conns \cup Nodes : Evict(e, c)

NodeStep(n) ==
    \/ KickAll(n) \/ (\E d \in Conns : KickOne(n, d) \/ KickError(n, d))
    \/ (\E m \in Nodes : DropLocal(n, m))
    \/ Beat(n) \/ Refresh(n) \/ Consume(n)
    \/ SelfPresent(n) \/ Snapshot(n) \/ (\E c \in Conns : Reregister(n, c))
    \/ Cut(n) \/ Resubscribe(n) \/ Crash(n) \/ NodeStale(n)

Next == Loss \/ (\E c \in Conns : ConnStep(c)) \/ (\E n \in Nodes : NodeStep(n))

Spec == Init /\ [][Next]_vars
-----------------------------------------------------------------------------
(* An eviction of c is still on its way.                                   *)
Evicting(c) ==
    \/ \E e \in DOMAIN evict : c \in evict[e]
    \/ \E i \in DOMAIN inbox[home[c]] : inbox[home[c]][i] = c

(* Node n still has a gap to handle.                                       *)
Recovering(n) ==
    \/ n \notin sub
    \/ \E i \in DOMAIN inbox[n] : inbox[n][i] = Gap
    \/ rr[n] # Idle

(* A connection that serves its client: accepted and nobody closes it.     *)
InService(c) ==
    pc[c] \in {"registered", "open"} /\ c \notin closed /\ ~Evicting(c)

(* A connection in service can be found by the other nodes, or its node is *)
(* about to register it again; eight accidents are the only exceptions: it *)
(* was evicted before AddConn, its KICK was lost, a node that could not    *)
(* see its node purged it, a re-registration skipped it, its handshake in  *)
(* one failed, a gap during one was merged, its renewals failed until the  *)
(* field expired, a Kick failed half way.                                  *)
InServiceIsRouted ==
    \A c \in Conns : InService(c) /\ c \notin accident
                        => c \in reg \/ Recovering(home[c])

(* What comments of the repository say and the code does not keep, so that *)
(* TLC refutes both (README, section 6).  PushMany: replace and reject     *)
(* leave the subject "at most one connection in the whole network".        *)
OneConnection ==
    policy \in {"replace", "reject"} =>
        Cardinality({c \in Conns : pc[c] = "open" /\ c \notin closed /\ ~Evicting(c)}) <= 1

(* onGap merges a gap into the round that is running, and "never misses a  *)
(* connection added later": one that is in the hub and has no field by     *)
(* then is among those the round still registers.                          *)
MergeMissesNobody ==
    [][\A n \in Nodes :
         Consume(n) /\ Head(inbox[n]) = Gap /\ rr[n].at = "register"
            => {c \in On(n) : pc[c] = "open"} \subseteq reg \cup rr[n].todo]_vars

(* While Redis keeps its data, the subject has no more connections in      *)
(* service than the policy allows, the eight accidents apart.               *)
WithinPolicy ==
    losses = 0 =>
        Cardinality({c \in Conns : InService(c) /\ c \notin accident})
            <= IF policy = "limit" THEN Limit ELSE 1

=============================================================================
