-------------------------- MODULE ImClientProofs --------------------------
(***************************************************************************)
(* Proofs about the clients' side of the IM service, for any number of     *)
(* nodes, connections, clients, tokens and faults and any limits: the      *)
(* connection registry and hub (ImConns) and the way in (ImEntry).         *)
(***************************************************************************)
EXTENDS ImConns, ImEntry, FiniteSetTheorems, TLAPS

-----------------------------------------------------------------------------
(* The connection registry                                                 *)

\* The state of TypeOK, group by group, and what holds between them.
ConnPlaces ==
    /\ policy \in Policies /\ home \in [Conns -> Nodes]
    /\ reg \subseteq Conns /\ accident \subseteq Conns
    /\ nodeTab \subseteq Nodes /\ alive \subseteq Nodes /\ sub \subseteq alive
    /\ view \in [Nodes -> SUBSET Nodes]

ConnCounts == faults \in 0..MaxFaults /\ kicks \in 0..MaxKicks /\ losses \in 0..faults

\* A connection on a node that runs no longer is over.
ConnPcs ==
    /\ pc \in [Conns -> PC]
    /\ table = {c \in Conns : pc[c] \in {"open", "leaving", "removed"}}
    /\ closed \subseteq {c \in Conns : pc[c] = "open"}
    /\ \A c \in Conns : home[c] \notin alive => pc[c] \in {"dead", "done"}

\* A node's channel carries the KICKs of its own connections, while the node runs.
ConnSignals ==
    /\ inbox \in [Nodes -> Seq(Conns \cup {Gap})]
    /\ \A n \in Nodes : \A i \in DOMAIN inbox[n] : inbox[n][i] # Gap => home[inbox[n][i]] = n
    /\ \A n \in Nodes : n \notin alive => inbox[n] = <<>>

\* Before its handshake a goroutine evicts nobody.
ConnEvicts ==
    /\ evict \in [Conns \cup Nodes -> SUBSET Conns]
    /\ \A c \in Conns : pc[c] = "new" => evict[c] = {}

ConnRounds ==
    /\ rr \in [Nodes -> [at : {"idle", "check", "beat", "register"},
                         present : BOOLEAN, todo : SUBSET Conns]]
    /\ \A n \in Nodes : rr[n].at = "idle" \/ n \notin alive => rr[n] = Idle

ConnTypes ==
    /\ ConnsConstants
    /\ ConnPlaces /\ ConnCounts /\ ConnPcs /\ ConnSignals /\ ConnEvicts /\ ConnRounds

\* The connections in service that no accident befell; those among them without a field.
Serves(c) == InService(c) /\ c \notin accident
Served == {c \in Conns : Serves(c)}
Missing(c) == Serves(c) /\ c \notin reg

\* The gap that will bring it back is not handled yet, or its round is to register it.
Restored(c) ==
    LET n == home[c] IN
    \/ n \notin sub
    \/ \E i \in DOMAIN inbox[n] : inbox[n][i] = Gap
    \/ rr[n].at \in {"check", "beat"}
    \/ rr[n].at = "register" /\ c \in rr[n].todo

\* What one handshake after another leaves in the registry.
Room == IF policy = "limit" THEN Limit ELSE 1

\* As long as Redis keeps its data, those served had room; a field that a re-registration put
\* back for a connection already on its way out may come on top.
FewServed == IsFiniteSet(reg) /\ (losses = 0 => Cardinality(Served) <= Room)

RegInv ==
    /\ ConnTypes /\ FewServed
    /\ \A c \in Conns : Missing(c) => losses # 0 /\ Restored(c)

LEMMA ConnTypesTypeOK == ConnTypes => TypeOK
<1>1. ConnTypes => losses \in 0..MaxFaults
  BY DEF ConnTypes, ConnCounts, ConnsConstants
<1>. QED
  BY <1>1 DEF ConnTypes, TypeOK, ConnPlaces, ConnCounts, ConnPcs, ConnSignals, ConnEvicts,
              ConnRounds

\* Every node is up and nobody is connected.
LEMMA ConnTypesInit == ConnsConstants /\ Init => ConnTypes
<1>. SUFFICES ASSUME ConnsConstants, Init PROVE ConnTypes
  OBVIOUS
<1>1. \A S : <<>> \in Seq(S)
  OBVIOUS
<1>2. ConnPlaces /\ ConnCounts /\ ConnPcs
  BY DEF Init, ConnsConstants, PC, ConnPlaces, ConnCounts, ConnPcs
<1>3. ConnSignals
  BY <1>1 DEF Init, ConnSignals
<1>4. ConnEvicts /\ ConnRounds
  BY DEF Init, ConnEvicts, ConnRounds, Idle
<1>. QED
  BY <1>2, <1>3, <1>4 DEF ConnTypes

\* What a step that leaves a group alone needs.
LEMMA ConnSame ==
    ASSUME ConnTypes, home' = home
    PROVE  /\ UNCHANGED <<policy, reg, accident, nodeTab, alive, sub, view>> => ConnPlaces'
           /\ UNCHANGED <<faults, kicks, losses>> => ConnCounts'
           /\ UNCHANGED <<pc, table, closed, alive>> => ConnPcs'
           /\ UNCHANGED <<inbox, alive>> => ConnSignals'
           /\ UNCHANGED <<evict, pc>> => ConnEvicts'
           /\ UNCHANGED <<rr, alive>> => ConnRounds'
  <1>1. UNCHANGED <<policy, reg, accident, nodeTab, alive, sub, view>> => ConnPlaces'
    BY DEF ConnTypes, ConnPlaces
  <1>2. UNCHANGED <<faults, kicks, losses>> => ConnCounts'
    BY DEF ConnTypes, ConnCounts
  <1>3. UNCHANGED <<pc, table, closed, alive>> => ConnPcs'
    BY DEF ConnTypes, ConnPcs
  <1>4. UNCHANGED <<inbox, alive>> => ConnSignals'
    BY DEF ConnTypes, ConnSignals
  <1>5. UNCHANGED <<evict, pc>> => ConnEvicts'
    BY DEF ConnTypes, ConnEvicts
  <1>6. UNCHANGED <<rr, alive>> => ConnRounds'
    BY DEF ConnTypes, ConnRounds
  <1>. QED
    BY <1>1, <1>2, <1>3, <1>4, <1>5, <1>6

\* A goroutine that is not over runs on a node that runs.
LEMMA ConnMoves ==
    ASSUME ConnTypes, NEW c \in Conns, NEW p \in PC \ {"new"}, home[c] \in alive,
           pc' = [pc EXCEPT ![c] = p], UNCHANGED <<home, alive>>
    PROVE  /\ pc' \in [Conns -> PC] /\ pc'[c] = p /\ \A d \in Conns : d # c => pc'[d] = pc[d]
           /\ \A d \in Conns : home'[d] \notin alive' => pc'[d] \in {"dead", "done"}
           /\ UNCHANGED evict => ConnEvicts'
  BY DEF ConnTypes, ConnPcs, ConnEvicts

LEMMA ConnBusy ==
    ASSUME ConnTypes, NEW c \in Conns, pc[c] \notin {"dead", "done"} PROVE home[c] \in alive
  BY DEF ConnTypes, ConnPcs

\* One signal more on a channel.
LEMMA ConnAppends ==
    ASSUME ConnTypes, NEW n \in Nodes, NEW s \in Conns \cup {Gap}, s # Gap => home[s] = n,
           inbox' = [inbox EXCEPT ![n] = Append(@, s)], n \in alive, UNCHANGED <<home, alive>>
    PROVE  ConnSignals'
  <1>1. inbox \in [Nodes -> Seq(Conns \cup {Gap})] /\ inbox[n] \in Seq(Conns \cup {Gap})
    BY DEF ConnTypes, ConnSignals
  <1>2. /\ Append(inbox[n], s) \in Seq(Conns \cup {Gap})
        /\ \A i \in DOMAIN Append(inbox[n], s) :
             \/ Append(inbox[n], s)[i] = s
             \/ i \in DOMAIN inbox[n] /\ Append(inbox[n], s)[i] = inbox[n][i]
    BY <1>1
  <1>3. inbox'[n] = Append(inbox[n], s) /\ \A m \in Nodes : m # n => inbox'[m] = inbox[m]
    BY <1>1
  <1>4. inbox' \in [Nodes -> Seq(Conns \cup {Gap})]
    BY <1>1, <1>2
  <1>5. ASSUME NEW m \in Nodes, NEW i \in DOMAIN inbox'[m], inbox'[m][i] # Gap
        PROVE  home'[inbox'[m][i]] = m
    <2>1. CASE m = n
      BY <2>1, <1>2, <1>3, <1>5 DEF ConnTypes, ConnSignals
    <2>2. CASE m # n
      BY <2>2, <1>3, <1>5 DEF ConnTypes, ConnSignals
    <2>. QED
      BY <2>1, <2>2
  <1>. QED
    BY <1>3, <1>4, <1>5 DEF ConnTypes, ConnSignals

\* A channel of which some signals are gone.
LEMMA ConnShortens ==
    ASSUME ConnTypes, NEW n \in Nodes, NEW q \in Seq(Conns \cup {Gap}),
           \A i \in DOMAIN q : \E j \in DOMAIN inbox[n] : q[i] = inbox[n][j],
           inbox' = [inbox EXCEPT ![n] = q], UNCHANGED home,
           alive' = alive \/ (alive' = alive \ {n} /\ q = <<>>)
    PROVE  ConnSignals'
  <1>1. inbox \in [Nodes -> Seq(Conns \cup {Gap})]
    BY DEF ConnTypes, ConnSignals
  <1>2. inbox'[n] = q /\ \A m \in Nodes : m # n => inbox'[m] = inbox[m]
    BY <1>1
  <1>3. inbox' \in [Nodes -> Seq(Conns \cup {Gap})]
    BY <1>1
  <1>4. ASSUME NEW m \in Nodes, NEW i \in DOMAIN inbox'[m], inbox'[m][i] # Gap
        PROVE  home'[inbox'[m][i]] = m
    <2>1. CASE m = n
      BY <2>1, <1>2, <1>4 DEF ConnTypes, ConnSignals
    <2>2. CASE m # n
      BY <2>2, <1>2, <1>4 DEF ConnTypes, ConnSignals
    <2>. QED
      BY <2>1, <2>2
  <1>5. q = <<>> \/ inbox[n] # <<>>
    BY <1>1 DEF ConnTypes, ConnSignals
  <1>6. \A m \in Nodes : m \notin alive' => inbox'[m] = <<>>
    BY <1>2, <1>5 DEF ConnTypes, ConnSignals
  <1>. QED
    BY <1>3, <1>4, <1>6 DEF ConnSignals

\* One round's new state.
LEMMA ConnAwake == ASSUME ConnTypes, NEW n \in Nodes, rr[n] # Idle PROVE n \in alive
  BY DEF ConnTypes, ConnRounds

LEMMA ConnRound ==
    ASSUME ConnTypes, NEW n \in Nodes,
           NEW r \in [at : {"idle", "check", "beat", "register"}, present : BOOLEAN,
                      todo : SUBSET Conns],
           r.at = "idle" => r = Idle, n \in alive, rr' = [rr EXCEPT ![n] = r], UNCHANGED alive
    PROVE  ConnRounds' /\ rr'[n] = r /\ \A m \in Nodes : m # n => rr'[m] = rr[m]
  BY DEF ConnTypes, ConnRounds, Idle

\* The goroutine of a connection.
LEMMA ConnStepTypes == ASSUME ConnTypes, NEW c \in Conns, ConnStep(c) PROVE ConnTypes'
<1>0. ConnsConstants /\ ConnPlaces /\ ConnCounts /\ ConnPcs
  BY DEF ConnTypes
<1>1. CASE Handshake(c)
  <2>1. /\ UNCHANGED <<policy, home, nodeTab, alive, sub, view, inbox, closed, table, rr>>
        /\ UNCHANGED <<faults, kicks, losses>>
        /\ pc[c] = "new" /\ home[c] \in alive
    BY <1>1 DEF Handshake, given, nodeVars, budget
  <2>2. ConnPlaces'
    BY <1>1, <1>0, <2>1 DEF Handshake, Purged, Existing, Replaced, Mark, ConnPlaces
  <2>3. CASE Rejects(home[c], c)
    <3>1. pc' = [pc EXCEPT ![c] = "done"] /\ evict' = evict
      BY <1>1, <2>3 DEF Handshake
    <3>2. "done" \in PC \ {"new"}
      BY DEF PC
    <3>3. /\ pc' \in [Conns -> PC] /\ pc'[c] = "done" /\ \A d \in Conns : d # c => pc'[d] = pc[d]
          /\ \A d \in Conns : home'[d] \notin alive' => pc'[d] \in {"dead", "done"}
          /\ ConnEvicts'
      BY <2>1, <3>1, <3>2, ConnMoves
    <3>4. ConnPcs'
      BY <1>0, <2>1, <3>3 DEF ConnPcs
    <3>. QED
      BY <2>1, <2>2, <3>3, <3>4, ConnSame, <1>0 DEF ConnTypes
  <2>4. CASE ~Rejects(home[c], c)
    <3>1. pc' = [pc EXCEPT ![c] = "registered"] /\ evict' = [evict EXCEPT ![c] = Replaced(home[c], c)]
      BY <1>1, <2>4 DEF Handshake
    <3>2. "registered" \in PC \ {"new"} /\ Replaced(home[c], c) \in SUBSET Conns
      BY <1>0 DEF PC, Replaced, Existing, ConnPlaces
    <3>3. /\ pc' \in [Conns -> PC] /\ pc'[c] = "registered" /\ \A d \in Conns : d # c => pc'[d] = pc[d]
          /\ \A d \in Conns : home'[d] \notin alive' => pc'[d] \in {"dead", "done"}
      BY <2>1, <3>1, <3>2, ConnMoves
    <3>4. ConnPcs'
      BY <1>0, <2>1, <3>3 DEF ConnPcs
    <3>5. ConnEvicts'
      BY <3>1, <3>2, <3>3 DEF ConnTypes, ConnEvicts
    <3>. QED
      BY <2>1, <2>2, <3>4, <3>5, ConnSame, <1>0 DEF ConnTypes
  <2>. QED
    BY <2>3, <2>4
<1>2. ASSUME NEW e \in Conns \cup Nodes, Evict(e, c) PROVE ConnTypes'
  <2>1. /\ UNCHANGED <<policy, home, reg, nodeTab, alive, sub, view, pc, table, rr>>
        /\ UNCHANGED <<faults, kicks, losses>>
    BY <1>2 DEF Evict, given, nodeVars, budget
  <2>2. evict' = [evict EXCEPT ![e] = @ \ {c}]
    BY <1>2 DEF Evict
  <2>3. ConnEvicts'
    BY <2>1, <2>2 DEF ConnTypes, ConnEvicts
  <2>4. ConnPcs' /\ ConnPlaces'
    BY <1>2, <1>0, <2>1 DEF Evict, CloseLocal, Mark, ConnPcs, ConnPlaces
  <2>5. inbox' = inbox \/ (home[c] \in sub /\ inbox' = [inbox EXCEPT ![home[c]] = Append(@, c)])
    BY <1>2 DEF Evict
  <2>6. home[c] \in Nodes /\ sub \subseteq alive
    BY <1>0 DEF ConnPlaces
  <2>7. ConnSignals'
    BY <2>1, <2>5, <2>6, ConnSame, ConnAppends
  <2>. QED
    BY <1>0, <2>1, <2>3, <2>4, <2>7, ConnSame DEF ConnTypes
<1>3. CASE AddConn(c) \/ Wake(c) \/ ReadEnds(c) \/ RegistryRemove(c) \/ RemoveConn(c)
  <2>1. /\ UNCHANGED <<policy, home, nodeTab, alive, sub, view, inbox, evict, rr, kicks, losses>>
        /\ pc[c] \in {"registered", "open", "leaving", "removed"}
    BY <1>3 DEF AddConn, Wake, ReadEnds, RegistryRemove, RemoveConn, given, nodeVars, budget
  <2>2. reg' \subseteq reg /\ accident' \subseteq accident /\ (faults' = faults \/ Fault("remove"))
    BY <1>3 DEF AddConn, Wake, ReadEnds, RegistryRemove, RemoveConn, budget
  <2>3. ConnPlaces'
    BY <1>0, <2>1, <2>2 DEF ConnPlaces
  <2>4. ConnCounts'
    BY <1>0, <2>1, <2>2 DEF ConnCounts, Fault, ConnsConstants
  <2>5. home[c] \in alive
    BY <2>1, ConnBusy
  <2>6. ASSUME NEW p \in {"open", "leaving", "removed", "done"}, pc' = [pc EXCEPT ![c] = p]
        PROVE ConnPcs' /\ ConnEvicts'
    <3>1. p \in PC \ {"new"}
      BY DEF PC
    <3>2. /\ pc' \in [Conns -> PC] /\ pc'[c] = p /\ \A d \in Conns : d # c => pc'[d] = pc[d]
          /\ \A d \in Conns : home'[d] \notin alive' => pc'[d] \in {"dead", "done"}
          /\ ConnEvicts'
      BY <2>1, <2>5, <2>6, <3>1, ConnMoves
    <3>3. /\ table' = {d \in Conns : pc'[d] \in {"open", "leaving", "removed"}}
          /\ closed' \subseteq {d \in Conns : pc'[d] = "open"}
      BY <1>3, <1>0, <2>6, <3>2 DEF AddConn, Wake, ReadEnds, RegistryRemove, RemoveConn, ConnPcs
    <3>. QED
      BY <3>2, <3>3 DEF ConnPcs
  <2>7. \E p \in {"open", "leaving", "removed", "done"} : pc' = [pc EXCEPT ![c] = p]
    BY <1>3 DEF AddConn, Wake, ReadEnds, RegistryRemove, RemoveConn
  <2>. QED
    BY <1>0, <2>1, <2>3, <2>4, <2>6, <2>7, ConnSame DEF ConnTypes
<1>4. CASE Expire(c)
  <2>1. /\ UNCHANGED <<policy, home, nodeTab, alive, sub, view, inbox, evict, rr>>
        /\ UNCHANGED <<faults, kicks, losses, pc, table, closed>>
        /\ reg' \subseteq reg /\ accident' \subseteq accident \cup {c}
    BY <1>4 DEF Expire, Mark, given, nodeVars, connVars, budget
  <2>2. ConnPlaces'
    BY <1>0, <2>1 DEF ConnPlaces
  <2>. QED
    BY <1>0, <2>1, <2>2, ConnSame DEF ConnTypes
<1>. QED
  BY <1>1, <1>2, <1>3, <1>4 DEF ConnStep

\* The goroutines of a node, and its process.
LEMMA NodeStepTypes == ASSUME ConnTypes, NEW n \in Nodes, NodeStep(n) PROVE ConnTypes'
<1>0. ConnsConstants /\ ConnPlaces /\ ConnCounts /\ ConnPcs /\ ConnSignals /\ ConnEvicts
      /\ ConnRounds
  BY DEF ConnTypes
<1>1. ASSUME NEW d \in Conns, KickAll(n) \/ KickOne(n, d) \/ KickError(n, d) PROVE ConnTypes'
  <2>1. /\ UNCHANGED <<policy, home, nodeTab, alive, sub, view, inbox, rr>>
        /\ UNCHANGED <<pc, table, closed, losses>>
        /\ kicks < MaxKicks /\ kicks' = kicks + 1 /\ reg' \subseteq reg
        /\ accident' \subseteq accident \cup {d}
        /\ faults' = faults \/ Fault("kick")
    BY <1>1 DEF KickAll, KickOne, KickError, Kick, Mark, given, nodeVars, connVars
  <2>2. ConnPlaces'
    BY <1>0, <2>1 DEF ConnPlaces
  <2>3. ConnCounts'
    BY <1>0, <2>1 DEF ConnCounts, Fault, ConnsConstants
  <2>4. evict' = evict \/ \E s \in SUBSET Conns : evict' = [evict EXCEPT ![n] = s]
    BY <1>0, <1>1 DEF KickAll, KickOne, KickError, ConnPlaces
  <2>5. n \notin Conns
    BY <1>0 DEF ConnsConstants
  <2>6. ConnEvicts'
    <3>1. CASE evict' = evict
      BY <3>1, <2>1, ConnSame
    <3>2. ASSUME NEW s \in SUBSET Conns, evict' = [evict EXCEPT ![n] = s] PROVE ConnEvicts'
      BY <1>0, <3>2, <2>1, <2>5 DEF ConnEvicts
    <3>. QED
      BY <2>4, <3>1, <3>2
  <2>. QED
    BY <1>0, <2>1, <2>2, <2>3, <2>6, ConnSame DEF ConnTypes
<1>2. ASSUME NEW m \in Nodes, DropLocal(n, m) \/ Beat(n) \/ Refresh(n) \/ NodeStale(n)
      PROVE ConnTypes'
  <2>1. /\ UNCHANGED <<policy, home, reg, alive, sub, inbox, rr, evict>>
        /\ UNCHANGED <<pc, table, closed, losses, faults, kicks, accident>>
    BY <1>2 DEF DropLocal, Beat, Refresh, NodeStale, given, connVars, budget
  <2>2. nodeTab' \subseteq Nodes /\ view' \in [Nodes -> SUBSET Nodes]
    BY <1>0, <1>2 DEF DropLocal, Beat, Refresh, NodeStale, ConnPlaces
  <2>3. ConnPlaces'
    BY <1>0, <2>1, <2>2 DEF ConnPlaces
  <2>. QED
    BY <1>0, <2>1, <2>3, ConnSame DEF ConnTypes
<1>3. CASE Consume(n)
  <2>1. /\ UNCHANGED <<policy, home, reg, nodeTab, alive, sub, view, evict, pc, table>>
        /\ UNCHANGED <<faults, kicks, losses>>
        /\ inbox[n] # <<>> /\ inbox' = [inbox EXCEPT ![n] = Tail(@)]
    BY <1>3 DEF Consume, given, nodeVars, budget
  <2>2. inbox[n] \in Seq(Conns \cup {Gap}) /\ Head(inbox[n]) \in Conns \cup {Gap}
    BY <1>0, <2>1 DEF ConnSignals
  <2>3. /\ Tail(inbox[n]) \in Seq(Conns \cup {Gap})
        /\ \A i \in DOMAIN Tail(inbox[n]) :
              i + 1 \in DOMAIN inbox[n] /\ Tail(inbox[n])[i] = inbox[n][i+1]
    BY <2>1, <2>2
  <2>4. ConnSignals'
    BY <2>1, <2>3, ConnShortens
  <2>5. closed' \subseteq {c \in Conns : pc[c] = "open"} /\ accident' \subseteq Conns
    BY <1>0, <1>3, <2>2 DEF Consume, CloseLocal, Mark, Unrouted, On, ConnPcs, ConnPlaces
  <2>6. ConnPlaces'
    BY <1>0, <2>1, <2>5 DEF ConnPlaces
  <2>7. ConnPcs'
    BY <1>0, <2>1, <2>5 DEF ConnPcs
  <2>8. rr' = rr \/ (rr[n] = Idle /\ rr' = [rr EXCEPT ![n] = [@ EXCEPT !.at = "check"]])
    BY <1>3 DEF Consume
  <2>9. ConnRounds'
    <3>1. CASE rr' = rr
      BY <3>1, <2>1, ConnSame
    <3>2. CASE rr[n] = Idle /\ rr' = [rr EXCEPT ![n] = [@ EXCEPT !.at = "check"]]
      <4>1. n \in alive
        BY <1>0, <2>1 DEF ConnSignals
      <4>. QED
        BY <3>2, <1>0, <2>1, <4>1 DEF ConnRounds, Idle
    <3>. QED
      BY <2>8, <3>1, <3>2
  <2>. QED
    BY <1>0, <2>1, <2>4, <2>6, <2>7, <2>9, ConnSame DEF ConnTypes
<1>4. CASE SelfPresent(n)
  <2>1. /\ UNCHANGED <<policy, home, reg, nodeTab, alive, sub, view, evict, pc, table, closed>>
        /\ UNCHANGED <<faults, kicks, losses, inbox, accident>>
    BY <1>4 DEF SelfPresent, given, nodeVars, connVars, budget
  <2>2. PICK present \in BOOLEAN :
           rr' = [rr EXCEPT ![n] = [at |-> "beat", present |-> present, todo |-> {}]]
    BY <1>4 DEF SelfPresent
  <2>3. [at |-> "beat", present |-> present, todo |-> {}]
          \in [at : {"idle", "check", "beat", "register"}, present : BOOLEAN, todo : SUBSET Conns]
    OBVIOUS
  <2>4. ConnRounds'
    <3>1. n \in alive
      BY <1>4, ConnAwake DEF SelfPresent, Idle
    <3>. QED
      BY <2>1, <2>2, <2>3, <3>1, ConnRound
  <2>. QED
    BY <1>0, <2>1, <2>4, ConnSame DEF ConnTypes
<1>5. CASE Snapshot(n)
  <2>. DEFINE todo == IF rr[n].present THEN {} ELSE table \cap On(n)
              r == IF todo = {} THEN Idle ELSE [Idle EXCEPT !.at = "register", !.todo = todo]
  <2>1. /\ UNCHANGED <<policy, home, reg, alive, sub, view, evict, pc, table, closed>>
        /\ UNCHANGED <<faults, kicks, losses, inbox>>
        /\ nodeTab' \subseteq nodeTab \cup {n} /\ rr' = [rr EXCEPT ![n] = r]
        /\ accident' \subseteq accident \cup On(n)
    BY <1>5 DEF Snapshot, given, connVars, budget, Mark, Unrouted
  <2>2. todo \in SUBSET Conns
    BY DEF On
  <2>3. /\ r \in [at : {"idle", "check", "beat", "register"}, present : BOOLEAN, todo : SUBSET Conns]
        /\ r.at = "idle" => r = Idle
    <3>. HIDE DEF todo
    <3>. QED
      BY <2>2 DEF Idle
  <2>. HIDE DEF r
  <2>4. ConnRounds'
    <3>1. n \in alive
      BY <1>5, ConnAwake DEF Snapshot, Idle
    <3>. QED
      BY <2>1, <2>3, <3>1, ConnRound
  <2>5. ConnPlaces'
    BY <1>0, <2>1 DEF ConnPlaces, On
  <2>. QED
    BY <1>0, <2>1, <2>4, <2>5, ConnSame DEF ConnTypes
<1>6. ASSUME NEW c \in Conns, Reregister(n, c) PROVE ConnTypes'
  <2>. DEFINE r == IF rr[n].todo = {c} THEN Idle ELSE [rr[n] EXCEPT !.todo = @ \ {c}]
  <2>1. /\ UNCHANGED <<policy, home, nodeTab, alive, sub, view, evict, pc, table, closed>>
        /\ UNCHANGED <<faults, kicks, losses, inbox>>
        /\ rr[n].at = "register"
        /\ reg' \subseteq reg \cup {c} /\ accident' \subseteq accident \cup reg \cup {c}
    BY <1>6 DEF Reregister, given, nodeVars, connVars, budget, Mark, Purged
  <2>6. rr' = [rr EXCEPT ![n] = r]
    BY <1>6, Zenon DEF Reregister
  <2>2. rr[n] \in [at : {"idle", "check", "beat", "register"}, present : BOOLEAN,
                   todo : SUBSET Conns]
    BY <1>0 DEF ConnRounds
  <2>3. /\ r \in [at : {"idle", "check", "beat", "register"}, present : BOOLEAN, todo : SUBSET Conns]
        /\ r.at = "idle" => r = Idle
    BY <2>1, <2>2 DEF Idle
  <2>. HIDE DEF r
  <2>4. ConnRounds'
    <3>1. n \in alive
      BY <1>6, ConnAwake DEF Reregister, Idle
    <3>. QED
      BY <2>1, <2>3, <2>6, <3>1, ConnRound
  <2>5. ConnPlaces'
    BY <1>0, <2>1 DEF ConnPlaces
  <2>. QED
    BY <1>0, <2>1, <2>4, <2>5, ConnSame DEF ConnTypes
<1>7. CASE Cut(n)
  <2>1. /\ UNCHANGED <<policy, home, reg, nodeTab, alive, view, evict, pc, table, closed, rr>>
        /\ UNCHANGED <<kicks, losses>>
        /\ Fault("cut") /\ sub' \subseteq sub /\ accident' \subseteq Conns
    BY <1>7, <1>0 DEF Cut, given, connVars, Mark, ConnPlaces
  <2>2. ConnPlaces'
    BY <1>0, <2>1 DEF ConnPlaces
  <2>3. ConnCounts'
    BY <1>0, <2>1 DEF ConnCounts, Fault, ConnsConstants
  <2>4. PICK k \in 0..Len(inbox[n]) : inbox' = [inbox EXCEPT ![n] = SubSeq(@, 1, k)]
    BY <1>7 DEF Cut
  <2>5. inbox[n] \in Seq(Conns \cup {Gap})
    BY <1>0 DEF ConnSignals
  <2>6. /\ SubSeq(inbox[n], 1, k) \in Seq(Conns \cup {Gap})
        /\ \A i \in DOMAIN SubSeq(inbox[n], 1, k) :
              i \in DOMAIN inbox[n] /\ SubSeq(inbox[n], 1, k)[i] = inbox[n][i]
    BY <2>4, <2>5
  <2>7. ConnSignals'
    BY <2>1, <2>4, <2>6, ConnShortens
  <2>. QED
    BY <1>0, <2>1, <2>2, <2>3, <2>7, ConnSame DEF ConnTypes
<1>8. CASE Resubscribe(n)
  <2>1. /\ UNCHANGED <<policy, home, reg, nodeTab, alive, view, evict, pc, table, closed, rr>>
        /\ UNCHANGED <<kicks, losses, faults, accident>>
        /\ n \in alive /\ sub' = sub \cup {n} /\ inbox' = [inbox EXCEPT ![n] = Append(@, Gap)]
    BY <1>8 DEF Resubscribe, given, connVars, budget
  <2>2. ConnPlaces'
    BY <1>0, <2>1 DEF ConnPlaces
  <2>3. ConnSignals'
    BY <2>1, ConnAppends
  <2>. QED
    BY <1>0, <2>1, <2>2, <2>3, ConnSame DEF ConnTypes
<1>9. CASE Crash(n)
  <2>1. /\ UNCHANGED <<policy, home, reg, nodeTab, view, kicks, losses>>
        /\ Fault("crash") /\ alive' = alive \ {n} /\ sub' = sub \ {n}
        /\ inbox' = [inbox EXCEPT ![n] = <<>>]
        /\ pc' = [c \in Conns |-> IF home[c] = n /\ pc[c] # "done" THEN "dead" ELSE pc[c]]
        /\ table' = table \ On(n) /\ closed' = closed \ On(n)
        /\ evict' = [e \in DOMAIN evict |-> IF Host(e) = n THEN {} ELSE evict[e]]
        /\ accident' = (accident \cup
                         UNION {evict[e] : e \in {x \in DOMAIN evict : Host(x) = n}}) \ On(n)
        /\ rr' = [rr EXCEPT ![n] = Idle]
    BY <1>9 DEF Crash, given
  <2>2. ConnPlaces'
    <3>1. accident' \subseteq Conns
      BY <1>0, <2>1 DEF ConnPlaces, ConnEvicts
    <3>. QED
      BY <1>0, <2>1, <3>1 DEF ConnPlaces
  <2>3. ConnCounts'
    BY <1>0, <2>1 DEF ConnCounts, Fault, ConnsConstants
  <2>4. ConnPcs'
    <3>1. pc' \in [Conns -> PC]
      BY <1>0, <2>1 DEF ConnPcs, PC
    <3>2. table' = {c \in Conns : pc'[c] \in {"open", "leaving", "removed"}}
      BY <1>0, <2>1 DEF ConnPcs, On, PC
    <3>3. closed' \subseteq {c \in Conns : pc'[c] = "open"}
      BY <1>0, <2>1 DEF ConnPcs, On
    <3>4. \A c \in Conns : home'[c] \notin alive' => pc'[c] \in {"dead", "done"}
      BY <1>0, <2>1 DEF ConnPcs
    <3>. QED
      BY <3>1, <3>2, <3>3, <3>4 DEF ConnPcs
  <2>5. ConnSignals'
    <3>1. <<>> \in Seq(Conns \cup {Gap}) /\ DOMAIN <<>> = {}
      OBVIOUS
    <3>. QED
      BY <2>1, <3>1, ConnShortens
  <2>6. ConnEvicts'
    BY <1>0, <2>1 DEF ConnEvicts
  <2>7. ConnRounds'
    BY <1>0, <2>1 DEF ConnRounds, Idle
  <2>. QED
    BY <1>0, <2>2, <2>3, <2>4, <2>5, <2>6, <2>7 DEF ConnTypes
<1>10. ASSUME NEW d \in Conns, KickError(n, d) \/ KickOne(n, d) PROVE ConnTypes'
  BY <1>1, <1>10
<1>11. ASSUME KickAll(n) PROVE ConnTypes'
  <2>1. \E d : d \in Conns
    BY <1>0, <1>11 DEF KickAll, Kick, ConnPlaces
  <2>. QED
    BY <1>1, <1>11, <2>1
<1>. QED
  BY <1>2, <1>3, <1>4, <1>5, <1>6, <1>7, <1>8, <1>9, <1>10, <1>11 DEF NodeStep

\* Redis without its data, and a step of any of them.
LEMMA ConnNextTypes == ASSUME ConnTypes, [Next]_vars PROVE ConnTypes'
<1>0. ConnsConstants /\ ConnPlaces /\ ConnCounts
  BY DEF ConnTypes
<1>1. CASE Loss
  <2>1. /\ UNCHANGED <<policy, home, alive, view, inbox, pc, table, closed, evict, rr, kicks>>
        /\ UNCHANGED accident
        /\ Fault("loss") /\ losses' = losses + 1
        /\ reg' = {} /\ nodeTab' = {} /\ sub' = {}
    BY <1>1 DEF Loss, given, connVars
  <2>2. ConnPlaces'
    BY <1>0, <2>1 DEF ConnPlaces
  <2>3. ConnCounts'
    BY <1>0, <2>1 DEF ConnCounts, Fault, ConnsConstants
  <2>. QED
    BY <1>0, <2>1, <2>2, <2>3, ConnSame DEF ConnTypes
<1>2. CASE UNCHANGED vars
  <2>1. /\ UNCHANGED <<policy, home, reg, accident, nodeTab, alive, sub, view, inbox, rr, evict>>
        /\ UNCHANGED <<pc, table, closed, faults, kicks, losses>>
    BY <1>2 DEF vars, given, nodeVars, connVars, budget
  <2>. QED
    BY <1>0, <2>1, ConnSame DEF ConnTypes
<1>. QED
  BY <1>1, <1>2, ConnStepTypes, NodeStepTypes DEF Next

\* Only an accepted handshake puts a connection in service.
LEMMA ConnStepServes ==
    ASSUME ConnTypes, NEW d \in Conns, ConnStep(d), NEW c \in Conns, Serves(c)'
    PROVE  Serves(c) \/ (Handshake(d) /\ ~Rejects(home[d], d) /\ c = d)
<1>0. ConnPlaces /\ ConnPcs /\ ConnSignals /\ ConnEvicts
  BY DEF ConnTypes
<1>00. pc'[c] \in {"registered", "open"} /\ c \notin closed' /\ ~Evicting(c)' /\ c \notin accident'
  BY DEF Serves, InService
<1>01. home[c] \in Nodes /\ home[d] \in Nodes
  BY <1>0 DEF ConnPlaces
<1>1. CASE Handshake(d)
  <2>1. UNCHANGED <<home, inbox, closed>> /\ c \notin accident
    BY <1>00, <1>1 DEF Handshake, Mark, given
  <2>2. CASE Rejects(home[d], d)
    <3>1. pc' = [pc EXCEPT ![d] = "done"] /\ evict' = evict
      BY <1>1, <2>2 DEF Handshake
    <3>2. c # d /\ pc'[c] = pc[c]
      BY <1>0, <1>00, <3>1 DEF ConnPcs
    <3>. QED
      BY <1>00, <2>1, <3>1, <3>2 DEF Serves, InService, Evicting
  <2>3. CASE ~Rejects(home[d], d) /\ c # d
    <3>1. /\ pc' = [pc EXCEPT ![d] = "registered"] /\ pc[d] = "new"
          /\ evict' = [evict EXCEPT ![d] = Replaced(home[d], d)]
      BY <1>1, <2>3 DEF Handshake
    <3>2. pc'[c] = pc[c]
      BY <1>0, <2>3, <3>1 DEF ConnPcs
    <3>3. /\ evict[d] = {} /\ DOMAIN evict' = DOMAIN evict
          /\ \A e \in DOMAIN evict : e # d => evict'[e] = evict[e]
      BY <1>0, <3>1 DEF ConnEvicts
    <3>4. ~Evicting(c)
      BY <1>00, <2>1, <3>3 DEF Evicting
    <3>. QED
      BY <1>00, <2>1, <3>2, <3>4 DEF Serves, InService
  <2>. QED
    BY <1>1, <2>2, <2>3
<1>2. ASSUME NEW e \in Conns \cup Nodes, Evict(e, d) PROVE Serves(c)
  <2>1. /\ UNCHANGED <<home, pc, table>>
        /\ d \in evict[e] /\ evict' = [evict EXCEPT ![e] = @ \ {d}]
    BY <1>2 DEF Evict, given
  <2>2. /\ DOMAIN evict' = DOMAIN evict /\ e \in DOMAIN evict
        /\ \A x \in DOMAIN evict : evict'[x] = IF x = e THEN evict[e] \ {d} ELSE evict[x]
    BY <1>0, <2>1 DEF ConnEvicts
  <2>3. CASE home[d] = Host(e)
    <3>1. CloseLocal(d) /\ inbox' = inbox
      BY <1>2, <2>3 DEF Evict
    <3>2. c # d
      BY <1>0, <1>00, <2>1, <3>1 DEF CloseLocal, Mark, ConnPcs
    <3>3. ~Evicting(c)
      BY <1>00, <2>1, <2>2, <3>1, <3>2 DEF Evicting
    <3>4. c \notin closed /\ c \notin accident
      BY <1>00, <3>1 DEF CloseLocal, Mark
    <3>. QED
      BY <1>00, <2>1, <3>3, <3>4 DEF Serves, InService
  <2>4. CASE home[d] # Host(e) /\ home[d] \in sub
    <3>1. inbox' = [inbox EXCEPT ![home[d]] = Append(@, d)] /\ UNCHANGED <<closed, accident>>
      BY <1>2, <2>4 DEF Evict
    <3>2. inbox[home[d]] \in Seq(Conns \cup {Gap}) /\ inbox[home[c]] \in Seq(Conns \cup {Gap})
      BY <1>0, <1>01 DEF ConnSignals
    <3>3. inbox'[home[d]] = Append(inbox[home[d]], d)
          /\ \A n \in Nodes : n # home[d] => inbox'[n] = inbox[n]
      BY <1>0, <1>01, <3>1 DEF ConnSignals
    <3>4. c # d
      <4>1. Len(inbox[home[d]]) + 1 \in DOMAIN inbox'[home[d]]
            /\ inbox'[home[d]][Len(inbox[home[d]]) + 1] = d
        BY <3>2, <3>3
      <4>. QED
        BY <1>00, <2>1, <4>1 DEF Evicting
    <3>5. \A i \in DOMAIN inbox[home[c]] :
             i \in DOMAIN inbox'[home[c]] /\ inbox'[home[c]][i] = inbox[home[c]][i]
      BY <1>01, <3>2, <3>3
    <3>6. ~Evicting(c)
      BY <1>00, <2>1, <2>2, <3>4, <3>5 DEF Evicting
    <3>. QED
      BY <1>00, <2>1, <3>1, <3>6 DEF Serves, InService
  <2>5. CASE home[d] # Host(e) /\ home[d] \notin sub
    <3>1. Mark({d}) /\ UNCHANGED <<closed, inbox>>
      BY <1>2, <2>5 DEF Evict
    <3>2. c # d /\ c \notin accident
      BY <1>00, <2>1, <3>1 DEF Mark
    <3>3. ~Evicting(c)
      BY <1>00, <2>1, <2>2, <3>1, <3>2 DEF Evicting
    <3>. QED
      BY <1>00, <2>1, <3>1, <3>2, <3>3 DEF Serves, InService
  <2>. QED
    BY <2>3, <2>4, <2>5
<1>3. CASE AddConn(d) \/ Wake(d) \/ ReadEnds(d) \/ RegistryRemove(d) \/ RemoveConn(d) \/ Expire(d)
  <2>1. UNCHANGED <<home, inbox, evict>>
    BY <1>3 DEF AddConn, Wake, ReadEnds, RegistryRemove, RemoveConn, Expire, given
  <2>2. pc[c] \in {"registered", "open"} /\ c \notin closed
    BY <1>0, <1>00, <1>3 DEF AddConn, Wake, ReadEnds, RegistryRemove, RemoveConn, Expire, connVars,
                             ConnPcs
  <2>3. c \notin accident
    BY <1>0, <1>00, <1>3 DEF AddConn, Wake, ReadEnds, RegistryRemove, RemoveConn, Expire, Mark,
                             ConnPcs
  <2>4. ~Evicting(c)
    BY <1>00, <2>1 DEF Evicting
  <2>. QED
    BY <2>2, <2>3, <2>4 DEF Serves, InService
<1>. QED
  BY <1>1, <1>2, <1>3 DEF ConnStep

LEMMA TailKeeps ==
    ASSUME NEW S, NEW q \in Seq(S), q # <<>>
    PROVE  \A i \in DOMAIN q : \/ q[i] = Head(q)
                               \/ i - 1 \in DOMAIN Tail(q) /\ Tail(q)[i-1] = q[i]
<1>1. ASSUME NEW i \in 1..Len(q), i # 1
      PROVE  i - 1 \in 1..Len(Tail(q)) /\ Tail(q)[i-1] = q[i]
  <2>1. Len(Tail(q)) = Len(q) - 1 /\ i - 1 \in 1..(Len(q) - 1)
    BY <1>1
  <2>2. Tail(q)[i-1] = q[i-1+1]
    BY <2>1
  <2>. QED
    BY <2>1, <2>2
<1>2. q[1] = Head(q) /\ DOMAIN q = 1..Len(q) /\ DOMAIN Tail(q) = 1..Len(Tail(q))
  OBVIOUS
<1>. QED
  BY <1>1, <1>2

\* A node that consumes a signal keeps the others.
LEMMA ConsumeKeeps ==
    ASSUME ConnTypes, NEW n \in Nodes, Consume(n), NEW m \in Nodes
    PROVE  \A i \in DOMAIN inbox[m] :
              \/ m = n /\ inbox[m][i] = Head(inbox[n])
              \/ \E j \in DOMAIN inbox'[m] : inbox'[m][j] = inbox[m][i]
<1>1. /\ inbox[n] # <<>> /\ inbox[n] \in Seq(Conns \cup {Gap})
      /\ inbox'[n] = Tail(inbox[n]) /\ \A x \in Nodes : x # n => inbox'[x] = inbox[x]
  BY DEF Consume, ConnTypes, ConnSignals
<1>2. CASE m = n
  <2>1. \A i \in DOMAIN inbox[n] :
           \/ inbox[n][i] = Head(inbox[n])
           \/ i - 1 \in DOMAIN inbox'[n] /\ inbox'[n][i-1] = inbox[n][i]
    BY <1>1, TailKeeps
  <2>. QED
    BY <1>2, <2>1
<1>3. CASE m # n
  <2>1. inbox'[m] = inbox[m]
    BY <1>1, <1>3
  <2>. QED
    BY <2>1
<1>. QED
  BY <1>2, <1>3

\* No node puts a connection in service.
LEMMA NodeStepServes ==
    ASSUME ConnTypes, NEW n \in Nodes, NodeStep(n), NEW c \in Conns, Serves(c)'
    PROVE  Serves(c)
<1>0. ConnPlaces /\ ConnPcs /\ ConnSignals /\ ConnEvicts
  BY DEF ConnTypes
<1>00. pc'[c] \in {"registered", "open"} /\ c \notin closed' /\ ~Evicting(c)' /\ c \notin accident'
  BY DEF Serves, InService
<1>01. home[c] \in Nodes /\ inbox[home[c]] \in Seq(Conns \cup {Gap})
  BY <1>0 DEF ConnPlaces, ConnSignals
<1>1. ASSUME NEW d, KickAll(n) \/ KickOne(n, d) \/ KickError(n, d) PROVE Serves(c)
  <2>1. UNCHANGED <<home, inbox, pc, closed>> /\ evict[n] = {} /\ accident \subseteq accident'
    BY <1>1 DEF KickAll, KickOne, KickError, Kick, Mark, given, connVars
  <2>2. evict' = evict \/ \E s : evict' = [evict EXCEPT ![n] = s]
    BY <1>1, Zenon DEF KickAll, KickOne, KickError
  <2>3. /\ DOMAIN evict' = DOMAIN evict
        /\ \A e \in DOMAIN evict : e # n => evict'[e] = evict[e]
    BY <1>0, <2>2 DEF ConnEvicts
  <2>4. ~Evicting(c)
    BY <1>00, <2>1, <2>3 DEF Evicting
  <2>. QED
    BY <1>00, <2>1, <2>4 DEF Serves, InService
<1>2. ASSUME NEW m \in Nodes, DropLocal(n, m) \/ Beat(n) \/ Refresh(n) \/ NodeStale(n)
      PROVE  Serves(c)
  <2>1. UNCHANGED <<home, inbox, evict, pc, closed, accident>>
    BY <1>2 DEF DropLocal, Beat, Refresh, NodeStale, given, connVars
  <2>. QED
    BY <1>00, <2>1 DEF Serves, InService, Evicting
<1>3. CASE Consume(n)
  <2>1. UNCHANGED <<home, evict, pc, table>>
    BY <1>3 DEF Consume, given
  <2>2. c # Head(inbox[n]) /\ c \notin closed /\ c \notin accident
    <3>1. CASE Head(inbox[n]) # Gap
      <4>1. CloseLocal(Head(inbox[n]))
        BY <1>3, <3>1 DEF Consume
      <4>. QED
        BY <1>0, <1>00, <2>1, <4>1 DEF CloseLocal, Mark, ConnPcs
    <3>2. CASE Head(inbox[n]) = Gap
      <4>1. c # Gap
        BY DEF ConnTypes, ConnsConstants
      <4>. QED
        BY <1>3, <1>00, <3>2, <4>1 DEF Consume, Mark
    <3>. QED
      BY <3>1, <3>2
  <2>3. ~Evicting(c)
    BY <1>00, <1>01, <1>3, <2>1, <2>2, ConsumeKeeps DEF Evicting
  <2>. QED
    BY <1>00, <2>1, <2>2, <2>3 DEF Serves, InService
<1>4. ASSUME NEW d \in Conns, SelfPresent(n) \/ Snapshot(n) \/ Reregister(n, d) PROVE Serves(c)
  <2>1. UNCHANGED <<home, inbox, evict, pc, closed>> /\ accident \subseteq accident'
    BY <1>4 DEF SelfPresent, Snapshot, Reregister, Mark, given, connVars
  <2>. QED
    BY <1>00, <2>1 DEF Serves, InService, Evicting
<1>5. CASE Cut(n)
  <2>1. UNCHANGED <<home, evict, pc, closed>> /\ accident \subseteq accident'
    BY <1>5 DEF Cut, Mark, given, connVars
  <2>2. PICK k \in 0..Len(inbox[n]) :
           /\ inbox' = [inbox EXCEPT ![n] = SubSeq(@, 1, k)]
           /\ Mark({inbox[n][i] : i \in (k+1)..Len(inbox[n])} \cap Conns)
    BY <1>5 DEF Cut
  <2>3. /\ inbox[n] \in Seq(Conns \cup {Gap}) /\ inbox'[n] = SubSeq(inbox[n], 1, k)
        /\ \A m \in Nodes : m # n => inbox'[m] = inbox[m]
    BY <1>0, <2>2 DEF ConnSignals
  <2>4. \A i \in DOMAIN inbox[n] : \/ i \in (k+1)..Len(inbox[n])
                                   \/ i \in DOMAIN inbox'[n] /\ inbox'[n][i] = inbox[n][i]
    BY <2>2, <2>3
  <2>5. ~Evicting(c)
    <3>1. ASSUME NEW i \in DOMAIN inbox[home[c]], inbox[home[c]][i] = c PROVE FALSE
      <4>1. CASE home[c] = n
        <5>1. i \in DOMAIN inbox[n] /\ inbox[n][i] = c
          BY <3>1, <4>1
        <5>2. CASE i \in (k+1)..Len(inbox[n])
          <6>. DEFINE cs == {inbox[n][j] : j \in (k+1)..Len(inbox[n])} \cap Conns
          <6>1. c \in cs
            BY <5>1, <5>2
          <6>2. Mark(cs)
            BY <2>2
          <6>3. pc[c] \in {"registered", "open"} /\ c \notin accident'
            BY <1>00, <2>1
          <6>. HIDE DEF cs
          <6>. QED
            BY <6>1, <6>2, <6>3 DEF Mark
        <5>3. CASE i \in DOMAIN inbox'[n] /\ inbox'[n][i] = inbox[n][i]
          BY <1>00, <2>1, <4>1, <5>1, <5>3 DEF Evicting
        <5>. QED
          BY <2>4, <5>1, <5>2, <5>3
      <4>2. CASE home[c] # n
        BY <1>00, <1>01, <2>1, <2>3, <3>1, <4>2 DEF Evicting
      <4>. QED
        BY <4>1, <4>2
    <3>. QED
      BY <1>00, <2>1, <3>1 DEF Evicting
  <2>. QED
    BY <1>00, <2>1, <2>5 DEF Serves, InService
<1>6. CASE Resubscribe(n)
  <2>1. UNCHANGED <<home, evict, pc, closed, accident>> /\ inbox' = [inbox EXCEPT ![n] = Append(@, Gap)]
    BY <1>6 DEF Resubscribe, given, connVars
  <2>2. /\ inbox[n] \in Seq(Conns \cup {Gap}) /\ inbox'[n] = Append(inbox[n], Gap)
        /\ \A m \in Nodes : m # n => inbox'[m] = inbox[m]
    BY <1>0, <2>1 DEF ConnSignals
  <2>3. \A i \in DOMAIN inbox[n] : i \in DOMAIN inbox'[n] /\ inbox'[n][i] = inbox[n][i]
    BY <2>2
  <2>4. ~Evicting(c)
    BY <1>00, <1>01, <2>1, <2>2, <2>3 DEF Evicting
  <2>. QED
    BY <1>00, <2>1, <2>4 DEF Serves, InService
<1>7. CASE Crash(n)
  <2>1. /\ UNCHANGED home
        /\ inbox' = [inbox EXCEPT ![n] = <<>>]
        /\ pc' = [x \in Conns |-> IF home[x] = n /\ pc[x] # "done" THEN "dead" ELSE pc[x]]
        /\ closed' = closed \ On(n)
        /\ evict' = [e \in DOMAIN evict |-> IF Host(e) = n THEN {} ELSE evict[e]]
        /\ accident' = (accident \cup
                         UNION {evict[e] : e \in {x \in DOMAIN evict : Host(x) = n}}) \ On(n)
    BY <1>7 DEF Crash, given
  <2>2. home[c] # n /\ pc'[c] = pc[c]
    BY <1>00, <2>1
  <2>3. inbox'[home[c]] = inbox[home[c]] /\ c \notin closed /\ c \notin accident
    BY <1>0, <1>00, <1>01, <2>1, <2>2 DEF On, ConnSignals
  <2>4. \A e \in DOMAIN evict : c \notin evict[e]
    BY <1>00, <2>1, <2>2 DEF On, Evicting
  <2>. QED
    BY <1>00, <2>1, <2>2, <2>3, <2>4 DEF Serves, InService, Evicting
<1>8. CASE \E d \in Conns : Reregister(n, d)
  BY <1>4, <1>8
<1>9. CASE SelfPresent(n) \/ Snapshot(n)
  BY <1>4, <1>9
<1>10. CASE KickAll(n) \/ \E d \in Conns : KickOne(n, d) \/ KickError(n, d)
  BY <1>1, <1>10
<1>. QED
  BY <1>2, <1>3, <1>5, <1>6, <1>7, <1>8, <1>9, <1>10 DEF NodeStep

\* What brings a connection back stays as long as its node's channel and round do.
LEMMA RestoredStays ==
    ASSUME RegInv, NEW c \in Conns, Missing(c), home' = home, losses' = losses,
           home[c] \in sub' => home[c] \in sub,
           \A i \in DOMAIN inbox[home[c]] : inbox[home[c]][i] = Gap =>
              \E j \in DOMAIN inbox'[home[c]] : inbox'[home[c]][j] = Gap,
           rr'[home[c]] = rr[home[c]]
    PROVE  losses' # 0 /\ Restored(c)'
<1>1. losses # 0 /\ Restored(c)
  BY DEF RegInv
<1>. QED
  BY <1>1 DEF Restored

\* No goroutine of a connection takes the field of one in service and leaves it alone.
LEMMA ConnStepMissing ==
    ASSUME RegInv, NEW d \in Conns, ConnStep(d), NEW c \in Conns, Missing(c)'
    PROVE  losses' # 0 /\ Restored(c)'
<1>0. ConnTypes /\ ConnPlaces /\ ConnPcs /\ ConnSignals /\ ConnEvicts
  BY DEF RegInv, ConnTypes
<1>00. Serves(c)' /\ c \notin reg' /\ c \notin accident' /\ pc'[c] \in {"registered", "open"}
  BY DEF Missing, Serves, InService
<1>01. home[c] \in Nodes /\ home[d] \in Nodes
  BY <1>0 DEF ConnPlaces
<1>02. Serves(c)
  <2>1. Handshake(d) /\ ~Rejects(home[d], d) => d \in reg'
    BY DEF Handshake
  <2>. QED
    BY <1>0, <1>00, <2>1, ConnStepServes
<1>03. pc[c] \in {"registered", "open"}
  BY <1>02 DEF Serves, InService
<1>1. CASE Handshake(d)
  <2>1. UNCHANGED <<home, sub, inbox, rr, losses>>
    BY <1>1 DEF Handshake, given, nodeVars, budget
  <2>2. home[c] \in alive
    BY <1>0, <1>03, ConnBusy
  <2>3. c \notin Purged(home[d])
    BY <1>00, <1>03, <1>1, <2>2 DEF Handshake, Mark
  <2>4. c \notin reg
    <3>1. CASE Rejects(home[d], d)
      BY <1>00, <1>1, <2>3, <3>1 DEF Handshake
    <3>2. CASE ~Rejects(home[d], d)
      <4>1. /\ reg' = (Existing(home[d], d) \ Replaced(home[d], d)) \cup {d}
            /\ evict' = [evict EXCEPT ![d] = Replaced(home[d], d)]
        BY <1>1, <3>2 DEF Handshake
      <4>2. d \in DOMAIN evict' /\ evict'[d] = Replaced(home[d], d)
        BY <1>0, <4>1 DEF ConnEvicts
      <4>3. c \notin Replaced(home[d], d)
        BY <1>00, <4>2 DEF Serves, InService, Evicting
      <4>. QED
        BY <1>00, <2>3, <4>1, <4>3 DEF Existing
    <3>. QED
      BY <3>1, <3>2
  <2>. QED
    BY <1>02, <2>1, <2>4, RestoredStays DEF Missing
<1>2. ASSUME NEW e \in Conns \cup Nodes, Evict(e, d) PROVE losses' # 0 /\ Restored(c)'
  <2>1. UNCHANGED <<home, reg, sub, rr, losses>>
    BY <1>2 DEF Evict, given, nodeVars, budget
  <2>2. inbox' = inbox \/ inbox' = [inbox EXCEPT ![home[d]] = Append(@, d)]
    BY <1>2 DEF Evict
  <2>3. inbox[home[d]] \in Seq(Conns \cup {Gap}) /\ inbox[home[c]] \in Seq(Conns \cup {Gap})
    BY <1>0, <1>01 DEF ConnSignals
  <2>4. \A i \in DOMAIN inbox[home[c]] :
           i \in DOMAIN inbox'[home[c]] /\ inbox'[home[c]][i] = inbox[home[c]][i]
    <3>1. CASE inbox' = inbox
      BY <3>1
    <3>2. CASE inbox' = [inbox EXCEPT ![home[d]] = Append(@, d)]
      <4>1. inbox'[home[d]] = Append(inbox[home[d]], d)
            /\ \A n \in Nodes : n # home[d] => inbox'[n] = inbox[n]
        BY <1>0, <1>01, <3>2 DEF ConnSignals
      <4>. QED
        BY <1>01, <2>3, <4>1
    <3>. QED
      BY <2>2, <3>1, <3>2
  <2>5. Missing(c)
    BY <1>00, <1>02, <2>1 DEF Missing
  <2>. QED
    BY <2>1, <2>4, <2>5, RestoredStays
<1>3. CASE AddConn(d) \/ Wake(d) \/ ReadEnds(d) \/ RegistryRemove(d) \/ RemoveConn(d) \/ Expire(d)
  <2>1. UNCHANGED <<home, sub, inbox, rr, losses>>
    BY <1>3 DEF AddConn, Wake, ReadEnds, RegistryRemove, RemoveConn, Expire, given, nodeVars, budget
  <2>2. c \notin reg
    BY <1>0, <1>00, <1>03, <1>3 DEF AddConn, Wake, ReadEnds, RegistryRemove, RemoveConn, Expire, Mark,
                                    ConnPcs
  <2>. QED
    BY <1>02, <2>1, <2>2, RestoredStays DEF Missing
<1>. QED
  BY <1>1, <1>2, <1>3 DEF ConnStep

\* Nor does a node.
LEMMA NodeStepMissing ==
    ASSUME RegInv, NEW n \in Nodes, NodeStep(n), NEW c \in Conns, Missing(c)'
    PROVE  losses' # 0 /\ Restored(c)'
<1>0. ConnTypes /\ ConnPlaces /\ ConnPcs /\ ConnSignals /\ ConnEvicts /\ ConnRounds
  BY DEF RegInv, ConnTypes
<1>00. c \notin accident' /\ c \notin reg' /\ Serves(c)' /\ ~Evicting(c)'
  BY DEF Missing, Serves, InService
<1>01. home[c] \in Nodes /\ inbox[home[c]] \in Seq(Conns \cup {Gap})
  BY <1>0 DEF ConnPlaces, ConnSignals
<1>02. Serves(c)
  BY <1>0, <1>00, NodeStepServes
<1>03. pc[c] \in {"registered", "open"} /\ home[c] \in alive
  BY <1>0, <1>02, ConnBusy DEF Serves, InService
<1>1. ASSUME NEW d, KickAll(n) \/ KickOne(n, d) \/ KickError(n, d)
      PROVE  losses' # 0 /\ Restored(c)'
  <2>1. UNCHANGED <<home, sub, inbox, rr, losses>>
    BY <1>1 DEF KickAll, KickOne, KickError, Kick, given, nodeVars
  <2>2. ASSUME NEW s, evict' = [evict EXCEPT ![n] = s] PROVE c \notin s
    <3>1. n \in DOMAIN evict' /\ evict'[n] = s
      BY <1>0, <2>2 DEF ConnEvicts
    <3>. QED
      BY <1>00, <3>1 DEF Evicting
  <2>3. c \notin reg
    <3>1. CASE KickAll(n)
      <4>1. evict' = [evict EXCEPT ![n] = reg]
        BY <3>1 DEF KickAll
      <4>. QED
        BY <4>1, <2>2
    <3>2. CASE KickOne(n, d)
      <4>1. evict' = [evict EXCEPT ![n] = {d}] /\ reg' = reg \ ({d} \cap reg)
        BY <3>2 DEF KickOne, Kick
      <4>2. c # d
        BY <4>1, <2>2
      <4>. QED
        BY <1>00, <4>1, <4>2
    <3>3. CASE KickError(n, d)
      BY <3>3, <1>00, <1>03 DEF KickError, Kick, Mark
    <3>. QED
      BY <1>1, <3>1, <3>2, <3>3
  <2>. QED
    BY <1>02, <2>1, <2>3, RestoredStays DEF Missing
<1>2. ASSUME NEW m \in Nodes, DropLocal(n, m) \/ Beat(n) \/ Refresh(n) \/ NodeStale(n)
      PROVE  losses' # 0 /\ Restored(c)'
  <2>1. UNCHANGED <<home, reg, sub, inbox, rr, losses>>
    BY <1>2 DEF DropLocal, Beat, Refresh, NodeStale, given, budget
  <2>2. Missing(c)
    BY <1>00, <1>02, <2>1 DEF Missing
  <2>. QED
    BY <2>1, <2>2, RestoredStays
<1>3. CASE Consume(n)
  <2>1. UNCHANGED <<home, reg, sub, losses>>
    BY <1>3 DEF Consume, given, nodeVars, budget
  <2>2. Missing(c) /\ losses # 0
    BY <1>00, <1>02, <2>1 DEF Missing, RegInv
  <2>3. \A i \in DOMAIN inbox[home[c]] :
           \/ home[c] = n /\ inbox[home[c]][i] = Head(inbox[n])
           \/ \E j \in DOMAIN inbox'[home[c]] : inbox'[home[c]][j] = inbox[home[c]][i]
    BY <1>0, <1>01, <1>3, ConsumeKeeps
  <2>7. CASE Head(inbox[n]) # Gap
    <3>1. rr' = rr
      BY <1>3, <2>7 DEF Consume
    <3>. QED
      BY <2>1, <2>2, <2>3, <2>7, <3>1, RestoredStays
  <2>4. CASE Head(inbox[n]) = Gap /\ home[c] # n
    <3>1. rr' = rr \/ rr' = [rr EXCEPT ![n].at = "check"]
      BY <1>3 DEF Consume
    <3>2. rr'[home[c]] = rr[home[c]]
      BY <1>01, <2>4, <3>1, <1>0 DEF ConnRounds
    <3>. QED
      BY <2>1, <2>2, <2>3, <2>4, <3>2, RestoredStays
  <2>5. CASE Head(inbox[n]) = Gap /\ home[c] = n /\ rr[n] = Idle
    <3>1. rr' = [rr EXCEPT ![n].at = "check"]
      BY <1>3, <2>5 DEF Consume
    <3>2. rr'[n].at = "check"
      BY <3>1, <1>0 DEF ConnRounds
    <3>. QED
      BY <2>1, <2>2, <2>5, <3>2 DEF Restored
  <2>6. CASE Head(inbox[n]) = Gap /\ home[c] = n /\ rr[n] # Idle
    <3>1. Mark(Unrouted(n, rr[n].todo)) /\ rr' = rr
      BY <1>3, <2>6 DEF Consume
    <3>2. c \in rr[n].todo
      BY <1>00, <1>03, <2>1, <2>6, <3>1 DEF Mark, Unrouted, On
    <3>3. rr[n].at \in {"check", "beat", "register"}
      BY <1>0, <2>6 DEF ConnRounds
    <3>. QED
      BY <2>1, <2>2, <2>6, <3>1, <3>2, <3>3 DEF Restored
  <2>. QED
    BY <2>4, <2>5, <2>6, <2>7
<1>4. ASSUME NEW d \in Conns, SelfPresent(n) \/ Snapshot(n) \/ Reregister(n, d)
      PROVE  losses' # 0 /\ Restored(c)'
  <2>1. UNCHANGED <<home, sub, inbox, losses>>
    BY <1>4 DEF SelfPresent, Snapshot, Reregister, given, nodeVars, budget
  <2>2. c \notin reg
    <3>1. CASE SelfPresent(n) \/ Snapshot(n)
      BY <1>00, <3>1 DEF SelfPresent, Snapshot
    <3>2. CASE Reregister(n, d)
      <4>1. \/ reg' = (reg \ Purged(n)) \cup {d} /\ Mark({x \in Purged(n) : home[x] \in alive})
            \/ reg' = reg
        BY <3>2 DEF Reregister
      <4>. QED
        BY <1>00, <1>03, <4>1 DEF Mark
    <3>. QED
      BY <1>4, <3>1, <3>2
  <2>3. Missing(c)
    BY <1>02, <2>2 DEF Missing
  <2>4. CASE home[c] # n
    <3>1. rr'[home[c]] = rr[home[c]]
      BY <1>4, <1>01, <2>4, <1>0 DEF SelfPresent, Snapshot, Reregister, ConnRounds
    <3>. QED
      BY <2>1, <2>3, <3>1, RestoredStays
  <2>5. CASE home[c] = n
    <3>1. losses # 0 /\ Restored(c)
      BY <2>3 DEF RegInv
    <3>2. CASE SelfPresent(n)
      <4>1. PICK present \in BOOLEAN :
               rr' = [rr EXCEPT ![n] = [at |-> "beat", present |-> present, todo |-> {}]]
        BY <3>2 DEF SelfPresent
      <4>2. rr'[n].at = "beat"
        BY <1>0, <4>1 DEF ConnRounds
      <4>. QED
        BY <2>1, <2>5, <3>1, <4>2 DEF Restored
    <3>3. CASE Snapshot(n)
      <4>. DEFINE todo == IF rr[n].present THEN {} ELSE table \cap On(n)
      <4>1. Mark(Unrouted(n, todo))
        BY <3>3 DEF Snapshot
      <4>2. c \in todo
        <5>. HIDE DEF todo
        <5>. QED
          BY <1>00, <1>03, <2>2, <2>5, <4>1 DEF Mark, Unrouted, On
      <4>3. rr' = [rr EXCEPT ![n] =
                      IF todo = {} THEN Idle ELSE [Idle EXCEPT !.at = "register", !.todo = todo]]
        BY <3>3 DEF Snapshot
      <4>. HIDE DEF todo
      <4>4. rr'[n].at = "register" /\ rr'[n].todo = todo
        BY <1>0, <4>2, <4>3 DEF ConnRounds, Idle
      <4>. QED
        BY <2>1, <2>5, <3>1, <4>2, <4>4 DEF Restored
    <3>4. CASE Reregister(n, d)
      <4>1. /\ rr[n].at = "register"
            /\ rr' = [rr EXCEPT ![n] =
                         IF rr[n].todo = {d} THEN Idle ELSE [rr[n] EXCEPT !.todo = @ \ {d}]]
        BY <3>4 DEF Reregister
      <4>2. c # d
        BY <3>4, <1>00, <1>03, <2>2 DEF Reregister, Mark
      <4>3. CASE c \in rr[n].todo
        <5>1. rr'[n].at = "register" /\ c \in rr'[n].todo
          BY <1>0, <4>1, <4>2, <4>3 DEF ConnRounds
        <5>. QED
          BY <2>1, <2>5, <3>1, <5>1 DEF Restored
      <4>4. CASE c \notin rr[n].todo
        BY <2>1, <2>5, <3>1, <4>1, <4>4 DEF Restored
      <4>. QED
        BY <4>3, <4>4
    <3>. QED
      BY <1>4, <3>2, <3>3, <3>4
  <2>. QED
    BY <2>4, <2>5
<1>5. CASE Cut(n)
  <2>1. UNCHANGED <<home, reg, rr, losses>> /\ sub' = sub \ {n}
    BY <1>5 DEF Cut, given
  <2>2. \A m \in Nodes : m # n => inbox'[m] = inbox[m]
    BY <1>0, <1>5 DEF Cut, ConnSignals
  <2>3. Missing(c) /\ losses # 0
    BY <1>00, <1>02, <2>1 DEF Missing, RegInv
  <2>4. CASE home[c] = n
    BY <2>1, <2>3, <2>4 DEF Restored
  <2>5. CASE home[c] # n
    BY <1>01, <2>1, <2>2, <2>3, <2>5, RestoredStays
  <2>. QED
    BY <2>4, <2>5
<1>6. CASE Resubscribe(n)
  <2>1. UNCHANGED <<home, reg, rr, losses>> /\ sub' = sub \cup {n}
        /\ inbox' = [inbox EXCEPT ![n] = Append(@, Gap)]
    BY <1>6 DEF Resubscribe, given, budget
  <2>2. /\ inbox[n] \in Seq(Conns \cup {Gap}) /\ inbox'[n] = Append(inbox[n], Gap)
        /\ \A m \in Nodes : m # n => inbox'[m] = inbox[m]
    BY <1>0, <2>1 DEF ConnSignals
  <2>3. Len(inbox[n]) + 1 \in DOMAIN inbox'[n] /\ inbox'[n][Len(inbox[n]) + 1] = Gap
    BY <2>2
  <2>4. Missing(c) /\ losses # 0
    BY <1>00, <1>02, <2>1 DEF Missing, RegInv
  <2>5. CASE home[c] = n
    BY <2>1, <2>3, <2>4, <2>5 DEF Restored
  <2>6. CASE home[c] # n
    BY <1>01, <2>1, <2>2, <2>4, <2>6, RestoredStays
  <2>. QED
    BY <2>5, <2>6
<1>7. CASE Crash(n)
  <2>1. /\ UNCHANGED <<home, reg, losses>> /\ sub' = sub \ {n} /\ alive' = alive \ {n}
        /\ inbox' = [inbox EXCEPT ![n] = <<>>] /\ rr' = [rr EXCEPT ![n] = Idle]
        /\ pc' = [x \in Conns |-> IF home[x] = n /\ pc[x] # "done" THEN "dead" ELSE pc[x]]
    BY <1>7 DEF Crash, given
  <2>2. home[c] # n
    BY <1>00, <2>1 DEF Serves, InService
  <2>3. inbox'[home[c]] = inbox[home[c]] /\ rr'[home[c]] = rr[home[c]]
    BY <1>0, <1>01, <2>1, <2>2 DEF ConnSignals, ConnRounds
  <2>4. Missing(c)
    BY <1>00, <1>02, <2>1 DEF Missing
  <2>. QED
    BY <2>1, <2>3, <2>4, RestoredStays
<1>8. CASE \E d \in Conns : Reregister(n, d)
  BY <1>4, <1>8
<1>9. CASE SelfPresent(n) \/ Snapshot(n)
  BY <1>4, <1>9
<1>. QED
  BY <1>1, <1>2, <1>3, <1>5, <1>6, <1>7, <1>8, <1>9 DEF NodeStep

\* An accepted handshake leaves at most what the policy has room for.
LEMMA HandshakeRoom ==
    ASSUME ConnTypes, NEW c \in Conns, Handshake(c), ~Rejects(home[c], c), IsFiniteSet(reg)
    PROVE  IsFiniteSet(reg') /\ Cardinality(reg') <= Room
<1>. DEFINE old == Existing(home[c], c) \ Replaced(home[c], c)
<1>0. ConnsConstants /\ policy \in Policies /\ Limit \in Nat \ {0} /\ Room \in Nat /\ Room > 0
  BY DEF ConnTypes, ConnPlaces, ConnsConstants, Room
<1>1. reg' = old \cup {c} /\ old \subseteq reg
  BY DEF Handshake, Existing
<1>2. IsFiniteSet(old) /\ Cardinality(old) \in Nat
  BY <1>1, FS_Subset, FS_CardinalityType
<1>3. Cardinality(old) + 1 <= Room
  <2>1. CASE policy \in {"replace", "reject"}
    <3>1. old = {}
      BY <2>1 DEF Rejects, Replaced
    <3>2. Cardinality(old) = 0
      BY <3>1, FS_EmptySet
    <3>. QED
      BY <1>0, <3>2
  <2>2. CASE policy = "limit"
    <3>1. old = Existing(home[c], c) /\ Room = Limit
      BY <2>2 DEF Replaced, Room
    <3>2. ~(Cardinality(Existing(home[c], c)) >= Limit)
      BY <2>2 DEF Rejects
    <3>. HIDE DEF old
    <3>3. ~(Cardinality(old) >= Limit)
      BY <3>1, <3>2
    <3>. QED
      BY <1>0, <1>2, <3>1, <3>3
  <2>. QED
    BY <1>0, <2>1, <2>2 DEF ConnsConstants
<1>. HIDE DEF old
<1>4. /\ IsFiniteSet(old \cup {c})
      /\ Cardinality(old \cup {c}) = IF c \in old THEN Cardinality(old) ELSE Cardinality(old) + 1
  BY <1>2, FS_AddElement
<1>. QED
  BY <1>0, <1>1, <1>2, <1>3, <1>4

\* The policy does not change, a step adds at most one field, and lost data stay lost.
LEMMA PolicyKept == [Next]_vars => UNCHANGED <<policy, home>>
<1>1. ASSUME NEW c \in Conns, ConnStep(c) PROVE UNCHANGED <<policy, home>>
  BY <1>1 DEF ConnStep, Handshake, AddConn, Wake, ReadEnds, RegistryRemove, RemoveConn, Expire, Evict, given
<1>2. ASSUME NEW n \in Nodes, NodeStep(n) PROVE UNCHANGED <<policy, home>>
  BY <1>2 DEF NodeStep, KickAll, KickOne, KickError, Kick, DropLocal, Beat, Refresh, Consume,
              SelfPresent, Snapshot, Reregister, Cut, Resubscribe, Crash, NodeStale, given
<1>3. Loss \/ UNCHANGED vars => UNCHANGED <<policy, home>>
  BY DEF Loss, vars, given
<1>. QED
  BY <1>1, <1>2, <1>3 DEF Next

LEMMA RegistryGrows ==
    ASSUME ConnTypes, [Next]_vars
    PROVE  /\ reg' \subseteq reg \/ \E c \in Conns : reg' \subseteq reg \cup {c}
           /\ losses' = 0 => losses = 0
<1>1. ASSUME NEW c \in Conns, ConnStep(c)
      PROVE  reg' \subseteq reg \cup {c} /\ losses' = losses
  BY <1>1 DEF ConnStep, Handshake, Existing, AddConn, Wake, ReadEnds, RegistryRemove, RemoveConn,
              Expire, Evict, budget
<1>2. ASSUME NEW n \in Nodes, NodeStep(n)
      PROVE  /\ reg' \subseteq reg \/ \E c \in Conns : reg' \subseteq reg \cup {c}
             /\ losses' = losses
  <2>1. ASSUME NEW c \in Conns, Reregister(n, c) PROVE reg' \subseteq reg \cup {c} /\ losses' = losses
    BY <2>1 DEF Reregister, budget
  <2>2. CASE ~\E c \in Conns : Reregister(n, c)
    BY <1>2, <2>2 DEF NodeStep, KickAll, KickOne, KickError, Kick, DropLocal, Beat, Refresh, Consume,
                SelfPresent, Snapshot, Cut, Resubscribe, Crash, NodeStale, budget
  <2>. QED
    BY <2>1, <2>2
<1>3. Loss => reg' \subseteq reg /\ losses' # 0
  BY DEF Loss, ConnTypes, ConnCounts
<1>4. UNCHANGED vars => UNCHANGED <<reg, losses>>
  BY DEF vars, budget
<1>. QED
  BY <1>1, <1>2, <1>3, <1>4 DEF Next

LEMMA RegInvInit == ConnsConstants /\ Init => RegInv
<1>. SUFFICES ASSUME ConnsConstants, Init PROVE RegInv
  OBVIOUS
<1>1. ConnTypes
  BY ConnTypesInit
<1>2. \A c \in Conns : ~Serves(c)
  BY DEF Init, Serves, InService
<1>3. reg = {} /\ Served = {}
  BY <1>2 DEF Init, Served
<1>4. IsFiniteSet(reg) /\ Cardinality(Served) = 0
  BY <1>3, FS_EmptySet
<1>5. Room \in Nat
  BY DEF Room, ConnsConstants
<1>. QED
  BY <1>1, <1>2, <1>4, <1>5 DEF RegInv, FewServed, Missing

LEMMA RegInvNext == RegInv /\ [Next]_vars => RegInv'
<1>. SUFFICES ASSUME RegInv, [Next]_vars PROVE RegInv'
  OBVIOUS
<1>0. ConnTypes /\ ConnTypes' /\ FewServed
  BY ConnNextTypes DEF RegInv
<1>1. UNCHANGED vars => UNCHANGED <<home, sub, inbox, rr, losses, reg, pc, closed, evict, accident>>
  BY DEF vars, given, nodeVars, connVars, budget
<1>2. ASSUME NEW c \in Conns, Missing(c)' PROVE losses' # 0 /\ Restored(c)'
  <2>1. CASE Loss
    BY <2>1 DEF Loss, Restored, RegInv, ConnTypes, ConnCounts
  <2>2. CASE UNCHANGED vars
    <3>1. Missing(c)
      BY <1>1, <1>2, <2>2 DEF Missing, Serves, InService, Evicting
    <3>. QED
      BY <1>1, <2>2, <3>1, RestoredStays
  <2>. QED
    BY <1>2, <2>1, <2>2, ConnStepMissing, NodeStepMissing DEF Next
<1>3. IsFiniteSet(reg')
  <2>1. ASSUME NEW c \in Conns, reg' \subseteq reg \cup {c} PROVE IsFiniteSet(reg')
    <3>1. IsFiniteSet(reg \cup {c})
      BY <1>0, FS_AddElement DEF FewServed
    <3>. QED
      BY <2>1, <3>1, FS_Subset
  <2>2. reg' \subseteq reg => IsFiniteSet(reg')
    BY <1>0, FS_Subset DEF FewServed
  <2>. QED
    BY <1>0, <2>1, <2>2, RegistryGrows
<1>4. ASSUME losses' = 0 PROVE Cardinality(Served') <= Room'
  <2>1. losses = 0 /\ Room' = Room
    BY <1>0, <1>4, RegistryGrows, PolicyKept DEF Room
  <2>2. Served \subseteq reg /\ Served' \subseteq reg'
    BY <1>2, <1>4, <2>1 DEF RegInv, Served, Missing
  <2>3. Room \in Nat
    BY <1>0 DEF Room, ConnTypes, ConnsConstants
  <2>4. ASSUME NEW c \in Conns, Handshake(c), ~Rejects(home[c], c) PROVE Cardinality(Served') <= Room
    <3>1. IsFiniteSet(reg') /\ Cardinality(reg') <= Room
      BY <1>0, <2>4, HandshakeRoom DEF FewServed
    <3>2. Cardinality(Served') <= Cardinality(reg') /\ IsFiniteSet(Served')
      BY <2>2, <3>1, FS_Subset
    <3>3. Cardinality(Served') \in Nat /\ Cardinality(reg') \in Nat
      BY <3>1, <3>2, FS_CardinalityType
    <3>. QED
      BY <2>3, <3>1, <3>2, <3>3
  <2>5. CASE ~\E c \in Conns : Handshake(c) /\ ~Rejects(home[c], c)
    <3>1. ASSUME NEW c \in Conns, Serves(c)' PROVE Serves(c)
      <4>1. ~Loss
        BY <1>0, <1>4 DEF Loss, ConnTypes, ConnCounts
      <4>2. UNCHANGED vars => Serves(c)
        BY <1>1, <3>1 DEF Serves, InService, Evicting
      <4>. QED
        BY <1>0, <2>5, <3>1, <4>1, <4>2, ConnStepServes, NodeStepServes DEF Next
    <3>2. Served' \subseteq Served
      BY <3>1 DEF Served
    <3>3. IsFiniteSet(Served) /\ Cardinality(Served) <= Room
      BY <1>0, <2>1, <2>2, FS_Subset DEF FewServed
    <3>4. IsFiniteSet(Served') /\ Cardinality(Served') <= Cardinality(Served)
      BY <3>2, <3>3, FS_Subset
    <3>5. Cardinality(Served) \in Nat /\ Cardinality(Served') \in Nat
      BY <3>3, <3>4, FS_CardinalityType
    <3>. QED
      BY <2>1, <2>3, <3>3, <3>4, <3>5
  <2>. QED
    BY <2>1, <2>4, <2>5
<1>. QED
  BY <1>0, <1>2, <1>3, <1>4 DEF RegInv, FewServed

\* Registry.Handshake, Evict, Kick, reregistrar.run: a connection in service has its field, or its
\* node is about to register it again, the eight accidents apart.
THEOREM RegistryRoutes == Spec => []InServiceIsRouted
<1>1. RegInv => InServiceIsRouted
  BY DEF RegInv, InServiceIsRouted, Missing, Serves, Restored, Recovering, Idle
<1>. QED
  BY <1>1, ConnsAssumption, RegInvInit, RegInvNext, PTL DEF Spec

\* handshakeScript: as long as Redis keeps its data the subject has no more connections in service
\* than its policy allows, however its handshakes, kicks and crashes interleave.
THEOREM RegistryWithinPolicy == Spec => []WithinPolicy
<1>1. RegInv => WithinPolicy
  BY DEF RegInv, FewServed, WithinPolicy, Served, Serves, Room
<1>. QED
  BY <1>1, ConnsAssumption, RegInvInit, RegInvNext, PTL DEF Spec

\* The hub holds exactly the connections between AddConn and RemoveConn, only those still in their
\* read loop are marked closed, and every table keeps its type.
THEOREM ConnsTypeOK == Spec => []TypeOK
  BY ConnsAssumption, RegInvInit, RegInvNext, ConnTypesTypeOK, PTL DEF Spec, RegInv

-----------------------------------------------------------------------------
(* The way in and out                                                      *)

\* The client's loop: it ends only once, with what it told.
EntryClients ==
    /\ cl \in [Clients -> [at : {"new", "dial", "open", "wait", "redial", "failed", "ended"},
                           try : 0..MaxTries, gaveUp : BOOLEAN, closed : BOOLEAN]]
    /\ told \in [Clients -> Seq(Int)]
    /\ fin \in [Sockets -> Int] /\ closure \in [Sockets -> Int]
    /\ \A c \in Clients :
         /\ cl[c].gaveUp => cl[c].at = "ended"
         /\ cl[c].at \in {"dial", "open", "wait", "redial"} => cl[c].try \in 1..MaxTries
         /\ cl[c].at # "ended" => \A i \in 1..Len(told[c]) : ~noAutoReconnect(told[c][i])

ClientInv == EntryConstants /\ inst \in Instances /\ EntryClients /\ GiveUpReported

\* Of the guests let in, all, and those of an application from one tick to another.
LetIn(adm) == {x.guest : x \in adm}
Between(adm, a, lo, hi) == {x.guest : x \in {y \in adm : y.app = a /\ y.at \in lo..hi}}

\* A bucket opened at t would be the first of its time, and the minute before it is within the rate.
Rested(adm, t, a) ==
    /\ \A x \in adm : x.app = a => x.at < t
    /\ Cardinality(Between(adm, a, t - Minute + 1, t - 1)) <= Rate

\* The bucket in use knows whom it let in.
Counted(adm, b, a) ==
    /\ Cardinality(b.ids) <= Rate
    /\ \A x \in adm : x.app = a =>
         /\ x.at >= b.start => x.guest \in b.ids
         /\ x.at <= b.start + Minute - 1
    /\ Cardinality(Between(adm, a, b.start - Minute + 1, b.start - 1)) <= Rate

EntryGuests ==
    /\ now \in Nat
    /\ IsFiniteSet(LetIn(admitted))
    /\ \A x \in admitted : x.at \in 0..now
    /\ buckets \in [Apps -> [start : Nat, ids : SUBSET Clients]]
    /\ \A a \in Apps : buckets[a].start <= now /\ IsFiniteSet(buckets[a].ids)

GuestInv ==
    /\ EntryConstants /\ inst \in Instances /\ EntryGuests /\ GuestsBounded
    /\ \A a \in Apps : /\ buckets[a].ids = {} => Rested(admitted, now, a)
                       /\ buckets[a].ids # {} => Counted(admitted, buckets[a], a)

\* The goroutines of the gateway and the tables of the hub.
EntryConns ==
    /\ h \in [Sockets -> {"none", "frame", "load", "fetch", "join", "verify", "ask", "shake", "add",
                          "hello", "open", "down", "done"}]
    /\ verdict \in [Sockets -> BOOLEAN]
    /\ \A c \in Clients : \A i \in 1..MaxTries : cl[c].try < i => h[<<c, i>>] = "none"
    /\ hubConns = {k \in Sockets : h[k] \in {"hello", "open", "down"}}
    /\ byToken \in [Apps \X Tokens -> SUBSET Sockets]
    /\ \A k \in hubConns : Who(k).kind # "guest" => k \in byToken[Key(k)]

\* Whoever is past Load belongs to an application the gateway knows by its id.
EntryNames ==
    /\ \A a \in Apps : <<a, "code">> \in apps => <<a, "id">> \in apps
    /\ \A k \in Sockets : h[k] \in {"verify", "ask", "shake", "add", "hello", "open", "down"}
                             => <<Who(k).app, "id">> \in apps

EntryEvents ==
    /\ events \in Seq([app : Apps \cup {All}, tokens : SUBSET Tokens])
    /\ dispatch = None \/ dispatch \in [apps : SUBSET Apps, tokens : SUBSET Tokens]

\* An event about the token of k is on the stream; or it is being dispatched and not yet at k's app.
Coming(k) == \E i \in DOMAIN events : Token(k) \in events[i].tokens /\ events[i].app \in {All, Who(k).app}
Pending(k) == Coming(k) \/ (dispatch # None /\ Token(k) \in dispatch.tokens /\ Who(k).app \in dispatch.apps)

Revoked(k) == Who(k).kind = "fp" /\ Token(k) \in revoked \ lost
Vouched(k) == (h[k] = "ask" /\ verdict[k] = TRUE) \/ h[k] \in {"shake", "add"}

\* Where a connection with a revoked token can be, and what will still find it.
Found(k) ==
    Revoked(k) =>
        /\ Token(k) \in cached => Coming(k)
        /\ h[k] = "ask" /\ verdict[k] = TRUE /\ k \notin stale => Coming(k)
        /\ k \notin late /\ Vouched(k) => Pending(k)
        /\ k \notin late /\ k \in hubConns => closure[k] # 0 \/ Pending(k)

RevokeInv ==
    ClientInv /\ EntryConns /\ EntryNames /\ EntryEvents /\ \A k \in Sockets : Found(k)

CSet == [at : {"new", "dial", "open", "wait", "redial", "failed", "ended"},
         try : 0..MaxTries, gaveUp : BOOLEAN, closed : BOOLEAN]

LEMMA ClientInvInit == EntryConstants /\ EntryInit => ClientInv
<1>. SUFFICES ASSUME EntryConstants, EntryInit PROVE ClientInv
  OBVIOUS
<1>1. \A S : <<>> \in Seq(S)
  OBVIOUS
<1>2. MaxTries \in Nat /\ 0 \in 0..MaxTries
  BY DEF EntryConstants
<1>3. cl \in [Clients -> CSet] /\ \A c \in Clients : cl[c].gaveUp = FALSE /\ cl[c].at \in {"new", "ended"}
  BY <1>2 DEF EntryInit, CSet
<1>4. told \in [Clients -> Seq(Int)] /\ \A c \in Clients : told[c] = <<>>
  BY <1>1 DEF EntryInit
<1>5. fin \in [Sockets -> Int] /\ closure \in [Sockets -> Int] /\ inst \in Instances
  BY DEF EntryInit
<1>6. EntryClients
  BY <1>3, <1>4, <1>5 DEF EntryClients, CSet
<1>7. GiveUpReported
  BY <1>3 DEF GiveUpReported
<1>. QED
  BY <1>5, <1>6, <1>7 DEF ClientInv

\* A step of one client that reports nothing.
LEMMA ClientQuiet ==
    ASSUME ClientInv, NEW c \in Clients, NEW r \in CSet, UNCHANGED <<inst, told, fin, closure>>,
           cl' = [cl EXCEPT ![c] = r],
           r.gaveUp = TRUE => r.at = "ended" /\ r.closed = TRUE,
           r.at \in {"dial", "open", "wait", "redial"} => r.try \in 1..MaxTries,
           r.at # "ended" => cl[c].at # "ended"
    PROVE  ClientInv'
<1>1. cl \in [Clients -> CSet] /\ told \in [Clients -> Seq(Int)]
  BY DEF ClientInv, EntryClients, CSet
<1>2. cl'[c] = r /\ \A d \in Clients : d # c => cl'[d] = cl[d]
  BY <1>1
<1>3. cl' \in [Clients -> CSet]
  BY <1>1
<1>4. ASSUME NEW d \in Clients
      PROVE  /\ cl'[d].gaveUp => cl'[d].at = "ended"
             /\ cl'[d].at \in {"dial", "open", "wait", "redial"} => cl'[d].try \in 1..MaxTries
             /\ cl'[d].at # "ended" => \A i \in 1..Len(told[d]) : ~noAutoReconnect(told[d][i])
  <2>1. CASE d = c
    BY <2>1, <1>2 DEF ClientInv, EntryClients, CSet
  <2>2. CASE d # c
    BY <2>2, <1>2 DEF ClientInv, EntryClients
  <2>. QED
    BY <2>1, <2>2
<1>5. EntryClients'
  BY <1>3, <1>4 DEF ClientInv, EntryClients, CSet
<1>6. \A d \in Clients : cl'[d].gaveUp /\ ~cl'[d].closed => cl[d].gaveUp /\ ~cl[d].closed
  BY <1>1, <1>2 DEF CSet
<1>7. GiveUpReported'
  BY <1>6 DEF GiveUpReported, ClientInv
<1>. QED
  BY <1>5, <1>7 DEF ClientInv

\* A step of one client that reports the code it read.
LEMMA ClientTells ==
    ASSUME ClientInv, NEW c \in Clients, NEW r \in CSet, NEW code \in Int,
           UNCHANGED <<inst, fin, closure>>,
           cl' = [cl EXCEPT ![c] = r], told' = [told EXCEPT ![c] = Append(@, code)],
           cl[c].at # "ended",
           r.gaveUp = TRUE => r.at = "ended" /\ noAutoReconnect(code),
           r.at \in {"dial", "open", "wait", "redial"} => r.try \in 1..MaxTries,
           r.at # "ended" => ~noAutoReconnect(code)
    PROVE  ClientInv'
<1>1. cl \in [Clients -> CSet] /\ told \in [Clients -> Seq(Int)] /\ told[c] \in Seq(Int)
  BY DEF ClientInv, EntryClients, CSet
<1>2. cl'[c] = r /\ \A d \in Clients : d # c => cl'[d] = cl[d]
  BY <1>1
<1>3. cl' \in [Clients -> CSet]
  BY <1>1
<1>4. told'[c] = Append(told[c], code) /\ \A d \in Clients : d # c => told'[d] = told[d]
  BY <1>1
<1>5. told' \in [Clients -> Seq(Int)]
  BY <1>1
<1>6. \A i \in 1..Len(told[c]) : ~noAutoReconnect(told[c][i])
  BY DEF ClientInv, EntryClients
<1>7. /\ Len(told'[c]) = Len(told[c]) + 1 /\ told'[c][Len(told[c]) + 1] = code
      /\ \A i \in 1..Len(told[c]) : told'[c][i] = told[c][i]
      /\ Last(told'[c]) = code /\ told'[c] # <<>>
  BY <1>1, <1>4 DEF Last
<1>8. ASSUME NEW d \in Clients
      PROVE  /\ cl'[d].gaveUp => cl'[d].at = "ended"
             /\ cl'[d].at \in {"dial", "open", "wait", "redial"} => cl'[d].try \in 1..MaxTries
             /\ cl'[d].at # "ended" => \A i \in 1..Len(told'[d]) : ~noAutoReconnect(told'[d][i])
  <2>1. CASE d = c
    <3>1. /\ r.gaveUp => r.at = "ended"
          /\ r.at \in {"dial", "open", "wait", "redial"} => r.try \in 1..MaxTries
      BY DEF CSet
    <3>2. ASSUME r.at # "ended", NEW i \in 1..Len(told'[c]) PROVE ~noAutoReconnect(told'[c][i])
      <4>1. i \in 1..Len(told[c]) \/ i = Len(told[c]) + 1
        BY <1>1, <1>7, <3>2
      <4>. QED
        BY <1>6, <1>7, <3>2, <4>1
    <3>. QED
      BY <2>1, <1>2, <3>1, <3>2
  <2>2. CASE d # c
    BY <2>2, <1>2, <1>4 DEF ClientInv, EntryClients
  <2>. QED
    BY <2>1, <2>2
<1>9. EntryClients'
  BY <1>3, <1>5, <1>8 DEF ClientInv, EntryClients, CSet
<1>10. ASSUME NEW d \in Clients, cl'[d].gaveUp, ~cl'[d].closed
       PROVE  /\ told'[d] # <<>> /\ noAutoReconnect(Last(told'[d]))
              /\ \A i \in 1..(Len(told'[d]) - 1) : ~noAutoReconnect(told'[d][i])
  <2>1. CASE d = c
    <3>1. noAutoReconnect(code)
      BY <1>2, <1>10, <2>1 DEF CSet
    <3>2. Len(told'[c]) - 1 = Len(told[c])
      BY <1>1, <1>7
    <3>. QED
      BY <2>1, <1>6, <1>7, <3>1, <3>2
  <2>2. CASE d # c
    BY <2>2, <1>2, <1>4, <1>10 DEF ClientInv, GiveUpReported
  <2>. QED
    BY <2>1, <2>2
<1>11. GiveUpReported'
  BY <1>10 DEF GiveUpReported
<1>. QED
  BY <1>9, <1>11 DEF ClientInv

LEMMA ClientStands ==
    ASSUME ClientInv, UNCHANGED <<inst, cl, told>>, fin' \in [Sockets -> Int], closure' \in [Sockets -> Int]
    PROVE  ClientInv'
<1>1. EntryClients'
  BY DEF ClientInv, EntryClients
<1>2. GiveUpReported'
  BY DEF ClientInv, GiveUpReported
<1>. QED
  BY <1>1, <1>2 DEF ClientInv

\* The SDK's loop.
LEMMA ClientLoop ==
    ASSUME ClientInv, NEW c \in Clients, Dial(c) \/ ClientStep(c) \/ Close(c) PROVE ClientInv'
<1>0. /\ cl \in [Clients -> CSet] /\ cl[c] \in CSet /\ MaxTries \in Nat
      /\ fin \in [Sockets -> Int] /\ closure \in [Sockets -> Int]
      /\ cl[c].gaveUp = TRUE => cl[c].at = "ended"
      /\ cl[c].at \in {"dial", "open", "wait", "redial"} => cl[c].try \in 1..MaxTries
  BY DEF ClientInv, EntryClients, CSet, EntryConstants
<1>. DEFINE Move(at) == [cl[c] EXCEPT !.at = at]
<1>1. ASSUME NEW at \in {"dial", "redial"}, Connect(c, at), cl[c].at \in {"new", "wait"} PROVE ClientInv'
  <2>. DEFINE r == [cl[c] EXCEPT !.at = at, !.try = @ + 1]
  <2>1. UNCHANGED <<inst, told, fin, closure>> /\ cl[c].try < MaxTries
    BY <1>1 DEF Connect, ClientRest, hubVars
  <2>2. cl' = [cl EXCEPT ![c] = r]
    BY <1>0, <1>1 DEF Connect
  <2>3. r \in CSet /\ r.gaveUp = cl[c].gaveUp /\ r.at = at /\ r.try \in 1..MaxTries
    <3>1. cl[c].try \in 0..MaxTries
      BY <1>0 DEF CSet
    <3>2. PICK u \in 1..MaxTries : u = cl[c].try + 1
      BY <1>0, <2>1, <3>1
    <3>3. r = [cl[c] EXCEPT !.at = at, !.try = u]
      BY <3>2
    <3>4. u \in 0..MaxTries
      BY <1>0, <3>2
    <3>. QED
      BY <1>0, <3>3, <3>4, <3>2 DEF CSet
  <2>. HIDE DEF r
  <2>. QED
    BY <1>0, <1>1, <2>1, <2>2, <2>3, ClientQuiet
<1>2. ASSUME NEW at \in {"open", "failed", "wait", "ended"}, cl[c].at \in {"dial", "redial"},
             cl' = [cl EXCEPT ![c].at = at], UNCHANGED <<inst, told, fin, closure>>
      PROVE  ClientInv'
  <2>1. cl' = [cl EXCEPT ![c] = Move(at)]
    BY <1>0, <1>2
  <2>2. Move(at) \in CSet /\ Move(at).gaveUp = cl[c].gaveUp /\ Move(at).at = at /\ Move(at).try = cl[c].try
    BY <1>0, <1>2 DEF CSet
  <2>. HIDE DEF Move
  <2>. QED
    BY <1>0, <1>2, <2>1, <2>2, ClientQuiet
<1>3. ASSUME NEW code \in Int, ConnectFails(c, code), UNCHANGED <<inst, fin, closure>> PROVE ClientInv'
  <2>1. CASE cl[c].at = "redial" /\ noAutoReconnect(code) /\ GiveUp(c, code, TRUE)
    <3>. DEFINE r == [cl[c] EXCEPT !.at = "ended", !.gaveUp = TRUE]
    <3>1. cl' = [cl EXCEPT ![c] = r]
      BY <1>0, <2>1 DEF GiveUp
    <3>2. r \in CSet /\ r.gaveUp = TRUE /\ r.at = "ended" /\ r.closed = cl[c].closed
      BY <1>0 DEF CSet
    <3>. HIDE DEF r
    <3>3. CASE cl[c].closed = TRUE
      <4>1. told' = told
        BY <2>1, <3>3 DEF GiveUp
      <4>. QED
        BY <1>0, <1>3, <3>1, <3>2, <3>3, <4>1, ClientQuiet
    <3>4. CASE cl[c].closed = FALSE
      <4>1. told' = [told EXCEPT ![c] = Append(@, code)]
        BY <2>1, <3>4 DEF GiveUp
      <4>. QED
        BY <1>0, <1>3, <2>1, <3>1, <3>2, <4>1, ClientTells
    <3>. QED
      BY <1>0, <3>3, <3>4 DEF CSet
  <2>2. CASE cl[c].at = "dial" /\ cl' = [cl EXCEPT ![c].at = "failed"] /\ UNCHANGED told
    BY <1>2, <1>3, <2>2
  <2>3. CASE /\ cl[c].at = "redial" /\ UNCHANGED told
             /\ cl' = [cl EXCEPT ![c].at = IF cl[c].closed THEN "ended" ELSE "wait"]
    BY <1>2, <1>3, <2>3
  <2>. QED
    BY <1>3, <2>1, <2>2, <2>3 DEF ConnectFails
<1>4. ASSUME cl[c].at \in {"dial", "open", "wait", "redial"} PROVE fin[Current(c)] \in Int
  BY <1>0, <1>4 DEF Current, Sockets
<1>5. CASE Lost(c)
  <2>. DEFINE code == IF link[Current(c)] = "cut" THEN -1 ELSE fin[Current(c)]
              over == cl[c].closed \/ noAutoReconnect(code)
              r == [cl[c] EXCEPT !.at = IF over THEN "ended" ELSE "wait",
                                 !.gaveUp = ~cl[c].closed /\ noAutoReconnect(code)]
  <2>1. cl[c].at = "open" /\ UNCHANGED <<inst, fin, closure>>
    BY <1>5 DEF Lost, ClientRest, wireVars, hubVars
  <2>2. code \in Int
    BY <1>4, <2>1
  <2>3. cl' = [cl EXCEPT ![c] = r]
    BY <1>0, <1>5 DEF Lost
  <2>4. r \in CSet /\ r.closed = cl[c].closed /\ r.try = cl[c].try
    <3>. HIDE DEF code
    <3>1. CASE cl[c].closed = TRUE
      BY <1>0, <3>1 DEF CSet
    <3>2. CASE cl[c].closed = FALSE /\ noAutoReconnect(code)
      BY <1>0, <3>2 DEF CSet
    <3>3. CASE cl[c].closed = FALSE /\ ~noAutoReconnect(code)
      BY <1>0, <3>3 DEF CSet
    <3>. QED
      BY <1>0, <3>1, <3>2, <3>3 DEF CSet
  <2>5. /\ cl[c].closed = TRUE => r.at = "ended" /\ r.gaveUp = FALSE
        /\ cl[c].closed = FALSE /\ noAutoReconnect(code) => r.at = "ended" /\ r.gaveUp = TRUE
        /\ cl[c].closed = FALSE /\ ~noAutoReconnect(code) => r.at = "wait" /\ r.gaveUp = FALSE
    BY <1>0 DEF CSet
  <2>6. told' = IF cl[c].closed THEN told ELSE [told EXCEPT ![c] = Append(@, code)]
    BY <1>5 DEF Lost
  <2>. HIDE DEF r, over, code
  <2>7. CASE cl[c].closed = TRUE
    BY <1>0, <2>1, <2>3, <2>4, <2>5, <2>6, <2>7, ClientQuiet
  <2>8. CASE cl[c].closed = FALSE /\ noAutoReconnect(code)
    BY <1>0, <2>1, <2>2, <2>3, <2>4, <2>5, <2>6, <2>8, ClientTells
  <2>9. CASE cl[c].closed = FALSE /\ ~noAutoReconnect(code)
    BY <1>0, <2>1, <2>2, <2>3, <2>4, <2>5, <2>6, <2>9, ClientTells
  <2>. QED
    BY <1>0, <2>7, <2>8, <2>9 DEF CSet
<1>6. CASE Close(c)
  <2>. DEFINE r == [cl[c] EXCEPT !.closed = TRUE, !.at = IF @ = "wait" THEN "ended" ELSE @]
  <2>1. cl[c].at \in {"open", "wait", "redial"} /\ UNCHANGED <<inst, told, fin, closure>>
    BY <1>6 DEF Close, ClientRest, hubVars
  <2>2. cl' = [cl EXCEPT ![c] = r]
    BY <1>0, <1>6 DEF Close
  <2>3. r \in CSet /\ r.gaveUp = cl[c].gaveUp /\ r.try = cl[c].try
    BY <1>0 DEF CSet
  <2>. HIDE DEF r
  <2>. QED
    BY <1>0, <2>1, <2>2, <2>3, ClientQuiet
<1>7. CASE Dial(c) \/ Redial(c)
  BY <1>1, <1>7 DEF Dial, Redial
<1>8. CASE Connected(c)
  <2>1. /\ cl[c].at \in {"dial", "redial"} /\ cl' = [cl EXCEPT ![c].at = "open"]
        /\ UNCHANGED <<inst, told, fin, closure>>
    BY <1>8 DEF Connected, ClientRest, wireVars, hubVars
  <2>. QED
    BY <1>2, <2>1
<1>9. CASE Refused(c) \/ DialFails(c)
  <2>1. /\ cl[c].at \in {"dial", "redial"} /\ UNCHANGED <<inst, fin, closure>>
        /\ ConnectFails(c, fin[Current(c)]) \/ ConnectFails(c, -1)
    BY <1>9 DEF Refused, DialFails, ClientRest, wireVars, hubVars
  <2>2. -1 \in Int /\ fin[Current(c)] \in Int
    BY <1>4, <2>1
  <2>. QED
    BY <1>3, <2>1, <2>2
<1>. QED
  BY <1>5, <1>6, <1>7, <1>8, <1>9 DEF ClientStep

\* The codes the gateway sends and keeps.
LEMMA Codes ==
    ASSUME ClientInv, NEW ks, NEW code \in Int
    PROVE  /\ Reject(ks, code) => fin' \in [Sockets -> Int]
           /\ Closed(ks, code) => closure' \in [Sockets -> Int]
  BY DEF Reject, Closed, ClientInv, EntryClients

LEMMA ClientServed == ASSUME ClientInv, NEW k \in Sockets, Serve(k) PROVE ClientInv'
<1>0. fin \in [Sockets -> Int] /\ closure \in [Sockets -> Int]
  BY DEF ClientInv, EntryClients
<1>1. UNCHANGED <<inst, cl, told, closure>>
  BY DEF Serve, ReadAuthFrame, Load, Fetched, Verify, VerifyFp, VerifyAnswer, VerifyBiz, VerifyGuest,
         ServeHandshake, HubAddConn, Hello, ReadLoopEnds, Teardown, GateRest, clientVars, hubVars
<1>2. CASE UNCHANGED fin
  BY <1>0, <1>1, <1>2, ClientStands
<1>3. ASSUME NEW ks, NEW code \in {AuthFailed, PolicyRejected, Unavailable}, Reject(ks, code)
      PROVE  ClientInv'
  BY <1>0, <1>1, <1>3, ClientStands, Codes DEF AuthFailed, PolicyRejected, Unavailable
<1>4. CASE ReadLoopEnds(k)
  <2>1. fin' = [fin EXCEPT ![k] = closure[k]]
    BY <1>4 DEF ReadLoopEnds
  <2>. QED
    BY <1>0, <1>1, <2>1, ClientStands
<1>5. CASE ReadAuthFrame(k) \/ Load(k) \/ Fetched(k) \/ ServeHandshake(k)
  <2>1. UNCHANGED fin \/ \E ks : \E code \in {AuthFailed, PolicyRejected, Unavailable} : Reject(ks, code)
    BY <1>5 DEF ReadAuthFrame, Load, Fetched, ServeHandshake, Admit
  <2>. QED
    BY <1>2, <1>3, <2>1
<1>6. CASE Verify(k)
  <2>1. UNCHANGED fin \/ \E ks : \E code \in {AuthFailed, PolicyRejected, Unavailable} : Reject(ks, code)
    BY <1>6 DEF Verify, VerifyFp, VerifyAnswer, VerifyBiz, VerifyGuest, Admit
  <2>. QED
    BY <1>2, <1>3, <2>1
<1>7. CASE HubAddConn(k) \/ Hello(k) \/ Teardown(k)
  <2>1. UNCHANGED fin
    BY <1>7 DEF HubAddConn, Hello, Teardown, Admit
  <2>. QED
    BY <1>2, <2>1
<1>. QED
  BY <1>4, <1>5, <1>6, <1>7 DEF Serve

LEMMA ClientInvNext == ClientInv /\ [EntryNext]_entryVars => ClientInv'
<1>. SUFFICES ASSUME ClientInv, [EntryNext]_entryVars PROVE ClientInv'
  OBVIOUS
<1>0. /\ fin \in [Sockets -> Int] /\ closure \in [Sockets -> Int] /\ inst.closes \subseteq Int
  <2>1. inst.closes \subseteq {4001, 4003, 4004, 4005, 1013}
    BY DEF ClientInv, EntryConstants
  <2>3. fin \in [Sockets -> Int] /\ closure \in [Sockets -> Int]
    BY DEF ClientInv, EntryClients
  <2>4. ASSUME NEW x \in inst.closes PROVE x \in Int
    <3>1. x \in {4001, 4003, 4004, 4005, 1013}
      BY <2>1
    <3>2. x = 4001 \/ x = 4003 \/ x = 4004 \/ x = 4005 \/ x = 1013
      BY <3>1
    <3>. QED
      BY <3>2
  <2>. QED
    BY <2>3, <2>4
<1>1. ASSUME NEW k \in Sockets, NEW code \in inst.closes, HubCloses(k, code) PROVE ClientInv'
  <2>1. UNCHANGED <<inst, cl, told, fin>> /\ Closed({k}, code) /\ code \in Int
    BY <1>0, <1>1 DEF HubCloses, GateRest, clientVars
  <2>. QED
    BY <1>0, <2>1, ClientStands, Codes
<1>2. CASE OnRevoked
  <2>1. UNCHANGED <<inst, cl, told, fin>>
    BY <1>2 DEF OnRevoked, RevRest, clientVars, wireVars
  <2>2. UNCHANGED closure \/ \E ks : Closed(ks, AuthFailed)
    BY <1>2 DEF OnRevoked
  <2>3. AuthFailed \in Int
    BY DEF AuthFailed
  <2>. QED
    BY <1>0, <2>1, <2>2, <2>3, ClientStands, Codes
<1>3. ASSUME (\E k \in Sockets : CutLink(k)) \/ (\E e \in inst.revokes : Revoke(e)) \/ OnRevoke \/ StreamGap
             \/ NodeDies \/ SweepLoop \/ Tick \/ UNCHANGED entryVars
      PROVE  ClientInv'
  <2>1. UNCHANGED <<inst, cl, told, fin, closure>>
    BY <1>3 DEF CutLink, Revoke, OnRevoke, StreamGap, NodeDies, SweepLoop, Tick, entryVars, ClientRest, RevRest,
                clientVars, wireVars, hubVars
  <2>. QED
    BY <1>0, <2>1, ClientStands
<1>. QED
  BY <1>1, <1>2, <1>3, ClientLoop, ClientServed DEF EntryNext, Revocation

\* Client.runLoop, readUntilClosed: a client that gave up has told its owner, once, with the code that
\* made it give up, after any number of connections, refusals and reconnects.
THEOREM ClientsTell == EntrySpec => []GiveUpReported
<1>1. ClientInv => GiveUpReported
  BY DEF ClientInv
<1>. QED
  BY <1>1, EntryAssumption, ClientInvInit, ClientInvNext, PTL DEF EntrySpec

LEMMA BetweenFinite ==
    ASSUME NEW adm, IsFiniteSet(LetIn(adm)), NEW a, NEW lo, NEW hi
    PROVE  IsFiniteSet(Between(adm, a, lo, hi)) /\ Cardinality(Between(adm, a, lo, hi)) \in Nat
<1>1. Between(adm, a, lo, hi) \subseteq LetIn(adm)
  BY DEF Between, LetIn
<1>. QED
  BY <1>1, FS_Subset, FS_CardinalityType

LEMMA Smaller ==
    ASSUME NEW S, NEW T, IsFiniteSet(T), S \subseteq T, NEW n \in Nat, Cardinality(T) <= n
    PROVE  IsFiniteSet(S) /\ Cardinality(S) <= n
<1>1. IsFiniteSet(S) /\ Cardinality(S) <= Cardinality(T)
  BY FS_Subset
<1>2. Cardinality(S) \in Nat /\ Cardinality(T) \in Nat
  BY <1>1, FS_CardinalityType
<1>. QED
  BY <1>1, <1>2

\* Whom one more admission lets in.
LEMMA BetweenMore ==
    ASSUME NEW adm, NEW x
    PROVE  /\ LetIn(adm \cup {x}) = LetIn(adm) \cup {x.guest}
           /\ \A a, lo, hi : (x.app # a \/ x.at \notin lo..hi)
                                => Between(adm \cup {x}, a, lo, hi) = Between(adm, a, lo, hi)
<1>1. LetIn(adm \cup {x}) = LetIn(adm) \cup {x.guest}
  BY DEF LetIn
<1>2. ASSUME NEW a, NEW lo, NEW hi, x.app # a \/ x.at \notin lo..hi
      PROVE  {y \in adm \cup {x} : y.app = a /\ y.at \in lo..hi} = {y \in adm : y.app = a /\ y.at \in lo..hi}
  BY <1>2
<1>. QED
  BY <1>1, <1>2 DEF Between

\* A minute that reaches into a bucket is covered by the bucket and the minute before it.
LEMMA MinuteBounded ==
    ASSUME EntryConstants, NEW adm, IsFiniteSet(LetIn(adm)), NEW b, b.start \in Int, IsFiniteSet(b.ids),
           NEW a, \A x \in adm : x.at \in Int, Counted(adm, b, a),
           NEW t \in Int, t + Minute - 1 >= b.start
    PROVE  Cardinality(Between(adm, a, t, t + Minute - 1)) <= 2 * Rate
<1>. DEFINE S == Between(adm, a, b.start - Minute + 1, b.start - 1)
<1>0. Minute \in Nat /\ Rate \in Nat
  BY DEF EntryConstants
<1>1. Between(adm, a, t, t + Minute - 1) \subseteq S \cup b.ids
  <2>1. ASSUME NEW x \in adm, x.app = a, x.at \in t..(t + Minute - 1)
        PROVE  x.at \in (b.start - Minute + 1)..(b.start - 1) \/ x.at >= b.start
    BY <1>0, <2>1
  <2>2. \A x \in adm : x.app = a /\ x.at >= b.start => x.guest \in b.ids
    BY DEF Counted
  <2>. QED
    BY <2>1, <2>2 DEF Between
<1>2. IsFiniteSet(S) /\ Cardinality(S) \in Nat
  BY BetweenFinite
<1>3. Cardinality(S) <= Rate /\ Cardinality(b.ids) <= Rate
  BY DEF Counted
<1>. HIDE DEF S
<1>4. /\ IsFiniteSet(S \cup b.ids)
      /\ Cardinality(S \cup b.ids) = Cardinality(S) + Cardinality(b.ids) - Cardinality(S \cap b.ids)
  BY <1>2, FS_Union
<1>5. IsFiniteSet(S \cap b.ids) /\ Cardinality(S \cap b.ids) \in Nat /\ Cardinality(b.ids) \in Nat
  BY <1>2, FS_Subset, FS_CardinalityType
<1>6. Cardinality(S \cup b.ids) <= 2 * Rate /\ 2 * Rate \in Nat
  BY <1>0, <1>2, <1>3, <1>4, <1>5
<1>. QED
  BY <1>1, <1>4, <1>6, Smaller

\* A bucket that is used up or was never there.
LEMMA RestedNow ==
    ASSUME GuestInv, NEW a \in Apps, buckets[a].ids = {} \/ now - buckets[a].start >= Minute
    PROVE  Rested(admitted, now, a)
<1>0. Minute \in Nat /\ Rate \in Nat /\ Minute > 0 /\ now \in Nat /\ buckets[a].start \in Nat
      /\ IsFiniteSet(buckets[a].ids) /\ \A x \in admitted : x.at \in 0..now
  BY DEF GuestInv, EntryConstants, EntryGuests
<1>1. CASE buckets[a].ids = {}
  BY <1>1 DEF GuestInv
<1>2. CASE buckets[a].ids # {}
  <2>1. Counted(admitted, buckets[a], a) /\ now - buckets[a].start >= Minute
    BY <1>2 DEF GuestInv
  <2>2. \A x \in admitted : x.app = a => x.at < now
    BY <1>0, <2>1 DEF Counted
  <2>3. Between(admitted, a, now - Minute + 1, now - 1) \subseteq buckets[a].ids
    <3>1. ASSUME NEW x \in admitted, x.app = a, x.at \in (now - Minute + 1)..(now - 1)
          PROVE  x.at >= buckets[a].start
      BY <1>0, <2>1, <3>1
    <3>. QED
      BY <3>1, <2>1 DEF Between, Counted
  <2>4. Cardinality(buckets[a].ids) <= Rate
    BY <2>1 DEF Counted
  <2>. QED
    BY <1>0, <2>2, <2>3, <2>4, Smaller DEF Rested
<1>. QED
  BY <1>1, <1>2

LEMMA NobodyLetIn ==
    ASSUME EntryConstants
    PROVE  /\ IsFiniteSet(LetIn({}))
           /\ \A a, lo, hi : Cardinality(Between({}, a, lo, hi)) = 0
           /\ \A a, t : Rested({}, t, a)
<1>1. LetIn({}) = {} /\ \A a, lo, hi : Between({}, a, lo, hi) = {}
  BY DEF LetIn, Between
<1>2. IsFiniteSet({}) /\ Cardinality({}) = 0
  BY FS_EmptySet
<1>3. 0 <= Rate
  BY DEF EntryConstants
<1>. QED
  BY <1>1, <1>2, <1>3 DEF Rested

LEMMA GuestInvInit == EntryConstants /\ EntryInit => GuestInv
<1>. SUFFICES ASSUME EntryConstants, EntryInit PROVE GuestInv
  OBVIOUS
<1>1. admitted = {} /\ now = 0 /\ inst \in Instances /\ buckets = [a \in Apps |-> NoBucket]
  BY DEF EntryInit
<1>2. /\ buckets \in [Apps -> [start : Nat, ids : SUBSET Clients]]
      /\ \A a \in Apps : buckets[a].start = 0 /\ buckets[a].ids = {}
  BY <1>1 DEF NoBucket
<1>3. EntryGuests
  BY <1>1, <1>2, NobodyLetIn, FS_EmptySet DEF EntryGuests
<1>4. GuestsBounded
  <2>1. \A a, t : Between(admitted, a, t, t + Minute - 1)
                    = {x.guest : x \in {y \in admitted : y.app = a /\ y.at \in t..(t + Minute - 1)}}
    BY DEF Between
  <2>2. 0 <= 2 * Rate
    BY DEF EntryConstants
  <2>. QED
    BY <1>1, <2>1, <2>2, NobodyLetIn DEF GuestsBounded
<1>. QED
  BY <1>1, <1>2, <1>3, <1>4, NobodyLetIn DEF GuestInv

\* A step that lets nobody in.
LEMMA GuestsStand == ASSUME GuestInv, UNCHANGED <<inst, now, buckets, admitted>> PROVE GuestInv'
  BY DEF GuestInv, EntryGuests, GuestsBounded

\* Guests.Allow, called for one guest.
LEMMA GuestAllowed == ASSUME GuestInv, NEW k \in Sockets, VerifyGuest(k) PROVE GuestInv'
<1>. DEFINE a == Who(k).app
            b == Bucket(a)
            allowed == k[1] \in b.ids \/ Cardinality(b.ids) < Rate
            x == [at |-> now, app |-> a, guest |-> k[1]]
<1>1. /\ EntryConstants /\ inst \in Instances /\ Minute \in Nat \ {0} /\ Rate \in Nat
      /\ now \in Nat /\ IsFiniteSet(LetIn(admitted)) /\ \A y \in admitted : y.at \in 0..now
      /\ buckets \in [Apps -> [start : Nat, ids : SUBSET Clients]]
      /\ \A y \in Apps : buckets[y].start <= now /\ IsFiniteSet(buckets[y].ids)
  BY DEF GuestInv, EntryGuests, EntryConstants
<1>2. k[1] \in Clients /\ a \in Apps
  <2>1. k[1] \in Clients
    BY DEF Sockets
  <2>2. inst.who \in [Clients -> [kind : {"fp", "biz", "guest"}, app : Apps, by : {"id", "code"},
                                  token : Tokens]]
    BY <1>1 DEF EntryConstants
  <2>. QED
    BY <2>1, <2>2 DEF Who
<1>3. /\ UNCHANGED <<inst, now>>
      /\ buckets' = [buckets EXCEPT ![a] = IF allowed THEN [b EXCEPT !.ids = @ \cup {k[1]}] ELSE b]
      /\ admitted' = IF allowed THEN admitted \cup {x} ELSE admitted
  BY DEF VerifyGuest, GateRest
<1>4. /\ b \in [start : Nat, ids : SUBSET Clients] /\ b.start <= now /\ IsFiniteSet(b.ids)
      /\ b.ids = {} => Rested(admitted, now, a) /\ b.start = now
      /\ b.ids # {} => Counted(admitted, b, a) /\ now <= b.start + Minute - 1
  <2>1. CASE buckets[a].ids = {} \/ now - buckets[a].start >= Minute
    <3>1. b = [start |-> now, ids |-> {}]
      BY <2>1 DEF Bucket
    <3>2. Rested(admitted, now, a)
      BY <1>2, <2>1, RestedNow
    <3>. HIDE DEF b, a
    <3>3. b.start = now /\ b.ids = {} /\ b \in [start : Nat, ids : SUBSET Clients]
      BY <1>1, <3>1
    <3>. QED
      BY <1>1, <3>2, <3>3, FS_EmptySet
  <2>2. CASE ~(buckets[a].ids = {} \/ now - buckets[a].start >= Minute)
    <3>1. b = buckets[a]
      BY <2>2 DEF Bucket
    <3>. HIDE DEF b, a
    <3>2. b.ids # {} /\ Counted(admitted, b, a)
      BY <1>2, <2>2, <3>1 DEF GuestInv
    <3>3. b \in [start : Nat, ids : SUBSET Clients] /\ b.start <= now /\ IsFiniteSet(b.ids)
      BY <1>1, <1>2, <3>1
    <3>4. now <= b.start + Minute - 1
      BY <1>1, <2>2, <3>1, <3>3
    <3>. QED
      BY <3>2, <3>3, <3>4
  <2>. QED
    BY <2>1, <2>2
<1>. HIDE DEF b, a
<1>5. CASE ~allowed
  <2>1. buckets' = [buckets EXCEPT ![a] = b] /\ admitted' = admitted
    BY <1>3, <1>5
  <2>2. buckets'[a] = b /\ \A y \in Apps : y # a => buckets'[y] = buckets[y]
    BY <1>1, <1>2, <2>1
  <2>3. buckets' \in [Apps -> [start : Nat, ids : SUBSET Clients]]
    BY <1>1, <1>4, <2>1
  <2>4. \A y \in Apps : buckets'[y].start <= now /\ IsFiniteSet(buckets'[y].ids)
    BY <1>1, <1>4, <2>2
  <2>5. EntryGuests'
    BY <1>1, <1>3, <2>1, <2>3, <2>4 DEF EntryGuests
  <2>6. ASSUME NEW y \in Apps
        PROVE  /\ buckets'[y].ids = {} => Rested(admitted', now', y)
               /\ buckets'[y].ids # {} => Counted(admitted', buckets'[y], y)
    <3>1. CASE y = a
      BY <1>3, <1>4, <2>1, <2>2, <3>1
    <3>2. CASE y # a
      BY <1>3, <2>1, <2>2, <3>2 DEF GuestInv
    <3>. QED
      BY <3>1, <3>2
  <2>7. GuestsBounded'
    BY <1>3, <2>1 DEF GuestInv, GuestsBounded
  <2>. QED
    BY <1>1, <1>3, <2>5, <2>6, <2>7 DEF GuestInv
<1>6. CASE allowed
  <2>. DEFINE c == [b EXCEPT !.ids = @ \cup {k[1]}]
  <2>1. buckets' = [buckets EXCEPT ![a] = c] /\ admitted' = admitted \cup {x}
    BY <1>3, <1>6
  <2>2. /\ c \in [start : Nat, ids : SUBSET Clients] /\ c.start = b.start
        /\ c.ids = b.ids \cup {k[1]} /\ c.ids # {}
    BY <1>2, <1>4
  <2>3. x.at = now /\ x.app = a /\ x.guest = k[1]
    OBVIOUS
  <2>4. Cardinality(b.ids) \in Nat /\ IsFiniteSet(c.ids) /\ Cardinality(c.ids) <= Rate
    <3>1. Cardinality(b.ids) \in Nat
      BY <1>4, FS_CardinalityType
    <3>2. /\ IsFiniteSet(b.ids \cup {k[1]})
          /\ Cardinality(b.ids \cup {k[1]}) = IF k[1] \in b.ids THEN Cardinality(b.ids)
                                                                ELSE Cardinality(b.ids) + 1
      BY <1>4, FS_AddElement
    <3>3. b.ids # {} => Cardinality(b.ids) <= Rate
      BY <1>4 DEF Counted
    <3>4. Cardinality(b.ids \cup {k[1]}) <= Rate
      <4>1. CASE k[1] \in b.ids
        BY <3>2, <3>3, <4>1
      <4>2. CASE k[1] \notin b.ids
        BY <1>1, <1>6, <3>1, <3>2, <4>2
      <4>. QED
        BY <4>1, <4>2
    <3>. QED
      BY <2>2, <3>1, <3>2, <3>4
  <2>. HIDE DEF c, x
  <2>5. /\ LetIn(admitted') = LetIn(admitted) \cup {k[1]}
        /\ \A y, lo, hi : (a # y \/ now \notin lo..hi) => Between(admitted', y, lo, hi) = Between(admitted, y, lo, hi)
    <3>1. /\ LetIn(admitted \cup {x}) = LetIn(admitted) \cup {x.guest}
          /\ \A y, lo, hi : (x.app # y \/ x.at \notin lo..hi)
                => Between(admitted \cup {x}, y, lo, hi) = Between(admitted, y, lo, hi)
      BY BetweenMore
    <3>2. admitted' = admitted \cup {x}
      BY <2>1
    <3>. QED
      BY <2>3, <3>1, <3>2
  <2>6. buckets'[a] = c /\ \A y \in Apps : y # a => buckets'[y] = buckets[y]
    BY <1>1, <1>2, <2>1
  <2>7. IsFiniteSet(LetIn(admitted')) /\ \A y \in admitted' : y.at \in 0..now
    <3>1. IsFiniteSet(LetIn(admitted) \cup {k[1]})
      BY <1>1, FS_AddElement
    <3>2. \A y \in admitted' : y \in admitted \/ y = x
      BY <2>1
    <3>3. now \in 0..now
      BY <1>1
    <3>4. \A y \in admitted' : y.at \in 0..now
      BY <1>1, <2>3, <3>2, <3>3
    <3>. QED
      BY <2>5, <3>1, <3>4
  <2>8. buckets' \in [Apps -> [start : Nat, ids : SUBSET Clients]]
    BY <1>1, <2>1, <2>2
  <2>9. \A y \in Apps : buckets'[y].start <= now /\ IsFiniteSet(buckets'[y].ids)
    BY <1>1, <1>4, <2>2, <2>4, <2>6
  <2>10. EntryGuests'
    BY <1>1, <1>3, <2>7, <2>8, <2>9 DEF EntryGuests
  <2>11. Counted(admitted', c, a)
    <3>1. b.start \in Nat /\ now \notin (b.start - Minute + 1)..(b.start - 1)
      BY <1>1, <1>4
    <3>2. Between(admitted', a, b.start - Minute + 1, b.start - 1)
            = Between(admitted, a, b.start - Minute + 1, b.start - 1)
      BY <2>5, <3>1
    <3>3. Cardinality(Between(admitted, a, b.start - Minute + 1, b.start - 1)) <= Rate
      BY <1>4 DEF Counted, Rested
    <3>4. ASSUME NEW y \in admitted', y.app = a
          PROVE  (y.at >= c.start => y.guest \in c.ids) /\ y.at <= c.start + Minute - 1
      <4>1. CASE y = x
        BY <1>1, <1>4, <2>2, <2>3, <4>1
      <4>2. CASE y \in admitted /\ b.ids = {}
        BY <1>1, <1>4, <2>2, <3>1, <3>4, <4>2 DEF Rested
      <4>3. CASE y \in admitted /\ b.ids # {}
        BY <1>1, <1>4, <2>2, <3>4, <4>3 DEF Counted
      <4>. QED
        BY <2>1, <4>1, <4>2, <4>3
    <3>. QED
      BY <2>2, <2>4, <3>2, <3>3, <3>4 DEF Counted
  <2>12. ASSUME NEW y \in Apps
         PROVE  /\ buckets'[y].ids = {} => Rested(admitted', now', y)
                /\ buckets'[y].ids # {} => Counted(admitted', buckets'[y], y)
    <3>1. CASE y = a
      BY <2>2, <2>6, <2>11, <3>1
    <3>2. CASE y # a
      <4>1. \A lo, hi : Between(admitted', y, lo, hi) = Between(admitted, y, lo, hi)
        BY <2>5, <3>2
      <4>2. \A z \in admitted' : z.app = y => z \in admitted
        BY <2>1, <2>3, <3>2
      <4>3. /\ buckets[y].ids = {} => Rested(admitted, now, y)
            /\ buckets[y].ids # {} => Counted(admitted, buckets[y], y)
        BY DEF GuestInv
      <4>4. buckets'[y] = buckets[y] /\ now' = now
        BY <1>3, <2>6, <3>2
      <4>5. Rested(admitted, now, y) => Rested(admitted', now, y)
        BY <4>1, <4>2 DEF Rested
      <4>6. Counted(admitted, buckets[y], y) => Counted(admitted', buckets[y], y)
        BY <4>1, <4>2 DEF Counted
      <4>. QED
        BY <4>3, <4>4, <4>5, <4>6
    <3>. QED
      BY <3>1, <3>2
  <2>13. ASSUME NEW y \in Apps, NEW t \in 0..now
         PROVE  Cardinality(Between(admitted', y, t, t + Minute - 1)) <= 2 * Rate
    <3>1. CASE y # a \/ now \notin t..(t + Minute - 1)
      <4>1. Between(admitted', y, t, t + Minute - 1) = Between(admitted, y, t, t + Minute - 1)
        BY <2>5, <3>1
      <4>2. Cardinality(Between(admitted, y, t, t + Minute - 1)) <= 2 * Rate
        BY DEF GuestInv, GuestsBounded, Between
      <4>. QED
        BY <4>1, <4>2
    <3>2. CASE y = a /\ now \in t..(t + Minute - 1)
      <4>1. c.start \in Int /\ t \in Int /\ t + Minute - 1 >= c.start
        BY <1>1, <1>4, <2>2, <3>2
      <4>2. \A z \in admitted' : z.at \in Int
        BY <2>7, <1>1
      <4>. QED
        BY <1>1, <2>4, <2>7, <2>11, <3>2, <4>1, <4>2, MinuteBounded
    <3>. QED
      BY <3>1, <3>2
  <2>14. GuestsBounded'
    BY <1>3, <2>13 DEF GuestsBounded, Between
  <2>. QED
    BY <1>1, <1>3, <2>10, <2>12, <2>14 DEF GuestInv
<1>. QED
  BY <1>5, <1>6

\* A clock tick.
LEMMA GuestsTick == ASSUME GuestInv, Tick PROVE GuestInv'
<1>1. /\ EntryConstants /\ inst \in Instances /\ Minute \in Nat \ {0} /\ Rate \in Nat
      /\ now \in Nat /\ IsFiniteSet(LetIn(admitted)) /\ \A y \in admitted : y.at \in 0..now
  BY DEF GuestInv, EntryGuests, EntryConstants
<1>2. UNCHANGED <<inst, buckets, admitted>> /\ now' = now + 1
  BY DEF Tick, guestVars
<1>3. EntryGuests'
  <2>1. now' \in Nat /\ (\A y \in admitted : y.at \in 0..now')
    BY <1>1, <1>2
  <2>2. \A a \in Apps : buckets[a].start <= now'
    BY <1>1, <1>2 DEF GuestInv, EntryGuests
  <2>. QED
    BY <1>2, <2>1, <2>2 DEF GuestInv, EntryGuests
<1>4. ASSUME NEW a \in Apps, Rested(admitted, now, a) PROVE Rested(admitted, now', a)
  <2>1. \A x \in admitted : x.app = a => x.at < now'
    BY <1>1, <1>2, <1>4 DEF Rested
  <2>2. Between(admitted, a, now' - Minute + 1, now' - 1) \subseteq Between(admitted, a, now - Minute + 1, now - 1)
    <3>1. ASSUME NEW x \in admitted, x.app = a, x.at \in (now' - Minute + 1)..(now' - 1)
          PROVE  x.at \in (now - Minute + 1)..(now - 1)
      <4>1. x.at < now /\ x.at \in Nat
        BY <1>1, <1>4, <3>1 DEF Rested
      <4>. QED
        BY <1>1, <1>2, <3>1, <4>1
    <3>. QED
      BY <3>1 DEF Between
  <2>3. Cardinality(Between(admitted, a, now - Minute + 1, now - 1)) <= Rate
    BY <1>4 DEF Rested
  <2>4. IsFiniteSet(Between(admitted, a, now - Minute + 1, now - 1))
    BY <1>1, BetweenFinite
  <2>5. Cardinality(Between(admitted, a, now' - Minute + 1, now' - 1)) <= Rate
    BY <1>1, <2>2, <2>3, <2>4, Smaller
  <2>. QED
    BY <2>1, <2>5 DEF Rested
<1>5. ASSUME NEW a \in Apps, NEW t \in 0..now'
      PROVE  Cardinality(Between(admitted, a, t, t + Minute - 1)) <= 2 * Rate
  <2>1. CASE t \in 0..now
    BY <2>1 DEF GuestInv, GuestsBounded, Between
  <2>2. CASE t = now + 1
    <3>1. \A x \in admitted : x.at \notin t..(t + Minute - 1)
      BY <1>1, <2>2
    <3>2. Between(admitted, a, t, t + Minute - 1) = {}
      BY <3>1 DEF Between
    <3>3. 0 <= 2 * Rate
      BY <1>1
    <3>. QED
      BY <3>2, <3>3, FS_EmptySet
  <2>. QED
    BY <1>1, <1>2, <2>1, <2>2
<1>6. GuestsBounded'
  BY <1>2, <1>5 DEF GuestsBounded, Between
<1>. QED
  BY <1>1, <1>2, <1>3, <1>4, <1>6 DEF GuestInv

\* The limiter's sweep, and another node with empty buckets.
LEMMA GuestsSwept == ASSUME GuestInv, SweepLoop PROVE GuestInv'
<1>1. /\ EntryConstants /\ inst \in Instances /\ now \in Nat
      /\ buckets \in [Apps -> [start : Nat, ids : SUBSET Clients]]
      /\ \A y \in Apps : buckets[y].start <= now /\ IsFiniteSet(buckets[y].ids)
  BY DEF GuestInv, EntryGuests
<1>2. /\ UNCHANGED <<inst, now, admitted>>
      /\ buckets' = [a \in Apps |-> IF now - buckets[a].start >= Minute THEN NoBucket ELSE buckets[a]]
  BY DEF SweepLoop, Sweep
<1>3. NoBucket \in [start : Nat, ids : SUBSET Clients] /\ NoBucket.start = 0 /\ NoBucket.ids = {}
  BY DEF NoBucket
<1>4. IsFiniteSet({})
  BY FS_EmptySet
<1>5. ASSUME NEW a \in Apps
      PROVE  /\ buckets'[a] \in [start : Nat, ids : SUBSET Clients]
             /\ buckets'[a].start <= now' /\ IsFiniteSet(buckets'[a].ids)
             /\ buckets'[a].ids = {} => Rested(admitted', now', a)
             /\ buckets'[a].ids # {} => Counted(admitted', buckets'[a], a)
  <2>1. CASE now - buckets[a].start >= Minute
    <3>1. buckets'[a] = NoBucket /\ Rested(admitted, now, a)
      BY <1>2, <2>1, RestedNow
    <3>2. 0 <= now
      BY <1>1
    <3>3. buckets'[a].ids = {} /\ buckets'[a].start = 0
      BY <1>3, <3>1
    <3>. QED
      BY <1>2, <1>3, <1>4, <3>1, <3>2, <3>3
  <2>2. CASE ~(now - buckets[a].start >= Minute)
    <3>1. buckets'[a] = buckets[a]
      BY <1>2, <2>2
    <3>. QED
      BY <1>1, <1>2, <3>1 DEF GuestInv
  <2>. QED
    BY <2>1, <2>2
<1>6. buckets' \in [Apps -> [start : Nat, ids : SUBSET Clients]]
  BY <1>2, <1>5
<1>7. EntryGuests'
  BY <1>1, <1>2, <1>5, <1>6 DEF GuestInv, EntryGuests
<1>8. GuestsBounded'
  BY <1>2 DEF GuestInv, GuestsBounded
<1>. QED
  BY <1>1, <1>2, <1>5, <1>7, <1>8 DEF GuestInv

LEMMA GuestsRestart == ASSUME GuestInv, NodeDies PROVE GuestInv'
<1>1. /\ EntryConstants /\ inst \in Instances /\ now \in Nat /\ Rate \in Nat
  BY DEF GuestInv, EntryGuests, EntryConstants
<1>2. UNCHANGED <<inst, now>> /\ admitted' = {} /\ buckets' = [a \in Apps |-> NoBucket]
  BY DEF NodeDies
<1>3. /\ buckets' \in [Apps -> [start : Nat, ids : SUBSET Clients]]
      /\ \A a \in Apps : buckets'[a].start = 0 /\ buckets'[a].ids = {}
  BY <1>2 DEF NoBucket
<1>4. EntryGuests'
  BY <1>1, <1>2, <1>3, NobodyLetIn, FS_EmptySet DEF EntryGuests
<1>5. GuestsBounded'
  <2>1. \A a, t : Cardinality(Between(admitted', a, t, t + Minute - 1)) <= 2 * Rate
    BY <1>1, <1>2, NobodyLetIn
  <2>. QED
    BY <2>1 DEF GuestsBounded, Between
<1>. QED
  BY <1>1, <1>2, <1>3, <1>4, <1>5, NobodyLetIn DEF GuestInv

LEMMA GuestInvNext == GuestInv /\ [EntryNext]_entryVars => GuestInv'
<1>. SUFFICES ASSUME GuestInv, [EntryNext]_entryVars PROVE GuestInv'
  OBVIOUS
<1>1. ASSUME NEW c \in Clients, Dial(c) \/ ClientStep(c) \/ Close(c)
      PROVE  UNCHANGED <<inst, now, buckets, admitted>>
  BY <1>1 DEF Dial, ClientStep, Close, Redial, Connected, Refused, DialFails, Lost, Connect, ClientRest, guestVars
<1>2. ASSUME NEW k \in Sockets, Serve(k), ~VerifyGuest(k)
      PROVE  UNCHANGED <<inst, now, buckets, admitted>>
  BY <1>2 DEF Serve, ReadAuthFrame, Load, Fetched, Verify, VerifyFp, VerifyAnswer, VerifyBiz,
              ServeHandshake, HubAddConn, Hello, ReadLoopEnds, Teardown, GateRest, guestVars
<1>3. ASSUME NEW k \in Sockets, CutLink(k) \/ \E code \in inst.closes : HubCloses(k, code)
      PROVE  UNCHANGED <<inst, now, buckets, admitted>>
  BY <1>3 DEF CutLink, HubCloses, ClientRest, GateRest, guestVars
<1>4. ASSUME (\E e \in inst.revokes : Revoke(e)) \/ OnRevoke \/ OnRevoked \/ StreamGap \/ UNCHANGED entryVars
      PROVE  UNCHANGED <<inst, now, buckets, admitted>>
  BY <1>4 DEF Revoke, OnRevoke, OnRevoked, StreamGap, RevRest, guestVars, entryVars
<1>. QED
  BY <1>1, <1>2, <1>3, <1>4, GuestsStand, GuestAllowed, GuestsTick, GuestsSwept, GuestsRestart
  DEF EntryNext, Revocation

\* Guests.Allow and its sweep: no minute lets in more than twice the rate, wherever the windows lie.
THEOREM GuestsLimited == EntrySpec => []GuestsBounded
<1>1. GuestInv => GuestsBounded
  BY DEF GuestInv
<1>. QED
  BY <1>1, EntryAssumption, GuestInvInit, GuestInvNext, PTL DEF EntrySpec

LEMMA WhoTypes ==
    ASSUME EntryConstants, inst \in Instances
    PROVE  /\ \A k \in Sockets : /\ k[1] \in Clients /\ Who(k).app \in Apps /\ Token(k) \in Tokens
                                 /\ Who(k).by \in {"id", "code"} /\ Key(k) \in Apps \X Tokens
           /\ \A j, k \in Sockets : Who(j).kind = "fp" /\ Who(k).kind = "fp" /\ Token(j) = Token(k)
                                       => Who(j).app = Who(k).app
           /\ \A k \in Sockets : \A e \in inst.revokes :
                 Who(k).kind = "fp" /\ Token(k) \in e.tokens => e.app \in {All, Who(k).app}
           /\ inst.revokes \subseteq [app : Apps \cup {All}, tokens : SUBSET Tokens]
<1>1. inst.who \in [Clients -> [kind : {"fp", "biz", "guest"}, app : Apps, by : {"id", "code"},
                                token : Tokens]]
  BY DEF EntryConstants
<1>2. \A k \in Sockets : k[1] \in Clients
  BY DEF Sockets
<1>3. \A k \in Sockets : /\ k[1] \in Clients /\ Who(k).app \in Apps /\ Token(k) \in Tokens
                         /\ Who(k).by \in {"id", "code"} /\ Key(k) \in Apps \X Tokens
  BY <1>1, <1>2 DEF Who, Token, Key
<1>4. \A c \in Clients : inst.who[c].kind = "fp" =>
              /\ \A d \in Clients : (inst.who[d].kind = "fp" /\ inst.who[d].token = inst.who[c].token)
                                       => inst.who[d].app = inst.who[c].app
              /\ \A e \in inst.revokes : inst.who[c].token \in e.tokens => e.app \in {All, inst.who[c].app}
  BY DEF EntryConstants
<1>5. inst.revokes \subseteq [app : Apps \cup {All}, tokens : SUBSET Tokens]
  BY DEF EntryConstants
<1>6. \A j, k \in Sockets : Who(j).kind = "fp" /\ Who(k).kind = "fp" /\ Token(j) = Token(k)
                                       => Who(j).app = Who(k).app
  BY <1>2, <1>4 DEF Who, Token
<1>7. \A k \in Sockets : \A e \in inst.revokes :
                 Who(k).kind = "fp" /\ Token(k) \in e.tokens => e.app \in {All, Who(k).app}
  BY <1>2, <1>4 DEF Who, Token
<1>. QED
  BY <1>3, <1>5, <1>6, <1>7

LEMMA RevokeInvInit == EntryConstants /\ EntryInit => RevokeInv
<1>. SUFFICES ASSUME EntryConstants, EntryInit PROVE RevokeInv
  OBVIOUS
<1>1. ClientInv /\ inst \in Instances
  BY ClientInvInit DEF EntryInit
<1>2. \A k \in Sockets : h[k] = "none"
  BY DEF EntryInit
<1>3. EntryConns
  <2>1. \A c \in Clients : \A i \in 1..MaxTries : <<c, i>> \in Sockets
    BY DEF Sockets
  <2>. QED
    BY <1>2, <2>1 DEF EntryConns, EntryInit
<1>4. EntryNames
  BY <1>2 DEF EntryNames, EntryInit
<1>5. EntryEvents
  <2>1. \A S : <<>> \in Seq(S)
    OBVIOUS
  <2>. QED
    BY <2>1 DEF EntryEvents, EntryInit
<1>6. \A k \in Sockets : Found(k)
  BY DEF Found, Revoked, EntryInit
<1>. QED
  BY <1>1, <1>3, <1>4, <1>5, <1>6 DEF RevokeInv

\* What a connection needs when no event moves.
LEMMA FoundStays ==
    ASSUME RevokeInv, UNCHANGED <<inst, revoked, lost, events, dispatch>>, NEW j \in Sockets,
           Token(j) \in cached' /\ Revoked(j) => Token(j) \in cached \/ Coming(j),
           h'[j] = "ask" /\ verdict'[j] = TRUE /\ j \notin stale' /\ Revoked(j)
              => (h[j] = "ask" /\ verdict[j] = TRUE /\ j \notin stale) \/ Coming(j),
           j \notin late' /\ Revoked(j)
              => /\ (h'[j] = "ask" /\ verdict'[j] = TRUE) \/ h'[j] \in {"shake", "add"}
                      => (j \notin late /\ Vouched(j)) \/ Pending(j)
                 /\ j \in hubConns' => \/ closure'[j] # 0
                                       \/ j \notin late /\ j \in hubConns /\ closure[j] = 0
                                       \/ Pending(j)
    PROVE  Found(j)'
<1>1. Found(j)
  BY DEF RevokeInv
<1>2. Revoked(j)' = Revoked(j) /\ Token(j)' = Token(j) /\ Coming(j)' = Coming(j) /\ Pending(j)' = Pending(j)
  BY DEF Revoked, Token, Who, Coming, Pending
<1>3. CASE ~Revoked(j)
  BY <1>2, <1>3 DEF Found
<1>4. CASE Revoked(j)
  <2>1. Token(j) \in cached' => Coming(j)
    BY <1>1, <1>4 DEF Found
  <2>2. h'[j] = "ask" /\ verdict'[j] = TRUE /\ j \notin stale' => Coming(j)
    BY <1>1, <1>4 DEF Found
  <2>3. j \notin late' /\ Vouched(j)' => Pending(j)
    BY <1>1, <1>4 DEF Found, Vouched
  <2>4. j \notin late' /\ j \in hubConns' => closure'[j] # 0 \/ Pending(j)
    BY <1>1, <1>4 DEF Found
  <2>. QED
    BY <1>2, <2>1, <2>2, <2>3, <2>4 DEF Found
<1>. QED
  BY <1>3, <1>4

HSet == {"none", "frame", "load", "fetch", "join", "verify", "ask", "shake", "add",
         "hello", "open", "down", "done"}

\* Goroutines on their way to the hub.
LEMMA GateMoves ==
    ASSUME RevokeInv, NEW ks, NEW at \in {"load", "fetch", "join", "verify", "ask", "shake", "add", "done"},
           h' = [j \in Sockets |-> IF j \in ks THEN at ELSE h[j]],
           \A j \in Sockets : j \in ks => h[j] \notin {"none", "hello", "open", "down"},
           UNCHANGED <<inst, cl, hubConns, byToken>>, verdict' \in [Sockets -> BOOLEAN],
           apps \subseteq apps', \A a \in Apps : <<a, "code">> \in apps' => <<a, "id">> \in apps',
           at \in {"verify", "ask", "shake", "add"} => \A j \in Sockets : j \in ks => <<Who(j).app, "id">> \in apps'
    PROVE  EntryConns' /\ EntryNames'
<1>0. EntryConns /\ EntryNames /\ EntryConstants /\ inst \in Instances
  BY DEF RevokeInv, ClientInv
<1>1. h' \in [Sockets -> HSet]
  BY <1>0 DEF EntryConns, HSet
<1>2. \A j \in Sockets : h[j] = "none" => h'[j] = "none"
  BY <1>0 DEF EntryConns
<1>3. \A j \in Sockets : h'[j] \in {"hello", "open", "down"} <=> h[j] \in {"hello", "open", "down"}
  BY <1>0 DEF EntryConns
<1>4. \A c \in Clients : \A i \in 1..MaxTries : cl'[c].try < i => h'[<<c, i>>] = "none"
  BY <1>0, <1>2 DEF EntryConns, Sockets
<1>5. EntryConns'
  <2>1. hubConns' = {j \in Sockets : h'[j] \in {"hello", "open", "down"}}
    BY <1>0, <1>3 DEF EntryConns
  <2>2. \A j \in hubConns' : Who(j)'.kind # "guest" => j \in byToken'[Key(j)']
    BY <1>0 DEF EntryConns, Who, Key
  <2>. QED
    BY <1>0, <1>1, <1>4, <2>1, <2>2 DEF EntryConns, HSet
<1>6. ASSUME NEW j \in Sockets, h'[j] \in {"verify", "ask", "shake", "add", "hello", "open", "down"}
      PROVE  <<Who(j)'.app, "id">> \in apps'
  BY <1>0, <1>6 DEF EntryNames, Who
<1>7. EntryNames'
  BY <1>6 DEF EntryNames
<1>. QED
  BY <1>5, <1>7

LEMMA GateMovesOne ==
    ASSUME RevokeInv, NEW k \in Sockets, NEW at \in {"load", "fetch", "join", "verify", "ask", "shake", "add", "done"},
           h' = [j \in Sockets |-> IF j \in {k} THEN at ELSE h[j]],
           h[k] \notin {"none", "hello", "open", "down"},
           UNCHANGED <<inst, cl, hubConns, byToken, apps>>, verdict' \in [Sockets -> BOOLEAN],
           at \in {"verify", "ask", "shake", "add"} => <<Who(k).app, "id">> \in apps
    PROVE  EntryConns' /\ EntryNames'
<1>1. \A j \in Sockets : j \in {k} => h[j] \notin {"none", "hello", "open", "down"}
  OBVIOUS
<1>2. at \in {"verify", "ask", "shake", "add"} => \A j \in Sockets : j \in {k} => <<Who(j).app, "id">> \in apps'
  BY Zenon
<1>3. apps \subseteq apps' /\ \A a \in Apps : <<a, "code">> \in apps' => <<a, "id">> \in apps'
  BY DEF RevokeInv, EntryNames
<1>. QED
  BY <1>1, <1>2, <1>3, GateMoves

RevokeRest == EntryConns /\ EntryNames /\ EntryEvents /\ \A k \in Sockets : Found(k)

\* A handler that only moves on, or is refused, while the hub and the verdicts stay.
LEMMA GateFound ==
    ASSUME RevokeInv, NEW ks, NEW at \in {"load", "fetch", "join", "verify", "done", "add"},
           h' = [j \in Sockets |-> IF j \in ks THEN at ELSE h[j]],
           \A j \in Sockets : j \in ks => h[j] \notin {"none", "hello", "open", "down"},
           at = "add" => \A j \in Sockets : j \in ks => h[j] = "shake",
           UNCHANGED <<inst, cl, hubConns, byToken, closure, verdict, cached, stale, late>>,
           UNCHANGED <<revoked, lost, events, dispatch>>,
           apps \subseteq apps', \A a \in Apps : <<a, "code">> \in apps' => <<a, "id">> \in apps',
           at \in {"verify", "ask", "shake", "add"} => \A j \in Sockets : j \in ks => <<Who(j).app, "id">> \in apps'
    PROVE  RevokeRest'
<1>0. EntryConns /\ EntryEvents
  BY DEF RevokeInv
<1>1. EntryConns' /\ EntryNames'
  <2>1. verdict' \in [Sockets -> BOOLEAN]
    BY <1>0 DEF EntryConns
  <2>. QED
    BY <2>1, GateMoves
<1>2. EntryEvents'
  BY <1>0 DEF EntryEvents
<1>3. ASSUME NEW j \in Sockets PROVE Found(j)'
  <2>1. h'[j] = IF j \in ks THEN at ELSE h[j]
    OBVIOUS
  <2>2. (h'[j] = "ask" => h[j] = "ask") /\ (h'[j] \in {"shake", "add"} => h[j] \in {"shake", "add"})
    BY <2>1
  <2>. QED
    BY <2>2, FoundStays DEF Vouched
<1>. QED
  BY <1>1, <1>2, <1>3 DEF RevokeRest

LEMMA GateFoundOne ==
    ASSUME RevokeInv, NEW k \in Sockets, NEW at \in {"load", "fetch", "join", "verify", "done", "add"},
           h' = [j \in Sockets |-> IF j \in {k} THEN at ELSE h[j]],
           h[k] \notin {"none", "hello", "open", "down"}, at = "add" => h[k] = "shake",
           UNCHANGED <<inst, cl, hubConns, byToken, closure, verdict, cached, stale, late>>,
           UNCHANGED <<revoked, lost, events, dispatch, apps>>,
           at \in {"verify", "add"} => <<Who(k).app, "id">> \in apps
    PROVE  RevokeRest'
<1>1. \A j \in Sockets : j \in {k} => h[j] \notin {"none", "hello", "open", "down"}
  OBVIOUS
<1>2. at = "add" => \A j \in Sockets : j \in {k} => h[j] = "shake"
  OBVIOUS
<1>3. at \in {"verify", "ask", "shake", "add"} => \A j \in Sockets : j \in {k} => <<Who(j).app, "id">> \in apps'
  <2>1. at \in {"verify", "ask", "shake", "add"} => at \in {"verify", "add"}
    OBVIOUS
  <2>. QED
    BY <2>1, Zenon
<1>4. apps \subseteq apps' /\ \A a \in Apps : <<a, "code">> \in apps' => <<a, "id">> \in apps'
  BY DEF RevokeInv, EntryNames
<1>. QED
  BY <1>1, <1>2, <1>3, <1>4, GateFound

LEMMA RevokeServed1 ==
    ASSUME RevokeInv, NEW k \in Sockets,
           ReadAuthFrame(k) \/ Load(k) \/ Fetched(k) \/ ServeHandshake(k) \/ VerifyGuest(k) \/ VerifyBiz(k)
    PROVE  RevokeRest'
<1>0. EntryConns /\ EntryNames /\ EntryConstants /\ inst \in Instances /\ ClientInv
  BY DEF RevokeInv, ClientInv
<1>00. UNCHANGED <<inst, cl, revoked, lost, events, dispatch, hubConns, byToken, closure, verdict, cached, stale, late>>
  BY DEF ReadAuthFrame, Load, Fetched, ServeHandshake, VerifyGuest, VerifyBiz, GateRest, clientVars, revVars,
         hubVars, authVars
<1>01. \A a \in Apps : <<a, "code">> \in apps => <<a, "id">> \in apps
  BY <1>0 DEF EntryNames
<1>1. CASE ReadAuthFrame(k)
  <2>1. h[k] = "frame" /\ UNCHANGED apps
    BY <1>1 DEF ReadAuthFrame, appVars
  <2>2. \E at \in {"load", "done"} : h' = [j \in Sockets |-> IF j \in {k} THEN at ELSE h[j]]
    BY <1>1 DEF ReadAuthFrame, Admit, Reject
  <2>. QED
    BY <1>00, <2>1, <2>2, GateFoundOne
<1>2. CASE Load(k)
  <2>1. h[k] = "load" /\ UNCHANGED apps
    BY <1>2 DEF Load
  <2>2. PICK at \in {"verify", "fetch", "join"} :
          /\ h' = [j \in Sockets |-> IF j \in {k} THEN at ELSE h[j]]
          /\ at = "verify" => Name(k) \in apps
    BY <1>2 DEF Load, Admit
  <2>3. Who(k).app \in Apps /\ Who(k).by \in {"id", "code"}
    BY <1>0, WhoTypes
  <2>4. at = "verify" => <<Who(k).app, "id">> \in apps
    BY <1>01, <2>2, <2>3 DEF Name
  <2>. QED
    BY <1>00, <2>1, <2>2, <2>4, GateFoundOne
<1>3. CASE Fetched(k)
  <2>. DEFINE ks == {k} \cup {j \in Sockets : h[j] = "join" /\ Name(j) = Name(k)}
  <2>1. \A j \in Sockets : j \in ks => h[j] \in {"fetch", "join"} /\ Name(j) = Name(k)
    BY <1>3 DEF Fetched
  <2>2. Who(k).app \in Apps /\ Who(k).by \in {"id", "code"}
    BY <1>0, WhoTypes
  <2>3. CASE Admit(ks, "verify") /\ apps' = apps \cup NamesOf(k)
    <3>1. h' = [j \in Sockets |-> IF j \in ks THEN "verify" ELSE h[j]]
      BY <2>3 DEF Admit
    <3>2. \A j \in Sockets : j \in ks => Who(j).app = Who(k).app
      BY <2>1 DEF Name
    <3>. HIDE DEF ks
    <3>3. <<Who(k).app, "id">> \in apps'
      BY <2>3 DEF NamesOf
    <3>4. \A a \in Apps : <<a, "code">> \in apps' => <<a, "id">> \in apps'
      BY <1>01, <2>3, <3>3 DEF NamesOf, Name
    <3>5. apps \subseteq apps'
      BY <2>3
    <3>. QED
      BY <1>00, <2>1, <3>1, <3>2, <3>3, <3>4, <3>5, GateFound
  <2>4. CASE Reject(ks, PolicyRejected) /\ UNCHANGED apps
    <3>1. h' = [j \in Sockets |-> IF j \in ks THEN "done" ELSE h[j]]
      BY <2>4 DEF Reject
    <3>. HIDE DEF ks
    <3>. QED
      BY <1>00, <1>01, <2>1, <2>4, <3>1, GateFound
  <2>. QED
    BY <1>3, <2>3, <2>4 DEF Fetched
<1>4. CASE ServeHandshake(k)
  <2>1. h[k] = "shake" /\ UNCHANGED apps
    BY <1>4 DEF ServeHandshake, appVars
  <2>2. \E at \in {"add", "done"} : h' = [j \in Sockets |-> IF j \in {k} THEN at ELSE h[j]]
    BY <1>4 DEF ServeHandshake, Admit, Reject
  <2>3. <<Who(k).app, "id">> \in apps
    BY <1>0, <2>1 DEF EntryNames
  <2>. QED
    BY <1>00, <2>1, <2>2, <2>3, GateFoundOne
<1>5. CASE VerifyGuest(k) \/ VerifyBiz(k)
  <2>1. h[k] = "verify" /\ UNCHANGED apps /\ Who(k).kind # "fp"
    BY <1>5 DEF VerifyGuest, VerifyBiz, appVars
  <2>2. PICK at \in {"shake", "done"} : h' = [j \in Sockets |-> IF j \in {k} THEN at ELSE h[j]]
    BY <1>5 DEF VerifyGuest, VerifyBiz, Admit, Reject
  <2>3. <<Who(k).app, "id">> \in apps
    BY <1>0, <2>1 DEF EntryNames
  <2>4. verdict' \in [Sockets -> BOOLEAN]
    BY <1>0, <1>00 DEF EntryConns
  <2>5. EntryConns' /\ EntryNames'
    BY <1>00, <2>1, <2>2, <2>3, <2>4, GateMovesOne
  <2>6. EntryEvents'
    BY <1>00 DEF RevokeInv, EntryEvents
  <2>7. ASSUME NEW j \in Sockets PROVE Found(j)'
    <3>1. CASE j = k
      BY <1>00, <2>1, <3>1, FoundStays DEF Revoked
    <3>2. CASE j # k
      <4>1. h'[j] = h[j]
        BY <2>2, <3>2
      <4>. QED
        BY <1>00, <4>1, FoundStays DEF Vouched
    <3>. QED
      BY <3>1, <3>2
  <2>. QED
    BY <2>5, <2>6, <2>7 DEF RevokeRest
<1>. QED
  BY <1>1, <1>2, <1>3, <1>4, <1>5

\* fpauth.Verify: a verdict found in the cache, asked for, or shared.
LEMMA RevokeServed2 == ASSUME RevokeInv, NEW k \in Sockets, VerifyFp(k) PROVE RevokeRest'
<1>0. EntryConns /\ EntryNames /\ EntryConstants /\ inst \in Instances /\ ClientInv /\ Found(k)
      /\ verdict \in [Sockets -> BOOLEAN]
  BY DEF RevokeInv, ClientInv, EntryConns
<1>00. /\ UNCHANGED <<inst, cl, revoked, lost, events, dispatch, hubConns, byToken, closure, cached, apps>>
       /\ h[k] = "verify" /\ Who(k).kind = "fp"
  BY DEF VerifyFp, GateRest, clientVars, revVars, hubVars, appVars
<1>01. /\ \A a \in Apps : <<a, "code">> \in apps => <<a, "id">> \in apps
       /\ <<Who(k).app, "id">> \in apps
  BY <1>0, <1>00 DEF EntryNames
<1>02. EntryEvents'
  BY <1>00 DEF RevokeInv, EntryEvents
<1>03. ASSUME NEW at \in {"ask", "shake"}, h' = [j \in Sockets |-> IF j \in {k} THEN at ELSE h[j]],
              verdict' \in [Sockets -> BOOLEAN], \A j \in Sockets : j # k => verdict'[j] = verdict[j],
              stale \subseteq stale', late \subseteq late', Found(k)'
       PROVE  RevokeRest'
  <2>1. EntryConns' /\ EntryNames'
    BY <1>00, <1>01, <1>03, GateMovesOne
  <2>2. ASSUME NEW j \in Sockets PROVE Found(j)'
    <3>1. CASE j = k
      BY <1>03, <3>1
    <3>2. CASE j # k
      <4>1. h'[j] = h[j] /\ verdict'[j] = verdict[j]
        BY <1>03, <3>2
      <4>. QED
        BY <1>00, <1>03, <4>1, FoundStays DEF Vouched
    <3>. QED
      BY <3>1, <3>2
  <2>. QED
    BY <1>02, <2>1, <2>2 DEF RevokeRest
<1>1. CASE Token(k) \in cached
  <2>1. h' = [j \in Sockets |-> IF j \in {k} THEN "shake" ELSE h[j]] /\ UNCHANGED <<verdict, stale, late>>
    BY <1>1 DEF VerifyFp, Admit
  <2>2. Revoked(k) => Pending(k)
    BY <1>0, <1>1 DEF Found, Pending
  <2>3. k \notin hubConns
    BY <1>0, <1>00 DEF EntryConns
  <2>4. h'[k] = "shake"
    BY <2>1
  <2>5. Found(k)'
    BY <1>00, <2>1, <2>2, <2>3, <2>4, FoundStays
  <2>. QED
    BY <1>0, <1>03, <2>1, <2>5
<1>2. CASE Token(k) \notin cached
  <2>. DEFINE leaders == {j \in Sockets : h[j] = "ask" /\ Who(j).kind = "fp" /\ Token(j) = Token(k)}
  <2>1. h' = [j \in Sockets |-> IF j \in {k} THEN "ask" ELSE h[j]]
    BY <1>2 DEF VerifyFp, Admit
  <2>2. k \notin hubConns /\ h'[k] = "ask"
    BY <1>0, <1>00, <2>1 DEF EntryConns
  <2>3. CASE leaders = {}
    <3>1. verdict' = [verdict EXCEPT ![k] = Token(k) \notin revoked] /\ UNCHANGED <<stale, late>>
      BY <1>2, <2>3 DEF VerifyFp
    <3>2. /\ verdict' \in [Sockets -> BOOLEAN] /\ \A j \in Sockets : j # k => verdict'[j] = verdict[j]
          /\ verdict'[k] = TRUE => Token(k) \notin revoked
      <4>1. CASE Token(k) \in revoked
        <5>1. verdict' = [verdict EXCEPT ![k] = FALSE]
          BY <3>1, <4>1
        <5>. QED
          BY <1>0, <5>1
      <4>2. CASE Token(k) \notin revoked
        <5>1. verdict' = [verdict EXCEPT ![k] = TRUE]
          BY <3>1, <4>2
        <5>. QED
          BY <1>0, <4>2, <5>1
      <4>. QED
        BY <4>1, <4>2
    <3>3. Found(k)'
      BY <1>00, <2>2, <3>1, <3>2, FoundStays DEF Revoked
    <3>. QED
      BY <1>03, <2>1, <3>1, <3>2, <3>3
  <2>4. CASE leaders # {}
    <3>1. PICK l \in leaders : l = (CHOOSE x \in leaders : TRUE)
      BY <2>4
    <3>2. /\ verdict' = [verdict EXCEPT ![k] = verdict[l]]
          /\ stale' = IF l \in stale THEN stale \cup {k} ELSE stale
          /\ late' = IF l \in late THEN late \cup {k} ELSE late
      BY <1>2, <2>4, <3>1 DEF VerifyFp
    <3>3. l \in Sockets /\ h[l] = "ask" /\ Who(l).kind = "fp" /\ Token(l) = Token(k) /\ Who(l).app = Who(k).app
      BY <1>0, <1>00, WhoTypes
    <3>. HIDE DEF leaders
    <3>4. /\ verdict' \in [Sockets -> BOOLEAN] /\ \A j \in Sockets : j # k => verdict'[j] = verdict[j]
          /\ verdict'[k] = verdict[l]
      BY <1>0, <3>2, <3>3
    <3>5. Found(l) /\ Revoked(l) = Revoked(k) /\ Coming(l) = Coming(k) /\ Pending(l) = Pending(k)
      BY <1>00, <3>3 DEF RevokeInv, Revoked, Coming, Pending
    <3>6. /\ k \notin stale' => l \notin stale
          /\ k \notin late' => l \notin late
      BY <3>2
    <3>7. Found(k)'
      <4>1. verdict'[k] = TRUE /\ k \notin stale' /\ Revoked(k) => Coming(k)
        BY <3>3, <3>4, <3>5, <3>6 DEF Found
      <4>2. verdict'[k] = TRUE /\ k \notin late' /\ Revoked(k) => Pending(k)
        BY <3>3, <3>4, <3>5, <3>6 DEF Found, Vouched
      <4>. QED
        BY <1>00, <2>2, <4>1, <4>2, FoundStays
    <3>. QED
      BY <1>03, <2>1, <3>2, <3>4, <3>7
  <2>. QED
    BY <2>3, <2>4
<1>. QED
  BY <1>1, <1>2

LEMMA RevokeServed3 == ASSUME RevokeInv, NEW k \in Sockets, VerifyAnswer(k) PROVE RevokeRest'
<1>0. EntryConns /\ EntryNames /\ EntryConstants /\ inst \in Instances /\ ClientInv /\ Found(k)
      /\ verdict \in [Sockets -> BOOLEAN]
  BY DEF RevokeInv, ClientInv, EntryConns
<1>00. /\ UNCHANGED <<inst, cl, revoked, lost, events, dispatch, hubConns, byToken, closure, apps, verdict, stale, late>>
       /\ h[k] = "ask" /\ Who(k).kind = "fp"
  BY DEF VerifyAnswer, GateRest, clientVars, revVars, hubVars, appVars
<1>01. /\ \A a \in Apps : <<a, "code">> \in apps => <<a, "id">> \in apps
       /\ <<Who(k).app, "id">> \in apps
  BY <1>0, <1>00 DEF EntryNames
<1>1. CASE cached' = cached /\ h' = [j \in Sockets |-> IF j \in {k} THEN "done" ELSE h[j]]
  BY <1>00, <1>1, GateFoundOne
<1>2. CASE /\ verdict[k] /\ h' = [j \in Sockets |-> IF j \in {k} THEN "shake" ELSE h[j]]
           /\ cached' = IF k \in stale THEN cached ELSE cached \cup {Token(k)}
  <2>1. EntryConns' /\ EntryNames'
    BY <1>0, <1>00, <1>01, <1>2, GateMovesOne
  <2>2. EntryEvents'
    BY <1>00 DEF RevokeInv, EntryEvents
  <2>3. ASSUME NEW j \in Sockets PROVE Found(j)'
    <3>1. verdict[k] = TRUE
      BY <1>0, <1>2
    <3>2. Token(j) \in cached' /\ Revoked(j) => Token(j) \in cached \/ Coming(j)
      <4>1. ASSUME Token(j) = Token(k), Revoked(j), k \notin stale PROVE Coming(j)
        <5>1. Who(j).app = Who(k).app /\ Revoked(k)
          BY <1>0, <1>00, <4>1, WhoTypes DEF Revoked
        <5>2. Coming(k)
          BY <1>0, <1>00, <3>1, <4>1, <5>1 DEF Found
        <5>. QED
          BY <4>1, <5>1, <5>2 DEF Coming
      <4>. QED
        BY <1>2, <4>1
    <3>3. /\ h'[j] = "ask" => h[j] = "ask"
          /\ h'[j] \in {"shake", "add"} => h[j] \in {"shake", "add"} \/ j = k
      BY <1>2
    <3>. QED
      BY <1>00, <3>1, <3>2, <3>3, FoundStays DEF Vouched
  <2>. QED
    BY <2>1, <2>2, <2>3 DEF RevokeRest
<1>. QED
  BY <1>1, <1>2 DEF VerifyAnswer, Admit, Reject

\* Into the hub, through it and out of it.
LEMMA RevokeServed4 ==
    ASSUME RevokeInv, NEW k \in Sockets, HubAddConn(k) \/ Hello(k) \/ ReadLoopEnds(k) \/ Teardown(k) PROVE RevokeRest'
<1>0. EntryConns /\ EntryNames /\ EntryConstants /\ inst \in Instances /\ ClientInv
  BY DEF RevokeInv, ClientInv
<1>00. UNCHANGED <<inst, cl, revoked, lost, events, dispatch, closure, verdict, cached, stale, late, apps>>
  BY DEF HubAddConn, Hello, ReadLoopEnds, Teardown, GateRest, clientVars, revVars, hubVars, authVars, appVars
<1>01. EntryEvents'
  BY <1>00 DEF RevokeInv, EntryEvents
<1>02. h \in [Sockets -> HSet] /\ hubConns = {j \in Sockets : h[j] \in {"hello", "open", "down"}}
       /\ byToken \in [Apps \X Tokens -> SUBSET Sockets] /\ Key(k) \in Apps \X Tokens
       /\ \A j \in Sockets : Key(j)' = Key(j) /\ Who(j)' = Who(j) /\ Key(j) \in Apps \X Tokens
  BY <1>0, <1>00, WhoTypes DEF EntryConns, HSet, Key, Who
<1>1. ASSUME NEW at \in {"hello", "open", "down", "done"}, h' = [h EXCEPT ![k] = at],
             h[k] \in {"add", "hello", "open", "down"},
             hubConns' = {j \in Sockets : h'[j] \in {"hello", "open", "down"}},
             byToken' \in [Apps \X Tokens -> SUBSET Sockets],
             \A j \in hubConns' : Who(j).kind # "guest" => j \in byToken'[Key(j)],
             h[k] = "add" \/ k \in hubConns
      PROVE  RevokeRest'
  <2>1. h' \in [Sockets -> HSet] /\ h'[k] = at /\ \A j \in Sockets : j # k => h'[j] = h[j]
    BY <1>02, <1>1 DEF HSet
  <2>2. \A c \in Clients : \A i \in 1..MaxTries : cl'[c].try < i => h'[<<c, i>>] = "none"
    <3>1. ASSUME NEW c \in Clients, NEW i \in 1..MaxTries, cl'[c].try < i PROVE h'[<<c, i>>] = "none"
      <4>1. <<c, i>> \in Sockets /\ h[<<c, i>>] = "none"
        BY <1>0, <1>00, <3>1 DEF EntryConns, Sockets
      <4>. QED
        BY <1>1, <2>1, <4>1
    <3>. QED
      BY <3>1
  <2>3. EntryConns'
    BY <1>0, <1>00, <1>02, <1>1, <2>1, <2>2 DEF EntryConns, HSet
  <2>4. EntryNames'
    <3>1. <<Who(k).app, "id">> \in apps
      BY <1>0, <1>1 DEF EntryNames
    <3>2. ASSUME NEW j \in Sockets, h'[j] \in {"verify", "ask", "shake", "add", "hello", "open", "down"}
          PROVE  <<Who(j)'.app, "id">> \in apps'
      BY <1>0, <1>00, <1>02, <2>1, <3>1, <3>2 DEF EntryNames
    <3>. QED
      BY <1>0, <1>00, <3>2 DEF EntryNames
  <2>5. ASSUME NEW j \in Sockets PROVE Found(j)'
    <3>1. CASE j # k
      <4>1. h'[j] = h[j] /\ (j \in hubConns' => j \in hubConns)
        BY <1>02, <1>1, <2>1, <3>1
      <4>. QED
        BY <1>00, <4>1, FoundStays DEF Vouched
    <3>2. CASE j = k
      <4>1. h'[k] \notin {"ask", "shake", "add"}
        BY <2>1
      <4>2. k \notin late /\ Revoked(k) => k \in hubConns \/ Pending(k)
        BY <1>1 DEF RevokeInv, Found, Vouched
      <4>. QED
        BY <1>00, <3>2, <4>1, <4>2, FoundStays
    <3>. QED
      BY <3>1, <3>2
  <2>. QED
    BY <1>01, <2>3, <2>4, <2>5 DEF RevokeRest
<1>2. CASE HubAddConn(k)
  <2>1. /\ h[k] = "add" /\ hubConns' = hubConns \cup {k} /\ h' = [j \in Sockets |-> IF j \in {k} THEN "hello" ELSE h[j]]
        /\ byToken' = IF Who(k).kind = "guest" THEN byToken ELSE [byToken EXCEPT ![Key(k)] = @ \cup {k}]
    BY <1>2 DEF HubAddConn, Admit
  <2>2. h' = [h EXCEPT ![k] = "hello"]
    BY <1>02, <2>1
  <2>3. hubConns' = {j \in Sockets : h'[j] \in {"hello", "open", "down"}}
    BY <1>02, <2>1
  <2>4. byToken' \in [Apps \X Tokens -> SUBSET Sockets]
    BY <1>02, <2>1
  <2>5. ASSUME NEW j \in hubConns', Who(j).kind # "guest" PROVE j \in byToken'[Key(j)]
    <3>1. CASE j = k
      BY <1>02, <2>1, <2>5, <3>1
    <3>2. CASE j # k
      <4>1. j \in byToken[Key(j)] /\ Key(j) \in Apps \X Tokens
        BY <1>0, <1>02, <2>1, <2>5, <3>2 DEF EntryConns
      <4>. QED
        BY <1>02, <2>1, <4>1
    <3>. QED
      BY <3>1, <3>2
  <2>. QED
    BY <1>1, <2>1, <2>2, <2>3, <2>4, <2>5
<1>3. CASE Hello(k) \/ ReadLoopEnds(k)
  <2>1. UNCHANGED <<hubConns, byToken>> /\ h[k] \in {"hello", "open"}
    BY <1>3 DEF Hello, ReadLoopEnds, hubVars
  <2>2. PICK at \in {"open", "down"} : h' = [h EXCEPT ![k] = at]
    BY <1>3 DEF Hello, ReadLoopEnds, Go
  <2>3. hubConns' = {j \in Sockets : h'[j] \in {"hello", "open", "down"}} /\ k \in hubConns
    BY <1>02, <2>1, <2>2
  <2>4. \A j \in hubConns' : Who(j).kind # "guest" => j \in byToken'[Key(j)]
    BY <1>0, <2>1 DEF EntryConns
  <2>. QED
    BY <1>02, <1>1, <2>1, <2>2, <2>3, <2>4
<1>4. CASE Teardown(k)
  <2>1. /\ h[k] = "down" /\ hubConns' = hubConns \ {k} /\ h' = [h EXCEPT ![k] = "done"]
        /\ byToken' = IF Who(k).kind = "guest" THEN byToken ELSE [byToken EXCEPT ![Key(k)] = @ \ {k}]
    BY <1>4 DEF Teardown, Go, Forget
  <2>2. hubConns' = {j \in Sockets : h'[j] \in {"hello", "open", "down"}} /\ k \in hubConns
    BY <1>02, <2>1
  <2>3. byToken' \in [Apps \X Tokens -> SUBSET Sockets]
    BY <1>02, <2>1
  <2>4. ASSUME NEW j \in hubConns', Who(j).kind # "guest" PROVE j \in byToken'[Key(j)]
    <3>1. j # k /\ j \in byToken[Key(j)] /\ Key(j) \in Apps \X Tokens
      BY <1>0, <1>02, <2>1, <2>4 DEF EntryConns
    <3>. QED
      BY <1>02, <2>1, <3>1
  <2>. QED
    BY <1>1, <2>1, <2>2, <2>3, <2>4
<1>. QED
  BY <1>2, <1>3, <1>4

\* Steps in which only the codes of closings change.
LEMMA RevokeStands ==
    ASSUME RevokeInv, UNCHANGED <<inst, cl, revoked, lost, events, dispatch, h, hubConns, byToken>>,
           UNCHANGED <<verdict, cached, stale, late, apps>>,
           \A j \in Sockets : closure'[j] = 0 => closure[j] = 0
    PROVE  RevokeRest'
<1>1. EntryConns'
  BY DEF RevokeInv, EntryConns, Who, Key
<1>2. EntryNames'
  BY DEF RevokeInv, EntryNames, Who
<1>3. EntryEvents'
  BY DEF RevokeInv, EntryEvents
<1>4. ASSUME NEW j \in Sockets PROVE Found(j)'
  BY FoundStays DEF Vouched
<1>. QED
  BY <1>1, <1>2, <1>3, <1>4 DEF RevokeRest

\* The clients: a new connection is one the gateway has not seen.
LEMMA RevokeClients ==
    ASSUME RevokeInv, NEW c \in Clients, Dial(c) \/ ClientStep(c) \/ Close(c) PROVE RevokeRest'
<1>0. EntryConns /\ EntryNames /\ EntryConstants /\ inst \in Instances /\ ClientInv
      /\ cl \in [Clients -> CSet] /\ MaxTries \in Nat
  BY DEF RevokeInv, ClientInv, EntryClients, CSet, EntryConstants
<1>00. UNCHANGED <<inst, revoked, lost, events, dispatch, hubConns, byToken, closure, verdict, cached, stale, late, apps>>
  BY DEF Dial, ClientStep, Close, Redial, Connected, Refused, DialFails, Lost, Connect, ClientRest,
         revVars, hubVars, authVars, appVars
<1>1. ASSUME NEW at, Connect(c, at) PROVE RevokeRest'
  <2>. DEFINE k == <<c, cl[c].try + 1>>
  <2>1. cl[c].try < MaxTries /\ h' = [h EXCEPT ![k] = "frame"] /\ cl' = [cl EXCEPT ![c].at = at, ![c].try = @ + 1]
    BY <1>1 DEF Connect, Go
  <2>2. cl[c].try \in 0..MaxTries /\ cl[c].try + 1 \in 1..MaxTries
    <3>1. cl[c].try \in 0..MaxTries
      BY <1>0 DEF CSet
    <3>. QED
      BY <1>0, <2>1, <3>1
  <2>3. k \in Sockets /\ h[k] = "none"
    BY <1>0, <2>2 DEF EntryConns, Sockets
  <2>4. cl'[c].try = cl[c].try + 1 /\ \A d \in Clients : d # c => cl'[d] = cl[d]
    BY <1>0, <2>1 DEF CSet
  <2>5. ASSUME NEW d \in Clients, NEW i \in 1..MaxTries, cl'[d].try < i PROVE h'[<<d, i>>] = "none"
    <3>1. <<d, i>> \in Sockets
      BY DEF Sockets
    <3>2. <<d, i>> # k
      BY <2>2, <2>4, <2>5
    <3>3. cl[d].try < i
      BY <2>2, <2>4, <2>5
    <3>4. h[<<d, i>>] = "none"
      BY <1>0, <3>3 DEF EntryConns
    <3>. HIDE DEF k
    <3>. QED
      BY <1>0, <2>1, <3>1, <3>2, <3>4 DEF EntryConns
  <2>. HIDE DEF k
  <2>6. h' \in [Sockets -> HSet] /\ h'[k] = "frame" /\ \A j \in Sockets : j # k => h'[j] = h[j]
    BY <1>0, <2>1, <2>3 DEF EntryConns, HSet
  <2>7. hubConns' = {j \in Sockets : h'[j] \in {"hello", "open", "down"}}
    BY <1>0, <1>00, <2>3, <2>6 DEF EntryConns
  <2>8. EntryConns'
    BY <1>0, <1>00, <2>5, <2>6, <2>7 DEF EntryConns, HSet, Who, Key
  <2>9. EntryNames'
    BY <1>0, <1>00, <2>6 DEF EntryNames, Who
  <2>10. EntryEvents'
    BY <1>00 DEF RevokeInv, EntryEvents
  <2>11. ASSUME NEW j \in Sockets PROVE Found(j)'
    <3>1. /\ h'[j] = "ask" => h[j] = "ask"
          /\ h'[j] \in {"shake", "add"} => h[j] \in {"shake", "add"}
      BY <2>6
    <3>. QED
      BY <1>00, <3>1, FoundStays DEF Vouched
  <2>. QED
    BY <2>8, <2>9, <2>10, <2>11 DEF RevokeRest
<1>2. CASE \E at : Connect(c, at)
  BY <1>1, <1>2
<1>3. CASE Connected(c) \/ Refused(c) \/ DialFails(c) \/ Lost(c) \/ Close(c)
  <2>1. UNCHANGED h
    BY <1>3 DEF Connected, Refused, DialFails, Lost, Close
  <2>2. \A d \in Clients : cl'[d].try = cl[d].try
    <3>1. Connected(c) => \A d \in Clients : cl'[d].try = cl[d].try
      BY <1>0 DEF Connected, CSet
    <3>2. \A code : ConnectFails(c, code) => \A d \in Clients : cl'[d].try = cl[d].try
      BY <1>0 DEF ConnectFails, GiveUp, CSet
    <3>3. Lost(c) => \A d \in Clients : cl'[d].try = cl[d].try
      BY <1>0 DEF Lost, CSet
    <3>4. Close(c) => \A d \in Clients : cl'[d].try = cl[d].try
      BY <1>0 DEF Close, CSet
    <3>. QED
      BY <1>3, <3>1, <3>2, <3>3, <3>4 DEF Refused, DialFails
  <2>3. EntryConns'
    BY <1>0, <1>00, <2>1, <2>2 DEF EntryConns, Who, Key
  <2>4. EntryNames'
    BY <1>0, <1>00, <2>1 DEF EntryNames, Who
  <2>5. EntryEvents'
    BY <1>00 DEF RevokeInv, EntryEvents
  <2>6. ASSUME NEW j \in Sockets PROVE Found(j)'
    BY <1>00, <2>1, FoundStays DEF Vouched
  <2>. QED
    BY <2>3, <2>4, <2>5, <2>6 DEF RevokeRest
<1>. QED
  BY <1>2, <1>3 DEF Dial, ClientStep, Redial

\* The tables of the hub when only the stream moves.
LEMMA RevokeTables ==
    ASSUME RevokeInv, UNCHANGED <<inst, cl, h, hubConns, byToken, verdict, apps>>
    PROVE  EntryConns' /\ EntryNames' /\ \A j \in Sockets : Who(j)' = Who(j) /\ Token(j)' = Token(j)
<1>1. EntryConns'
  BY DEF RevokeInv, EntryConns, Who, Key
<1>2. EntryNames'
  BY DEF RevokeInv, EntryNames, Who
<1>. QED
  BY <1>1, <1>2 DEF Token, Who

LEMMA RevokeEvent == ASSUME RevokeInv, NEW e \in inst.revokes, Revoke(e) PROVE RevokeRest'
<1>0. EntryConstants /\ inst \in Instances /\ EntryEvents
  BY DEF RevokeInv, ClientInv
<1>1. /\ UNCHANGED <<inst, cl, h, hubConns, byToken, verdict, apps>>
      /\ UNCHANGED <<cached, stale, closure, dispatch, lost, late>>
      /\ revoked' = revoked \cup e.tokens /\ events' = Append(events, e)
  BY DEF Revoke, RevRest, clientVars, appVars
<1>2. EntryConns' /\ EntryNames' /\ \A j \in Sockets : Who(j)' = Who(j) /\ Token(j)' = Token(j)
  BY <1>1, RevokeTables
<1>3. events \in Seq([app : Apps \cup {All}, tokens : SUBSET Tokens])
      /\ e \in [app : Apps \cup {All}, tokens : SUBSET Tokens]
  BY <1>0, WhoTypes DEF EntryEvents
<1>4. EntryEvents'
  BY <1>0, <1>1, <1>3 DEF EntryEvents
<1>5. /\ \A i \in DOMAIN events : i \in DOMAIN events' /\ events'[i] = events[i]
      /\ Len(events) + 1 \in DOMAIN events' /\ events'[Len(events) + 1] = e
  BY <1>1, <1>3
<1>6. ASSUME NEW j \in Sockets PROVE Found(j)'
  <2>1. Coming(j) => Coming(j)'
    BY <1>2, <1>5 DEF Coming
  <2>2. Pending(j) => Pending(j)'
    BY <1>1, <1>2, <2>1 DEF Pending
  <2>3. CASE Revoked(j)' /\ ~Revoked(j)
    <3>1. Token(j) \in e.tokens /\ Who(j).kind = "fp"
      BY <1>1, <1>2, <2>3 DEF Revoked
    <3>2. e.app \in {All, Who(j).app}
      BY <1>0, <3>1, WhoTypes
    <3>3. Coming(j)'
      BY <1>2, <1>5, <3>1, <3>2 DEF Coming
    <3>. QED
      BY <3>3 DEF Found, Pending
  <2>4. CASE Revoked(j)
    <3>1. /\ Token(j) \in cached => Coming(j)
          /\ h[j] = "ask" /\ verdict[j] = TRUE /\ j \notin stale => Coming(j)
          /\ j \notin late /\ Vouched(j) => Pending(j)
          /\ j \notin late /\ j \in hubConns => closure[j] # 0 \/ Pending(j)
      BY <2>4 DEF RevokeInv, Found
    <3>. QED
      BY <1>1, <1>2, <2>1, <2>2, <3>1 DEF Found, Vouched
  <2>5. CASE ~Revoked(j)'
    BY <2>5 DEF Found
  <2>. QED
    BY <2>3, <2>4, <2>5
<1>. QED
  BY <1>2, <1>4, <1>6 DEF RevokeRest

\* onRevoke: from the stream to the dispatch, and out of the cache.
LEMMA RevokeTaken == ASSUME RevokeInv, OnRevoke PROVE RevokeRest'
<1>0. EntryConstants /\ inst \in Instances /\ EntryEvents /\ EntryNames /\ EntryConns
  BY DEF RevokeInv, ClientInv
<1>1. /\ UNCHANGED <<inst, cl, h, hubConns, byToken, verdict, apps, closure, revoked, lost, late>>
      /\ dispatch = None /\ events # <<>>
      /\ cached' = cached \ Head(events).tokens
      /\ dispatch' = [apps |-> IF Head(events).app = All THEN AppIDs ELSE {Head(events).app},
                      tokens |-> Head(events).tokens]
      /\ stale' = stale \cup Asking
      /\ events' = Tail(events)
  BY DEF OnRevoke, RevRest, clientVars, appVars
<1>2. EntryConns' /\ EntryNames' /\ \A j \in Sockets : Who(j)' = Who(j) /\ Token(j)' = Token(j)
  BY <1>1, RevokeTables
<1>3. PICK e \in [app : Apps \cup {All}, tokens : SUBSET Tokens] : e = Head(events)
  <2>1. \A S : \A q \in Seq(S) : q # <<>> => Head(q) \in S
    OBVIOUS
  <2>. QED
    BY <1>0, <1>1, <2>1, Zenon DEF EntryEvents
<1>4. PICK A \in SUBSET Apps : A = IF e.app = All THEN AppIDs ELSE {e.app}
  BY <1>3 DEF AppIDs
<1>5. dispatch' = [apps |-> A, tokens |-> e.tokens]
  BY <1>1, <1>3, <1>4
<1>6. /\ dispatch' \in [apps : SUBSET Apps, tokens : SUBSET Tokens] /\ dispatch' # None
      /\ dispatch'.apps = A /\ dispatch'.tokens = e.tokens
  <2>1. dispatch' \in [apps : SUBSET Apps, tokens : SUBSET Tokens]
    BY <1>3, <1>4, <1>5
  <2>. QED
    BY <1>0, <1>5, <2>1 DEF EntryConstants
<1>7. EntryEvents'
  BY <1>0, <1>1, <1>6 DEF EntryEvents
<1>8. \A i \in DOMAIN events : \/ events[i] = e
                               \/ i - 1 \in DOMAIN events' /\ events'[i-1] = events[i]
  BY <1>0, <1>1, <1>3, TailKeeps DEF EntryEvents
<1>9. ASSUME NEW j \in Sockets PROVE Found(j)'
  <2>1. ASSUME Revoked(j) PROVE Found(j)'
    <3>1. /\ Token(j) \in cached => Coming(j)
          /\ j \notin late /\ Vouched(j) => Pending(j)
          /\ j \notin late /\ j \in hubConns => closure[j] # 0 \/ Pending(j)
      BY <2>1 DEF RevokeInv, Found
    <3>2. Pending(j) => Coming(j)
      BY <1>1 DEF Pending
    <3>3. Coming(j) => Coming(j)' \/ (Token(j) \in e.tokens /\ e.app \in {All, Who(j).app})
      BY <1>2, <1>8 DEF Coming
    <3>4. Token(j) \in cached' => Coming(j)'
      BY <1>1, <1>3, <3>1, <3>3
    <3>5. ~(h[j] = "ask" /\ j \notin stale')
      BY <1>1 DEF Asking
    <3>6. Who(j).app \in Apps /\ All \notin Apps
      BY <1>0, WhoTypes DEF EntryConstants
    <3>7. Vouched(j) \/ j \in hubConns => <<Who(j).app, "id">> \in apps
      BY <1>0 DEF EntryNames, EntryConns, Vouched
    <3>8. (Vouched(j) \/ j \in hubConns) /\ Coming(j) => Pending(j)'
      <4>1. e.app \in {All, Who(j).app} /\ <<Who(j).app, "id">> \in apps => Who(j).app \in A
        BY <1>4, <3>6 DEF AppIDs
      <4>. QED
        BY <1>2, <1>6, <3>3, <3>7, <4>1 DEF Pending
    <3>9. Vouched(j)' = Vouched(j)
      BY <1>1 DEF Vouched
    <3>. QED
      BY <1>1, <1>2, <3>1, <3>2, <3>4, <3>5, <3>8, <3>9 DEF Found
  <2>2. Revoked(j)' = Revoked(j)
    BY <1>1, <1>2 DEF Revoked
  <2>. QED
    BY <2>1, <2>2 DEF Found
<1>. QED
  BY <1>2, <1>7, <1>9 DEF RevokeRest

\* Hub.OnRevoked for one application.
LEMMA RevokeDispatched == ASSUME RevokeInv, OnRevoked PROVE RevokeRest'
<1>0. EntryConstants /\ inst \in Instances /\ EntryEvents /\ EntryConns
      /\ verdict \in [Sockets -> BOOLEAN] /\ closure \in [Sockets -> Int]
  BY DEF RevokeInv, ClientInv, EntryConns, EntryClients
<1>1. /\ UNCHANGED <<inst, cl, h, hubConns, byToken, verdict, apps, revoked, lost, cached, stale, events>>
      /\ dispatch # None
  BY DEF OnRevoked, RevRest, clientVars, appVars
<1>2. EntryConns' /\ EntryNames' /\ \A j \in Sockets : Who(j)' = Who(j) /\ Token(j)' = Token(j)
  BY <1>1, RevokeTables
<1>3. dispatch \in [apps : SUBSET Apps, tokens : SUBSET Tokens]
  BY <1>0, <1>1 DEF EntryEvents
<1>4. \A j \in Sockets : Revoked(j)' = Revoked(j) /\ Coming(j)' = Coming(j) /\ Vouched(j)' = Vouched(j)
  BY <1>1, <1>2 DEF Revoked, Coming, Vouched
<1>5. \A j \in Sockets : Revoked(j) =>
          /\ Token(j) \in cached => Coming(j)
          /\ h[j] = "ask" /\ verdict[j] = TRUE /\ j \notin stale => Coming(j)
          /\ j \notin late /\ Vouched(j) => Pending(j)
          /\ j \notin late /\ j \in hubConns => closure[j] # 0 \/ Pending(j)
  BY DEF RevokeInv, Found
<1>6. CASE dispatch.apps = {}
  <2>1. dispatch' = None /\ UNCHANGED <<closure, late>>
    BY <1>6 DEF OnRevoked
  <2>2. EntryEvents'
    BY <1>0, <1>1, <2>1 DEF EntryEvents
  <2>3. \A j \in Sockets : Pending(j) => Pending(j)'
    BY <1>4, <1>6 DEF Pending
  <2>4. \A j \in Sockets : Found(j)'
    BY <1>1, <1>2, <1>4, <1>5, <2>1, <2>3 DEF Found
  <2>. QED
    BY <1>2, <2>2, <2>4 DEF RevokeRest
<1>7. ASSUME NEW a \in dispatch.apps, dispatch' = [dispatch EXCEPT !.apps = @ \ {a}],
             Closed(UNION {byToken[<<a, t>>] : t \in dispatch.tokens}, AuthFailed),
             late' = late \cup OnTheWay(a, dispatch.tokens)
      PROVE  RevokeRest'
  <2>1. /\ dispatch' \in [apps : SUBSET Apps, tokens : SUBSET Tokens]
        /\ dispatch'.apps = dispatch.apps \ {a} /\ dispatch'.tokens = dispatch.tokens /\ dispatch' # None
    <3>1. /\ dispatch' \in [apps : SUBSET Apps, tokens : SUBSET Tokens]
          /\ dispatch'.apps = dispatch.apps \ {a} /\ dispatch'.tokens = dispatch.tokens
      BY <1>3, <1>7
    <3>. QED
      BY <1>0, <3>1 DEF EntryConstants
  <2>2. EntryEvents'
    BY <1>0, <1>1, <2>1 DEF EntryEvents
  <2>3. ASSUME NEW j \in Sockets, Revoked(j) PROVE Found(j)'
    <3>1. Pending(j) => Pending(j)' \/ (Token(j) \in dispatch.tokens /\ Who(j).app = a)
      BY <1>2, <1>4, <2>1 DEF Pending
    <3>2. CASE Token(j) \in dispatch.tokens /\ Who(j).app = a
      <4>1. Vouched(j) => j \in late'
        BY <1>0, <1>7, <2>3, <3>2 DEF OnTheWay, Vouched, Revoked
      <4>2. ASSUME j \in hubConns PROVE closure'[j] # 0
        <5>1. j \in byToken[<<a, Token(j)>>]
          BY <1>0, <2>3, <3>2, <4>2 DEF EntryConns, Key, Token, Revoked
        <5>2. j \in UNION {byToken[<<a, t>>] : t \in dispatch.tokens}
          BY <3>2, <5>1
        <5>3. closure'[j] = AuthFailed \/ (closure[j] # 0 /\ closure'[j] = closure[j])
          BY <1>7, <5>2 DEF Closed
        <5>. QED
          BY <5>3 DEF AuthFailed
      <4>. QED
        BY <1>1, <1>2, <1>4, <1>5, <2>3, <4>1, <4>2 DEF Found
    <3>3. CASE ~(Token(j) \in dispatch.tokens /\ Who(j).app = a)
      <4>1. closure[j] # 0 => closure'[j] # 0
        BY <1>7 DEF Closed, AuthFailed
      <4>. QED
        BY <1>1, <1>2, <1>4, <1>5, <1>7, <2>3, <3>1, <3>3, <4>1 DEF Found
    <3>. QED
      BY <3>2, <3>3
  <2>4. \A j \in Sockets : Found(j)'
    BY <1>4, <2>3 DEF Found
  <2>. QED
    BY <1>2, <2>2, <2>4 DEF RevokeRest
<1>. QED
  BY <1>6, <1>7 DEF OnRevoked

\* A gap of the stream, and another node.
LEMMA RevokeGap == ASSUME RevokeInv, StreamGap PROVE RevokeRest'
<1>1. /\ UNCHANGED <<inst, cl, h, hubConns, byToken, verdict, apps, revoked, closure, dispatch, late>>
      /\ lost' = lost \cup UNION {events[i].tokens : i \in DOMAIN events}
      /\ events' = <<>> /\ cached' = {} /\ stale' = stale \cup Asking
  BY DEF StreamGap, RevRest, clientVars, appVars
<1>2. EntryConns' /\ EntryNames' /\ \A j \in Sockets : Who(j)' = Who(j) /\ Token(j)' = Token(j)
  BY <1>1, RevokeTables
<1>3. EntryEvents'
  <2>1. \A S : <<>> \in Seq(S)
    OBVIOUS
  <2>. QED
    BY <1>1, <2>1 DEF RevokeInv, EntryEvents
<1>4. ASSUME NEW j \in Sockets, Revoked(j)' PROVE Found(j)'
  <2>1. Revoked(j) /\ ~Coming(j)
    BY <1>1, <1>2, <1>4 DEF Revoked, Coming
  <2>2. Pending(j) => Pending(j)'
    BY <1>1, <1>2, <2>1 DEF Pending
  <2>3. /\ j \notin late /\ Vouched(j) => Pending(j)
        /\ j \notin late /\ j \in hubConns => closure[j] # 0 \/ Pending(j)
    BY <2>1 DEF RevokeInv, Found
  <2>4. ~(h[j] = "ask" /\ j \notin stale') /\ Vouched(j)' = Vouched(j)
    BY <1>1 DEF Asking, Vouched
  <2>. QED
    BY <1>1, <2>2, <2>3, <2>4 DEF Found
<1>5. \A j \in Sockets : Found(j)'
  BY <1>4 DEF Found
<1>. QED
  BY <1>2, <1>3, <1>5 DEF RevokeRest

LEMMA RevokeRestart == ASSUME RevokeInv, NodeDies PROVE RevokeRest'
<1>1. /\ UNCHANGED <<inst, cl, verdict, closure, revoked, lost, late>>
      /\ h' = [k \in Sockets |-> IF h[k] = "none" THEN "none" ELSE "done"]
      /\ apps' = {} /\ cached' = {} /\ stale' = {} /\ hubConns' = {}
      /\ byToken' = [x \in Apps \X Tokens |-> {}] /\ events' = <<>> /\ dispatch' = None
  BY DEF NodeDies, clientVars
<1>2. EntryConns'
  <2>1. \A k \in Sockets : h'[k] \in {"none", "done"} /\ (h[k] = "none" => h'[k] = "none")
    BY <1>1
  <2>2. \A c \in Clients : \A i \in 1..MaxTries : cl'[c].try < i => h'[<<c, i>>] = "none"
    BY <1>1, <2>1 DEF RevokeInv, EntryConns, Sockets
  <2>. QED
    BY <1>1, <2>1, <2>2 DEF RevokeInv, EntryConns
<1>3. EntryNames'
  BY <1>1 DEF EntryNames
<1>4. EntryEvents'
  <2>1. \A S : <<>> \in Seq(S)
    OBVIOUS
  <2>. QED
    BY <1>1, <2>1 DEF EntryEvents
<1>5. \A j \in Sockets : Found(j)'
  <2>1. \A j \in Sockets : h'[j] \in {"none", "done"}
    BY <1>1
  <2>. QED
    BY <1>1, <2>1 DEF Found, Vouched
<1>. QED
  BY <1>2, <1>3, <1>4, <1>5 DEF RevokeRest

LEMMA RevokeInvNext == RevokeInv /\ [EntryNext]_entryVars => RevokeInv'
<1>. SUFFICES ASSUME RevokeInv, [EntryNext]_entryVars PROVE RevokeRest'
  BY ClientInvNext DEF RevokeInv, RevokeRest
<1>1. ASSUME NEW k \in Sockets, NEW code \in inst.closes, HubCloses(k, code) PROVE RevokeRest'
  <2>1. /\ UNCHANGED <<inst, cl, revoked, lost, events, dispatch, h, hubConns, byToken>>
        /\ UNCHANGED <<verdict, cached, stale, late, apps>>
        /\ Closed({k}, code)
    BY <1>1 DEF HubCloses, GateRest, clientVars, revVars, authVars, appVars
  <2>2. \A j \in Sockets : closure'[j] = 0 => closure[j] = 0
    BY <2>1 DEF Closed
  <2>. QED
    BY <2>1, <2>2, RevokeStands
<1>2. ASSUME (\E k \in Sockets : CutLink(k)) \/ SweepLoop \/ Tick \/ UNCHANGED entryVars PROVE RevokeRest'
  <2>1. /\ UNCHANGED <<inst, cl, revoked, lost, events, dispatch, h, hubConns, byToken>>
        /\ UNCHANGED <<verdict, cached, stale, late, apps, closure>>
    BY <1>2 DEF CutLink, SweepLoop, Tick, ClientRest, entryVars, clientVars, hubVars, revVars, authVars, appVars
  <2>. QED
    BY <2>1, RevokeStands
<1>3. ASSUME NEW k \in Sockets, Serve(k) PROVE RevokeRest'
  BY <1>3, RevokeServed1, RevokeServed2, RevokeServed3, RevokeServed4 DEF Serve, Verify
<1>. QED
  BY <1>1, <1>2, <1>3, RevokeClients, RevokeEvent, RevokeTaken, RevokeDispatched, RevokeGap,
     RevokeRestart DEF EntryNext, Revocation

\* Hub.OnRevoked, dispatchRevoke, Source.Apps: once a revocation is dispatched every connection of
\* the token in the hub is closed, whatever name of the application it came by.
THEOREM RevocationCloses == EntrySpec => []RevokedIsClosed
<1>1. RevokeInv => RevokedIsClosed
  <2>. SUFFICES ASSUME RevokeInv, NEW k \in hubConns \ late, Who(k).kind = "fp", Token(k) \in revoked \ lost,
                       events = <<>>, dispatch = None
       PROVE  closure[k] # 0
    BY DEF RevokedIsClosed
  <2>1. k \in Sockets
    BY DEF RevokeInv, EntryConns
  <2>2. ~Pending(k)
    BY DEF Pending, Coming
  <2>. QED
    BY <2>1, <2>2 DEF RevokeInv, Found, Revoked
<1>. QED
  BY <1>1, EntryAssumption, RevokeInvInit, RevokeInvNext, PTL DEF EntrySpec
=============================================================================
