-------------------------- MODULE ImServerProofs --------------------------
(***************************************************************************)
(* Proofs about the business servers' side of the IM service: the SDK's    *)
(* stream (ImStream), for any number of calls, callbacks, pings, streams   *)
(* and faults and any limits, and the nodes' streams, routes and shutdown  *)
(* (ImServing), for any number of nodes, streams, connections and faults.  *)
(***************************************************************************)
EXTENDS ImStream, ImServing, FiniteSetTheorems, TLAPS

-----------------------------------------------------------------------------
(* The SDK's stream                                                        *)
(*                                                                         *)
(* WaiterIsFound is not inductive: that a waiting call is registered or    *)
(* settled is decided while it still sends, when runOnce or dropStream may *)
(* already have found it (InFlight), and that a registered call belongs to *)
(* the present stream depends on when Server.stream may change             *)
(* (OneStream).                                                            *)
CallTypes ==
    /\ loop \in {"dial", "recv", "drop", "backoff", "ended"}
    /\ gen \in Nat /\ stream \in Nat
    /\ callPc \in [Requests -> {"idle", "send", "wait"} \cup Returned]
    /\ cgen \in [Requests -> Nat]
    /\ chan \in [Requests -> {"empty", "result", "closed"}]
    /\ pending \subseteq Requests
    /\ hb \in Requests \cup {NoCall}

\* Server.stream is nil or the stream that runOnce reads.
OneStream ==
    /\ stream # 0 => stream = gen /\ loop = "recv"
    /\ \A c \in pending : stream # 0 /\ cgen[c] = stream

\* A call is registered from its start until it returns or its channel is settled;
\* a ping whose answer was taken starts afresh.
InFlight ==
    \A c \in Requests :
        /\ callPc[c] \in {"send", "wait"} => c \in pending \/ chan[c] # "empty"
        /\ c \in pending => callPc[c] \in {"send", "wait"} /\ chan[c] = "empty"
        /\ callPc[c] = "idle" => chan[c] = "empty"

CallInv == CallTypes /\ OneStream /\ InFlight

-----------------------------------------------------------------------------
\* Nothing is registered before the first stream.
LEMMA CallInit == SdkInit => CallInv
<1>. SUFFICES ASSUME SdkInit PROVE CallInv
  OBVIOUS
<1>1. CallTypes
  BY DEF SdkInit, CallTypes, Returned
<1>2. OneStream /\ InFlight
  BY DEF SdkInit, OneStream, InFlight
<1>. QED
  BY <1>1, <1>2 DEF CallInv

\* runLoop and runOnce: what changes Server.stream leaves no call of another stream
\* registered, and what takes a call out of Server.pending settles its channel.
LEMMA LoopKeeps == ASSUME CallInv, Recv \/ Loop PROVE CallInv'
<1>. USE DEF CallInv, CallTypes, OneStream, InFlight, Returned
<1>1. CASE RecvReady
  BY <1>1 DEF RecvReady, Incoming, callVars
<1>2. ASSUME NEW c \in Requests, RecvResult(c) PROVE CallInv'
  BY <1>2 DEF RecvResult, sdkVars
<1>3. CASE RecvFrame
  BY <1>3 DEF RecvFrame, callVars
<1>4. CASE Dial
  BY <1>4 DEF Dial, callVars
<1>5. CASE DropStream
  BY <1>5 DEF DropStream, WakeAll
<1>6. CASE WaitHeartbeat
  BY <1>6 DEF WaitHeartbeat, callVars
<1>7. CASE Backoff
  BY <1>7 DEF Backoff, callVars
<1>. QED
  BY <1>1, <1>2, <1>3, <1>4, <1>5, <1>6, <1>7 DEF Recv, Loop

\* Server.call registers before it sends, and only on a stream.
LEMMA RegisterKeeps ==
    ASSUME CallInv, NEW c \in Requests, callPc[c] = "idle", Register(c),
           UNCHANGED <<loop, gen, stream>>, hb' \in Requests \cup {NoCall}
    PROVE  CallInv'
<1>. USE DEF CallInv, CallTypes, OneStream, InFlight, Returned
<1>1. CASE stream = 0
  BY <1>1 DEF Register
<1>2. CASE stream # 0
  BY <1>2 DEF Register
<1>. QED
  BY <1>1, <1>2

\* The steps of a call, a ping and a callback.
LEMMA CallKeeps ==
    ASSUME CallInv, NEW c \in Requests,
           Call(c) \/ Return(c) \/ Timeout(c) \/ Ping(c) \/ CallbackCalls(c)
    PROVE  CallInv'
<1>1. CASE Call(c)
  BY <1>1, RegisterKeeps DEF Call, sdkVars, CallInv, CallTypes
<1>2. CASE Ping(c)
  BY <1>2, RegisterKeeps DEF Ping
<1>3. CASE CallbackCalls(c)
  BY <1>3, RegisterKeeps DEF CallbackCalls, sdkVars, CallInv, CallTypes
<1>. USE DEF CallInv, CallTypes, OneStream, InFlight, Returned
<1>4. CASE Send(c)
  BY <1>4 DEF Send, sdkVars
<1>5. CASE Wake(c)
  BY <1>5 DEF Wake, sdkVars
<1>6. CASE Timeout(c)
  BY <1>6 DEF Timeout, sdkVars
<1>. QED
  BY <1>1, <1>2, <1>3, <1>4, <1>5, <1>6 DEF Return

\* Everything else leaves the calls alone, but for the ping that was answered.
LEMMA OthersKeep ==
    ASSUME CallInv,
           \/ Consumer \/ Pong \/ Close
           \/ \E g \in Gens :
                \/ Serve(g) \/ Emit(g) \/ Break(g) \/ Stall(g) \/ Stop(g)
                \/ \E c \in Requests : Handle(g, c)
    PROVE  CallInv'
<1>. USE DEF CallInv, CallTypes, OneStream, InFlight, Returned
<1>1. CASE Pong
  BY <1>1, StreamAssumption DEF Pong
<1>2. CASE Close \/ Consumer
  BY <1>2 DEF Close, Consumer, Consume, CallbackReturns, ConsumeEnds, callVars, sdkVars
<1>3. CASE \E g \in Gens :
             \/ Serve(g) \/ Emit(g) \/ Break(g) \/ Stall(g) \/ Stop(g)
             \/ \E c \in Requests : Handle(g, c)
  <2>1. UNCHANGED <<sdkVars, callVars>>
    BY <1>3 DEF Serve, Connect, NodeRecv, Admit, ConnectCloses, ConnectReturns, Emit, Break, Stall,
                Stop, Handle, NodeRest
  <2>. QED
    BY <2>1 DEF sdkVars, callVars
<1>. QED
  BY <1>1, <1>2, <1>3

\* Server.call, runOnce, dropStream and heartbeat: however calls, streams and faults
\* interleave, a call that waits is registered or already settled, and a registered call
\* is of the present stream and has an empty channel.
THEOREM NobodyForgotten == SdkSpec => []WaiterIsFound
<1>1. CallInv /\ [SdkNext]_allVars => CallInv'
  <2>. SUFFICES ASSUME CallInv, [SdkNext]_allVars PROVE CallInv'
    OBVIOUS
  <2>1. CASE UNCHANGED allVars
    BY <2>1 DEF allVars, sdkVars, callVars, CallInv, CallTypes, OneStream, InFlight
  <2>. QED
    BY <2>1, LoopKeeps, CallKeeps, OthersKeep DEF SdkNext
<1>2. CallInv => WaiterIsFound
  BY DEF CallInv, OneStream, InFlight, WaiterIsFound, CallTypes
<1>. QED
  BY <1>1, <1>2, CallInit, PTL DEF SdkSpec

-----------------------------------------------------------------------------
(* The serving table of the nodes                                          *)
(*                                                                         *)
(* ServingSettles joins two facts that each hold in every state: a call of *)
(* SetServing leaves in Liveness what the node's list says (Told), and the *)
(* loop writes what Liveness holds or has a signal to do so (Written).     *)

\* x is in the list q; q holds nothing twice.
In(q, x) == \E i \in DOMAIN q : q[i] = x
Once(q)  == \A i, j \in DOMAIN q : q[i] = q[j] => i = j

\* A node's list holds each of its streams between AddStream and remove, once.
StreamLists ==
    /\ inst \in Instances
    /\ spc \in [Streams -> {"new", "declare", "open", "ended", "retract", "done"}]
    /\ streams \in [Nodes -> Seq(Streams)]
    /\ \A n \in Nodes : Once(streams[n])
    /\ \A n \in Nodes, s \in Streams :
         In(streams[n], s) <=> inst.at[s] = n /\ spc[s] \in {"declare", "open", "ended"}

NodeTypes ==
    /\ phase \in [Nodes -> {"up", "http", "close", "drain", "stop", "deregister", "down"}]
    /\ lv \in [Nodes -> [at : {"idle", "beat", "refresh", "write"}, on : BOOLEAN]]

\* While at most one call of SetServing is under way, it will leave what the list says.
Told(n) ==
    Running(n) /\ n \notin crossed =>
        /\ Pending(n) = {} => (n \in serving <=> streams[n] # <<>>)
        /\ \A s : Pending(n) = {s} /\ spc[s] = "retract" => streams[n] = <<>>

\* What Run still has to write, it writes or will be signalled to.
Written(n) ==
    phase[n] = "up" =>
        /\ n \in sig => n \in everSrv
        /\ n \notin everSrv => n \notin serving /\ n \notin srvTab /\ lv[n].on = FALSE /\ lv[n].at # "write"
        /\ lv[n].at = "write" /\ n \notin sig => (lv[n].on = TRUE <=> n \in serving)
        /\ lv[n].at = "idle" /\ n \notin unwritten \cup sig => (n \in srvTab <=> n \in serving)

ServingInv == StreamLists /\ NodeTypes /\ \A n \in Nodes : Told(n) /\ Written(n)

-----------------------------------------------------------------------------
\* What Append and RemoveAt do to a list.
LEMMA AppendIn ==
    ASSUME NEW S, NEW q \in Seq(S), NEW x \in S
    PROVE  /\ Append(q, x) \in Seq(S) /\ Append(q, x) # <<>>
           /\ \A y : In(Append(q, x), y) <=> In(q, y) \/ y = x
           /\ Once(q) /\ ~In(q, x) => Once(Append(q, x))
<1>. DEFINE r == Append(q, x)
<1>1. r \in Seq(S) /\ Len(r) = Len(q) + 1 /\ r[Len(q)+1] = x /\ \A i \in 1..Len(q) : r[i] = q[i]
  OBVIOUS
<1>2. DOMAIN q = 1..Len(q) /\ DOMAIN r = 1..(Len(q)+1) /\ Len(q) \in Nat
  BY <1>1
<1>3. r # <<>>
  BY <1>1
<1>. HIDE DEF r
<1>4. \A y : In(r, y) <=> In(q, y) \/ y = x
  BY <1>1, <1>2 DEF In
<1>5. Once(q) /\ ~In(q, x) => Once(r)
  BY <1>1, <1>2 DEF In, Once
<1>. QED
  BY <1>1, <1>3, <1>4, <1>5 DEF r

LEMMA ConcatRight ==
    ASSUME NEW S, NEW a \in Seq(S), NEW b \in Seq(S), NEW d \in 1..Len(b)
    PROVE  (a \o b)[Len(a) + d] = b[d]
<1>1. Len(a) \in Nat /\ Len(b) \in Nat
  OBVIOUS
<1>2. Len(a) + d \in 1..(Len(a) + Len(b)) /\ ~(Len(a) + d <= Len(a)) /\ (Len(a) + d) - Len(a) = d
  BY <1>1
<1>. QED
  BY <1>1, <1>2

LEMMA RemoveIn ==
    ASSUME NEW S, NEW q \in Seq(S), Once(q), NEW i \in DOMAIN q
    PROVE  /\ RemoveAt(q, i) \in Seq(S) /\ Once(RemoveAt(q, i))
           /\ \A y : In(RemoveAt(q, i), y) <=> In(q, y) /\ y # q[i]
<1>. DEFINE r == RemoveAt(q, i)
<1>1. i \in 1..Len(q) /\ Len(q) \in Nat /\ DOMAIN q = 1..Len(q)
  OBVIOUS
<1>2. r \in Seq(S) /\ Len(r) = Len(q) - 1
  BY <1>1 DEF RemoveAt
<1>3. DOMAIN r = 1..(Len(q) - 1)
  BY <1>2
<1>4. ASSUME NEW j \in 1..(Len(q) - 1) PROVE r[j] = IF j < i THEN q[j] ELSE q[j+1]
  <2>. DEFINE a == SubSeq(q, 1, i-1)
              b == SubSeq(q, i+1, Len(q))
  <2>1. a \in Seq(S) /\ Len(a) = i - 1 /\ b \in Seq(S) /\ Len(b) = Len(q) - i
    BY <1>1
  <2>2. CASE j < i
    <3>1. (a \o b)[j] = a[j]
      BY <1>1, <2>1, <2>2
    <3>. QED
      BY <1>1, <2>2, <3>1 DEF RemoveAt
  <2>3. CASE ~(j < i)
    <3>. DEFINE d == j - (i-1)
    <3>. HIDE DEF a, b
    <3>1. j = Len(a) + d
      BY <1>1, <2>1
    <3>2. d \in 1..(Len(q) - i)
      BY <1>1, <2>3
    <3>3. i + d = j + 1
      BY <1>1
    <3>. HIDE DEF d
    <3>4. b[d] = q[i + d]
      BY <1>1, <3>2 DEF b
    <3>5. (a \o b)[j] = b[d]
      <4>1. d \in 1..Len(b)
        BY <2>1, <3>2
      <4>2. (a \o b)[Len(a) + d] = b[d]
        BY <2>1, <4>1, ConcatRight
      <4>. QED
        BY <3>1, <4>2
    <3>. QED
      BY <2>3, <3>3, <3>4, <3>5 DEF RemoveAt, a, b
  <2>. QED
    BY <2>2, <2>3
<1>. HIDE DEF r
<1>5. ASSUME NEW j \in DOMAIN r, NEW k \in DOMAIN r, r[j] = r[k] PROVE j = k
  <2>1. \A m, n \in 1..Len(q) : q[m] = q[n] => m = n
    BY <1>1 DEF Once
  <2>2. j \in 1..(Len(q) - 1) /\ k \in 1..(Len(q) - 1)
    BY <1>3
  <2>3. CASE j < i /\ k < i
    BY <1>1, <1>4, <1>5, <2>1, <2>2, <2>3
  <2>4. CASE j < i /\ ~(k < i)
    BY <1>1, <1>4, <1>5, <2>1, <2>2, <2>4
  <2>5. CASE ~(j < i) /\ k < i
    BY <1>1, <1>4, <1>5, <2>1, <2>2, <2>5
  <2>6. CASE ~(j < i) /\ ~(k < i)
    BY <1>1, <1>4, <1>5, <2>1, <2>2, <2>6
  <2>. QED
    BY <2>3, <2>4, <2>5, <2>6
<1>6. ASSUME NEW y PROVE In(r, y) <=> In(q, y) /\ y # q[i]
  <2>1. ASSUME In(r, y) PROVE In(q, y) /\ y # q[i]
    BY <1>1, <1>3, <1>4, <2>1 DEF In, Once
  <2>2. ASSUME In(q, y), y # q[i] PROVE In(r, y)
    <3>1. PICK k \in 1..Len(q) : q[k] = y /\ k # i
      BY <1>1, <2>2 DEF In
    <3>2. CASE k < i
      BY <1>1, <1>3, <1>4, <3>1, <3>2 DEF In
    <3>3. CASE k > i
      <4>1. k - 1 \in 1..(Len(q) - 1) /\ ~(k - 1 < i) /\ (k - 1) + 1 = k
        BY <1>1, <3>1, <3>3
      <4>2. r[k - 1] = q[k]
        BY <1>4, <4>1
      <4>. QED
        BY <1>3, <3>1, <4>1, <4>2 DEF In
    <3>. QED
      BY <1>1, <3>1, <3>2, <3>3
  <2>. QED
    BY <2>1, <2>2
<1>. QED
  BY <1>2, <1>5, <1>6 DEF r, Once

LEMMA EmptyIn ==
    ASSUME NEW S, NEW q \in Seq(S)
    PROVE  q = <<>> <=> \A y \in S : ~In(q, y)
<1>1. q # <<>> => 1 \in DOMAIN q /\ q[1] \in S
  OBVIOUS
<1>2. q = <<>> => DOMAIN q = {}
  OBVIOUS
<1>. QED
  BY <1>1, <1>2 DEF In

LEMMA ServingPlaces ==
    ASSUME inst \in Instances
    PROVE  /\ \A s \in Streams : inst.at[s] \in Nodes
           /\ \A c \in Conns : inst.at[c] \in Nodes
  BY ServingAssumption

LEMMA StreamListsInit == Init => StreamLists
<1>. SUFFICES ASSUME Init PROVE StreamLists
  OBVIOUS
<1>1. inst \in Instances /\ \A n \in Nodes : streams[n] = <<>>
  BY DEF Init
<1>2. spc \in [Streams -> {"new", "declare", "open", "ended", "retract", "done"}]
  BY DEF Init
<1>3. streams \in [Nodes -> Seq(Streams)]
  <2>1. <<>> \in Seq(Streams)
    OBVIOUS
  <2>. QED
    BY <2>1 DEF Init
<1>4. ASSUME NEW n \in Nodes
      PROVE  /\ Once(streams[n])
             /\ \A s \in Streams :
                  In(streams[n], s) <=> inst.at[s] = n /\ spc[s] \in {"declare", "open", "ended"}
  <2>1. DOMAIN streams[n] = {}
    BY <1>1
  <2>2. \A s \in Streams : spc[s] \in {"new", "done"}
    BY DEF Init
  <2>. QED
    BY <2>1, <2>2 DEF In, Once
<1>. QED
  BY <1>1, <1>2, <1>3, <1>4 DEF StreamLists

LEMMA StreamListsSame ==
    ASSUME StreamLists, UNCHANGED <<inst, spc, streams>> PROVE StreamLists'
  BY DEF StreamLists

\* AddStream and remove change the list with the state of the stream.
LEMMA StreamListsStep ==
    ASSUME StreamLists, NEW s \in Streams, StreamNext(s)
    PROVE  StreamLists'
<1>. DEFINE n == inst.at[s]
<1>1. n \in Nodes /\ streams[n] \in Seq(Streams) /\ Once(streams[n]) /\ inst' = inst
  BY ServingPlaces DEF StreamLists, StreamNext, AddStream, Declare, StreamEnds, RemoveStream, Retract
<1>2. \A t \in Streams : In(streams[n], t) <=> inst.at[t] = n /\ spc[t] \in {"declare", "open", "ended"}
  BY <1>1 DEF StreamLists
<1>3. CASE AddStream(s)
  <2>1. PICK x \in {"declare", "open"} :
           /\ spc' = [spc EXCEPT ![s] = x] /\ spc[s] = "new"
           /\ streams' = [streams EXCEPT ![n] = Append(streams[n], s)]
    BY <1>3 DEF AddStream
  <2>2. ~In(streams[n], s)
    BY <1>2, <2>1
  <2>3. /\ Append(streams[n], s) \in Seq(Streams) /\ Once(Append(streams[n], s))
        /\ \A t : In(Append(streams[n], s), t) <=> In(streams[n], t) \/ t = s
    BY <1>1, <2>2, AppendIn
  <2>. HIDE DEF n
  <2>4. streams' \in [Nodes -> Seq(Streams)] /\ streams'[n] = Append(streams[n], s)
        /\ \A m \in Nodes : m # n => streams'[m] = streams[m]
    BY <1>1, <2>1, <2>3 DEF StreamLists
  <2>5. /\ spc' \in [Streams -> {"new", "declare", "open", "ended", "retract", "done"}]
        /\ spc'[s] = x /\ \A t \in Streams : t # s => spc'[t] = spc[t]
    BY <2>1 DEF StreamLists
  <2>6. \A m \in Nodes : Once(streams'[m])
    BY <2>3, <2>4 DEF StreamLists
  <2>7. ASSUME NEW m \in Nodes, NEW t \in Streams
        PROVE  In(streams'[m], t) <=> inst.at[t] = m /\ spc'[t] \in {"declare", "open", "ended"}
    <3>1. CASE m = n
      BY <1>2, <2>1, <2>3, <2>4, <2>5, <3>1 DEF n
    <3>2. CASE m # n
      <4>1. t = s => inst.at[t] = n
        BY DEF n
      <4>. QED
        BY <2>1, <2>4, <2>5, <3>2, <4>1 DEF StreamLists
    <3>. QED
      BY <3>1, <3>2
  <2>. QED
    BY <1>1, <2>4, <2>5, <2>6, <2>7 DEF StreamLists
<1>4. CASE RemoveStream(s)
  <2>. DEFINE i == CHOOSE i \in DOMAIN streams[n] : streams[n][i] = s
              list == RemoveAt(streams[n], i)
  <2>1. PICK x \in {"retract", "done"} :
           /\ spc' = [spc EXCEPT ![s] = x] /\ spc[s] = "ended"
           /\ streams' = [streams EXCEPT ![n] = list]
    BY <1>4 DEF RemoveStream, Without
  <2>2. i \in DOMAIN streams[n] /\ streams[n][i] = s
    BY <1>1, <1>2, <2>1 DEF In
  <2>. HIDE DEF i
  <2>3. /\ list \in Seq(Streams) /\ Once(list)
        /\ \A t : In(list, t) <=> In(streams[n], t) /\ t # s
    BY <1>1, <2>2, RemoveIn
  <2>. HIDE DEF n, list
  <2>4. streams' \in [Nodes -> Seq(Streams)] /\ streams'[n] = list
        /\ \A m \in Nodes : m # n => streams'[m] = streams[m]
    BY <1>1, <2>1, <2>3 DEF StreamLists
  <2>5. /\ spc' \in [Streams -> {"new", "declare", "open", "ended", "retract", "done"}]
        /\ spc'[s] = x /\ \A t \in Streams : t # s => spc'[t] = spc[t]
    BY <2>1 DEF StreamLists
  <2>6. \A m \in Nodes : Once(streams'[m])
    BY <2>3, <2>4 DEF StreamLists
  <2>7. ASSUME NEW m \in Nodes, NEW t \in Streams
        PROVE  In(streams'[m], t) <=> inst.at[t] = m /\ spc'[t] \in {"declare", "open", "ended"}
    <3>1. CASE m = n
      BY <1>2, <2>1, <2>3, <2>4, <2>5, <3>1
    <3>2. CASE m # n
      <4>1. t = s => inst.at[t] = n
        BY DEF n
      <4>. QED
        BY <2>1, <2>4, <2>5, <3>2, <4>1 DEF StreamLists
    <3>. QED
      BY <3>1, <3>2
  <2>. QED
    BY <1>1, <2>4, <2>5, <2>6, <2>7 DEF StreamLists
<1>5. CASE Declare(s) \/ StreamEnds(s) \/ Retract(s)
  <2>1. PICK x \in {"open", "ended", "done"} :
           /\ spc' = [spc EXCEPT ![s] = x] /\ streams' = streams
           /\ spc[s] \in {"declare", "open", "ended"} <=> x \in {"declare", "open", "ended"}
    BY <1>5 DEF Declare, StreamEnds, Retract
  <2>2. /\ spc' \in [Streams -> {"new", "declare", "open", "ended", "retract", "done"}]
        /\ \A t \in Streams : spc'[t] \in {"declare", "open", "ended"}
                                <=> spc[t] \in {"declare", "open", "ended"}
    BY <2>1 DEF StreamLists
  <2>. QED
    BY <1>1, <2>1, <2>2 DEF StreamLists
<1>. QED
  BY <1>3, <1>4, <1>5 DEF StreamNext

\* A process that ends takes its streams with it.
LEMMA StreamListsExit ==
    ASSUME StreamLists, NEW n \in Nodes, Exit(n), inst' = inst
    PROVE  StreamLists'
<1>1. /\ spc' \in [Streams -> {"new", "declare", "open", "ended", "retract", "done"}]
      /\ \A s \in Streams : spc'[s] = IF inst.at[s] = n THEN "done" ELSE spc[s]
  BY DEF StreamLists, Exit, StreamsAt
<1>2. <<>> \in Seq(Streams)
  OBVIOUS
<1>3. /\ streams' \in [Nodes -> Seq(Streams)] /\ streams'[n] = <<>>
      /\ \A m \in Nodes : m # n => streams'[m] = streams[m]
  BY <1>2 DEF StreamLists, Exit
<1>4. Once(streams'[n]) /\ \A s : ~In(streams'[n], s)
  <2>1. DOMAIN streams'[n] = {}
    BY <1>3
  <2>. QED
    BY <2>1 DEF Once, In
<1>5. ASSUME NEW m \in Nodes
      PROVE  /\ Once(streams'[m])
             /\ \A s \in Streams :
                  In(streams'[m], s) <=> inst.at[s] = m /\ spc'[s] \in {"declare", "open", "ended"}
  <2>1. CASE m = n
    BY <1>1, <1>4, <2>1
  <2>2. CASE m # n
    BY <1>1, <1>3, <2>2 DEF StreamLists
  <2>. QED
    BY <2>1, <2>2
<1>. QED
  BY <1>1, <1>3, <1>5 DEF StreamLists

Phases == {"up", "http", "close", "drain", "stop", "deregister", "down"}

\* Deliveries, connections and the orderly steps of shutdown leave streams and tables alone;
\* a node that stops does not start again.
Quietly ==
    \/ \E n \in Nodes : \/ HandleEnvelope(n) \/ Signal(n) \/ HttpShutdown(n) \/ CloseLocalConns(n)
                        \/ WaitConnsDrained(n) \/ GrpcStop(n)
    \/ \E g \in Nodes \cup Conns : DeliverNext(g)
    \/ \E c \in Conns : ConnNext(c)

LEMMA ServingActions ==
    Next <=> \/ \E s \in Streams : StreamNext(s)
             \/ \E n \in Nodes : LivenessNext(n)
             \/ \E n \in Nodes : Deregister(n) \/ Crash(n)
             \/ Quietly
  BY DEF Next, ShutdownNext, Quietly

LEMMA QuietPhase ==
    ASSUME NodeTypes, Quietly
    PROVE  /\ phase' \in [Nodes -> Phases]
           /\ \A n \in Nodes : /\ phase'[n] = "up" => phase[n] = "up"
                               /\ phase'[n] # "down" => phase[n] # "down"
<1>1. CASE \E n \in Nodes : \/ Signal(n) \/ HttpShutdown(n) \/ CloseLocalConns(n)
                            \/ WaitConnsDrained(n) \/ GrpcStop(n)
  <2>1. PICK n \in Nodes : \/ Signal(n) \/ HttpShutdown(n) \/ CloseLocalConns(n)
                           \/ WaitConnsDrained(n) \/ GrpcStop(n)
    BY <1>1
  <2>2. PICK x \in {"http", "close", "drain", "stop", "deregister"} :
           phase' = [phase EXCEPT ![n] = x] /\ phase[n] # "down"
    BY <2>1 DEF Signal, HttpShutdown, CloseLocalConns, WaitConnsDrained, GrpcStop
  <2>. QED
    BY <2>2 DEF NodeTypes, Phases
<1>2. CASE \/ \E n \in Nodes : HandleEnvelope(n)
           \/ \E g \in Nodes \cup Conns : DeliverNext(g)
           \/ \E c \in Conns : ConnNext(c)
  <2>1. phase' = phase
    BY <1>2 DEF HandleEnvelope, DeliverNext, DeliverLocal, DeliverRoute, PublishNext, Drop, DeliverRest,
                stopVars, ConnNext, Accept, AddConn, SendUp, ReadEnds, RemoveConn, ConnRest
  <2>. QED
    BY <2>1 DEF NodeTypes, Phases
<1>. QED
  BY <1>1, <1>2 DEF Quietly

LEMMA QuietRest ==
    ASSUME Quietly
    PROVE  UNCHANGED <<inst, spc, streams, crossed, serving, everSrv, sig, lv, unwritten, srvTab>>
<1>1. CASE \E n \in Nodes : \/ Signal(n) \/ HttpShutdown(n) \/ CloseLocalConns(n)
                            \/ WaitConnsDrained(n) \/ GrpcStop(n)
  BY <1>1 DEF Signal, HttpShutdown, CloseLocalConns, WaitConnsDrained, GrpcStop, StopRest, liveVars
<1>2. CASE \E n \in Nodes : HandleEnvelope(n)
  BY <1>2 DEF HandleEnvelope, DeliverRest, streamVars, liveVars
<1>3. CASE \E g \in Nodes \cup Conns : DeliverNext(g)
  BY <1>3 DEF DeliverNext, DeliverLocal, DeliverRoute, PublishNext, Drop, DeliverRest, streamVars, liveVars
<1>4. CASE \E c \in Conns : ConnNext(c)
  BY <1>4 DEF ConnNext, Accept, AddConn, SendUp, ReadEnds, RemoveConn, ConnRest, streamVars, liveVars
<1>. QED
  BY <1>1, <1>2, <1>3, <1>4 DEF Quietly

LEMMA LivenessRest ==
    ASSUME NEW n \in Nodes, LivenessNext(n)
    PROVE  UNCHANGED <<inst, spc, streams, crossed, serving, everSrv, phase>>
  BY DEF LivenessNext, Tick, Beat, Refresh, Signalled, WriteServingTable, Stale, LvRest, streamVars, liveVars, stopVars

LEMMA NodeTypesNext == ASSUME NodeTypes, Next PROVE NodeTypes'
<1>1. CASE \E s \in Streams : StreamNext(s)
  <2>1. UNCHANGED <<phase, lv>>
    BY <1>1 DEF StreamNext, AddStream, Declare, StreamEnds, RemoveStream, Retract, stopVars, liveVars
  <2>. QED
    BY <2>1 DEF NodeTypes
<1>2. ASSUME NEW n \in Nodes, LivenessNext(n) PROVE NodeTypes'
  <2>1. phase' = phase
    BY <1>2, LivenessRest
  <2>2. lv' \in [Nodes -> [at : {"idle", "beat", "refresh", "write"}, on : BOOLEAN]]
    <3>1. CASE Stale(n)
      BY <3>1 DEF Stale, liveVars, NodeTypes
    <3>2. CASE Beat(n) \/ WriteServingTable(n)
      <4>1. PICK x \in {"refresh", "idle"} : lv' = [lv EXCEPT ![n].at = x]
        BY <3>2 DEF Beat, WriteServingTable
      <4>. QED
        BY <4>1 DEF NodeTypes
    <3>3. CASE Tick(n) \/ Signalled(n) \/ Refresh(n)
      <4>1. PICK r \in [at : {"idle", "beat", "refresh", "write"}, on : BOOLEAN] : lv' = [lv EXCEPT ![n] = r]
        <5>1. CASE n \in serving
          <6>1. lv[n] \in [at : {"idle", "beat", "refresh", "write"}, on : BOOLEAN]
            BY DEF NodeTypes
          <6>2. (n \in serving) = TRUE
            BY <5>1
          <6>3. \/ lv' = [lv EXCEPT ![n] = [at |-> "beat", on |-> TRUE]]
                \/ lv' = [lv EXCEPT ![n] = [at |-> "write", on |-> TRUE]]
                \/ lv' = [lv EXCEPT ![n] = [lv[n] EXCEPT !.at = "idle"]]
            BY <3>3, <6>2 DEF Tick, Signalled, Refresh
          <6>. QED
            BY <6>1, <6>3
        <5>2. CASE n \notin serving
          <6>1. lv[n] \in [at : {"idle", "beat", "refresh", "write"}, on : BOOLEAN]
            BY DEF NodeTypes
          <6>2. (n \in serving) = FALSE
            BY <5>2
          <6>3. \/ lv' = [lv EXCEPT ![n] = [at |-> "beat", on |-> FALSE]]
                \/ lv' = [lv EXCEPT ![n] = [at |-> "write", on |-> FALSE]]
                \/ lv' = [lv EXCEPT ![n] = [lv[n] EXCEPT !.at = "idle"]]
            BY <3>3, <6>2 DEF Tick, Signalled, Refresh
          <6>. QED
            BY <6>1, <6>3
        <5>. QED
          BY <5>1, <5>2
      <4>. QED
        BY <4>1 DEF NodeTypes
    <3>. QED
      BY <1>2, <3>1, <3>2, <3>3 DEF LivenessNext
  <2>. QED
    BY <2>1, <2>2 DEF NodeTypes
<1>3. CASE \E n \in Nodes : Deregister(n) \/ Crash(n)
  BY <1>3 DEF Deregister, Crash, Exit, StopRest, liveVars, NodeTypes
<1>4. CASE Quietly
  BY <1>4, QuietPhase, QuietRest DEF NodeTypes, Phases
<1>. QED
  BY <1>1, <1>2, <1>3, <1>4, ServingActions

LEMMA ToldSame ==
    ASSUME NEW n \in Nodes, Told(n), phase'[n] # "down" => phase[n] # "down",
           n \notin crossed' => n \notin crossed, n \in serving' <=> n \in serving,
           streams'[n] = streams[n], inst' = inst, \A t \in Streams : inst.at[t] = n => spc'[t] = spc[t]
    PROVE  Told(n)'
<1>1. Pending(n)' = Pending(n)
  BY DEF Pending, StreamsAt
<1>2. ASSUME NEW s, Pending(n)' = {s}, spc'[s] = "retract" PROVE Pending(n) = {s} /\ spc[s] = "retract"
  <2>1. s \in Streams /\ inst.at[s] = n
    BY <1>1, <1>2 DEF Pending, StreamsAt
  <2>. QED
    BY <1>1, <1>2, <2>1
<1>. QED
  BY <1>1, <1>2 DEF Told, Running

\* AddStream, Declare, remove and Retract: whoever finds the list changed tells SetServing.
LEMMA ToldStep ==
    ASSUME StreamLists, \A n \in Nodes : Told(n), NEW s \in Streams, StreamNext(s)
    PROVE  \A n \in Nodes : Told(n)'
<1>k. PICK k \in Nodes : k = inst.at[s]
  BY ServingPlaces DEF StreamLists
<1>0. k = inst.at[s] /\ inst' = inst /\ phase' = phase /\ streams[k] \in Seq(Streams)
  BY <1>k DEF StreamLists, StreamNext, AddStream, Declare, StreamEnds, RemoveStream, Retract, stopVars
<1>00. StreamLists' /\ streams'[k] \in Seq(Streams)
  <2>1. StreamLists'
    BY StreamListsStep
  <2>. QED
    BY <1>0, <2>1 DEF StreamLists
<1>1. \A t \in Streams : t # s => spc'[t] = spc[t]
  <2>1. PICK x : spc' = [spc EXCEPT ![s] = x]
    <3>1. AddStream(s) => \E x : spc' = [spc EXCEPT ![s] = x]
      BY DEF AddStream
    <3>2. RemoveStream(s) => \E x : spc' = [spc EXCEPT ![s] = x]
      BY DEF RemoveStream
    <3>3. Declare(s) \/ StreamEnds(s) \/ Retract(s) => \E x : spc' = [spc EXCEPT ![s] = x]
      BY DEF Declare, StreamEnds, Retract
    <3>. QED
      BY <3>1, <3>2, <3>3 DEF StreamNext
  <2>. QED
    BY <2>1 DEF StreamLists
<1>2. ASSUME NEW n \in Nodes, n # k PROVE Told(n)'
  <2>1. /\ n \notin crossed' => n \notin crossed
        /\ n \in serving' <=> n \in serving
        /\ streams'[n] = streams[n]
    BY <1>0, <1>2 DEF StreamLists, StreamNext, AddStream, Declare, StreamEnds, RemoveStream, Retract, SetServing,
                liveVars
  <2>2. Told(n)
    OBVIOUS
  <2>. QED
    BY <1>0, <1>1, <1>2, <2>1, <2>2, ToldSame
<1>3. Told(k)'
  <2>. SUFFICES ASSUME phase[k] # "down", k \notin crossed'
                PROVE  /\ Pending(k)' = {} => (k \in serving' <=> streams'[k] # <<>>)
                       /\ \A t : Pending(k)' = {t} /\ spc'[t] = "retract" => streams'[k] = <<>>
    BY <1>0 DEF Told, Running
  <2>1. k \notin crossed
    BY DEF StreamNext, AddStream, Declare, StreamEnds, RemoveStream, Retract
  <2>2. /\ Pending(k) = {} => (k \in serving <=> streams[k] # <<>>)
        /\ \A t : Pending(k) = {t} /\ spc[t] = "retract" => streams[k] = <<>>
    BY <1>0, <2>1 DEF Told, Running
  <2>3. Pending(k)' \subseteq Pending(k) \cup {s} /\ Pending(k) \subseteq Pending(k)' \cup {s}
    BY <1>0, <1>1 DEF Pending, StreamsAt
  <2>4. s \in Pending(k) <=> spc[s] \in {"declare", "retract"}
    BY <1>0 DEF Pending, StreamsAt
  <2>5. s \in Pending(k)' <=> spc'[s] \in {"declare", "retract"}
    BY <1>0 DEF Pending, StreamsAt
  <2>6. CASE AddStream(s)
    <3>1. streams'[k] # <<>> /\ spc[s] = "new" /\ serving' = serving
      <4>1. streams'[k] = Append(streams[k], s)
        BY <1>0, <2>6 DEF AddStream, StreamLists
      <4>. QED
        BY <1>0, <2>6, <4>1, AppendIn DEF AddStream, liveVars
    <3>2. spc'[s] = IF streams[k] = <<>> THEN "declare" ELSE "open"
      BY <1>0, <2>6 DEF AddStream, StreamLists
    <3>3. CASE streams[k] = <<>>
      BY <2>3, <2>5, <3>1, <3>2, <3>3
    <3>4. CASE streams[k] # <<>>
      <4>0. s \notin Pending(k) /\ s \notin Pending(k)'
        BY <2>4, <2>5, <3>1, <3>2, <3>4
      <4>1. Pending(k)' = Pending(k)
        BY <2>3, <4>0
      <4>2. ASSUME NEW t, Pending(k)' = {t}, spc'[t] = "retract" PROVE FALSE
        BY <1>1, <2>2, <3>2, <3>4, <4>1, <4>2 DEF Pending, StreamsAt
      <4>. QED
        BY <2>2, <3>1, <3>4, <4>1, <4>2
    <3>. QED
      BY <3>3, <3>4
  <2>7. CASE RemoveStream(s)
    <3>1. spc[s] = "ended" /\ serving' = serving
      BY <2>7 DEF RemoveStream, liveVars
    <3>2. spc'[s] = IF streams'[k] = <<>> THEN "retract" ELSE "done"
      BY <1>0, <2>7 DEF RemoveStream, StreamLists
    <3>3. streams[k] # <<>>
      <4>1. In(streams[k], s)
        BY <1>0, <3>1 DEF StreamLists
      <4>. QED
        BY <1>0, <4>1, EmptyIn
    <3>4. CASE streams'[k] = <<>>
      BY <2>5, <3>2, <3>4
    <3>5. CASE streams'[k] # <<>>
      <4>0. s \notin Pending(k) /\ s \notin Pending(k)'
        BY <2>4, <2>5, <3>1, <3>2, <3>5
      <4>1. Pending(k)' = Pending(k)
        BY <2>3, <4>0
      <4>2. ASSUME NEW t, Pending(k)' = {t}, spc'[t] = "retract" PROVE FALSE
        BY <1>1, <2>2, <3>2, <3>3, <3>5, <4>1, <4>2 DEF Pending, StreamsAt
      <4>. QED
        BY <2>2, <3>1, <3>3, <3>5, <4>1, <4>2
    <3>. QED
      BY <3>4, <3>5
  <2>8. CASE Declare(s)
    <3>1. spc[s] = "declare" /\ spc'[s] = "open" /\ k \in serving' /\ streams' = streams /\ Pending(k) = {s}
      BY <1>0, <2>8 DEF Declare, SetServing, StreamLists
    <3>2. streams[k] # <<>>
      <4>1. In(streams[k], s)
        BY <1>0, <3>1 DEF StreamLists
      <4>. QED
        BY <1>0, <4>1, EmptyIn
    <3>3. Pending(k)' = {}
      BY <2>3, <2>5, <3>1
    <3>. QED
      BY <3>1, <3>2, <3>3
  <2>9. CASE Retract(s)
    <3>1. spc[s] = "retract" /\ spc'[s] = "done" /\ k \notin serving' /\ streams' = streams /\ Pending(k) = {s}
      BY <1>0, <2>9 DEF Retract, SetServing, StreamLists
    <3>2. Pending(k)' = {} /\ streams[k] = <<>>
      BY <2>2, <2>3, <2>5, <3>1
    <3>. QED
      BY <3>1, <3>2
  <2>10. CASE StreamEnds(s)
    <3>1. spc[s] = "open" /\ spc'[s] = "ended" /\ serving' = serving /\ streams' = streams
      BY <2>10 DEF StreamEnds, StreamLists, liveVars
    <3>2. Pending(k)' = Pending(k)
      BY <2>3, <2>4, <2>5, <3>1
    <3>3. ASSUME NEW t, Pending(k)' = {t}, spc'[t] = "retract" PROVE spc[t] = "retract"
      BY <1>1, <3>1, <3>2, <3>3 DEF Pending, StreamsAt
    <3>. QED
      BY <2>2, <3>1, <3>2, <3>3
  <2>. QED
    BY <2>6, <2>7, <2>8, <2>9, <2>10 DEF StreamNext
<1>. QED
  BY <1>2, <1>3

LEMMA ToldNext ==
    ASSUME StreamLists, NodeTypes, \A n \in Nodes : Told(n), Next
    PROVE  \A n \in Nodes : Told(n)'
<1>1. CASE \E s \in Streams : StreamNext(s)
  BY <1>1, ToldStep
<1>2. CASE \E n \in Nodes : LivenessNext(n)
  <2>1. UNCHANGED <<inst, spc, streams, crossed, serving, phase>>
    BY <1>2, LivenessRest
  <2>. QED
    BY <2>1, ToldSame
<1>3. ASSUME NEW k \in Nodes, Deregister(k) \/ Crash(k) PROVE \A n \in Nodes : Told(n)'
  <2>1. UNCHANGED <<inst, crossed, serving>> /\ Exit(k)
    BY <1>3 DEF Deregister, Crash, StopRest, liveVars
  <2>2. phase'[k] = "down" /\ \A n \in Nodes : n # k => phase'[n] = phase[n] /\ streams'[n] = streams[n]
    BY <2>1 DEF Exit, NodeTypes, StreamLists
  <2>3. \A s \in Streams : inst.at[s] # k => spc'[s] = spc[s]
    BY <2>1 DEF Exit, StreamsAt
  <2>4. Told(k)'
    BY <2>2 DEF Told, Running
  <2>5. ASSUME NEW n \in Nodes, n # k PROVE Told(n)'
    <3>1. Told(n) /\ \A s \in Streams : inst.at[s] = n => spc'[s] = spc[s]
      BY <2>3, <2>5
    <3>. QED
      BY <2>1, <2>2, <2>5, <3>1, ToldSame
  <2>. QED
    BY <2>4, <2>5
<1>4. CASE Quietly
  BY <1>4, QuietPhase, QuietRest, ToldSame
<1>. QED
  BY <1>1, <1>2, <1>3, <1>4, ServingActions

\* Liveness works on one node's record at a time.
LEMMA WrittenSame ==
    ASSUME NEW n \in Nodes, Written(n), phase'[n] = "up" => phase[n] = "up",
           n \in sig' <=> n \in sig, n \in everSrv' <=> n \in everSrv, n \in serving' <=> n \in serving,
           n \in srvTab' <=> n \in srvTab, n \in unwritten' <=> n \in unwritten, lv'[n] = lv[n]
    PROVE  Written(n)'
  BY DEF Written

\* SetServing signals the loop after it changed what the loop has to write.
LEMMA WrittenStep ==
    ASSUME inst \in Instances, \A n \in Nodes : Written(n), NEW s \in Streams, StreamNext(s)
    PROVE  \A n \in Nodes : Written(n)'
<1>1. phase' = phase /\ UNCHANGED <<lv, srvTab, unwritten>>
  BY DEF StreamNext, AddStream, Declare, StreamEnds, RemoveStream, Retract, stopVars, liveVars, tabVars
<1>2. ASSUME NEW n \in Nodes PROVE Written(n)'
  <2>0. Written(n)
    OBVIOUS
  <2>1. CASE Declare(s) \/ Retract(s)
    <3>1. CASE n = inst.at[s]
      BY <1>1, <2>0, <2>1, <3>1 DEF Written, Declare, Retract, SetServing
    <3>2. CASE n # inst.at[s]
      <4>1. /\ n \in sig' <=> n \in sig
            /\ n \in everSrv' <=> n \in everSrv
            /\ n \in serving' <=> n \in serving
        BY <2>1, <3>2 DEF Declare, Retract, SetServing
      <4>. QED
        BY <1>1, <2>0, <4>1, WrittenSame
    <3>. QED
      BY <3>1, <3>2
  <2>2. CASE AddStream(s) \/ StreamEnds(s) \/ RemoveStream(s)
    <3>1. UNCHANGED <<sig, everSrv, serving>>
      BY <2>2 DEF AddStream, StreamEnds, RemoveStream, liveVars
    <3>. QED
      BY <1>1, <2>0, <3>1, WrittenSame
  <2>. QED
    BY <2>1, <2>2 DEF StreamNext
<1>. QED
  BY <1>2

\* What the loop reads after it took the signal is what it writes, unless it is signalled again.
LEMMA WrittenLiveness ==
    ASSUME NodeTypes, \A n \in Nodes : Written(n), NEW k \in Nodes, LivenessNext(k)
    PROVE  \A n \in Nodes : Written(n)'
<1>1. UNCHANGED <<serving, everSrv, phase>>
  BY LivenessRest
<1>2. ASSUME NEW n \in Nodes, n # k PROVE Written(n)'
  <2>0. Written(n)
    OBVIOUS
  <2>1. lv'[n] = lv[n]
    BY <1>2 DEF LivenessNext, Tick, Beat, Refresh, Signalled, WriteServingTable, Stale, NodeTypes, liveVars
  <2>2. /\ n \in sig' <=> n \in sig
        /\ n \in srvTab' <=> n \in srvTab
        /\ n \in unwritten' <=> n \in unwritten
    BY <1>2 DEF LivenessNext, Tick, Beat, Refresh, Signalled, WriteServingTable, Stale, liveVars
  <2>. QED
    BY <1>1, <2>0, <2>1, <2>2, WrittenSame
<1>3. Written(k)'
  <2>0. Written(k) /\ lv[k] \in [at : {"idle", "beat", "refresh", "write"}, on : BOOLEAN]
    BY DEF NodeTypes
  <2>1. CASE Tick(k)
    <3>1. UNCHANGED <<srvTab, sig, unwritten>>
      BY <2>1 DEF Tick
    <3>2. lv'[k].at = "beat" /\ (k \notin serving => lv'[k].on = FALSE)
      <4>1. k \notin serving => (k \in serving) = FALSE
        OBVIOUS
      <4>2. lv'[k].at = "beat" /\ lv'[k].on = (k \in serving)
        BY <2>1 DEF Tick, NodeTypes
      <4>. QED
        BY <4>1, <4>2
    <3>. QED
      BY <1>1, <2>0, <3>1, <3>2 DEF Written
  <2>2. CASE Beat(k)
    <3>1. UNCHANGED <<sig, unwritten>> /\ (lv[k].on = FALSE => srvTab' = srvTab)
      BY <2>2 DEF Beat
    <3>2. lv'[k].at = "refresh" /\ lv'[k].on = lv[k].on
      BY <2>2 DEF Beat, NodeTypes
    <3>. QED
      BY <1>1, <2>0, <3>1, <3>2 DEF Written
  <2>3. CASE Refresh(k)
    <3>1. UNCHANGED <<srvTab, sig, unwritten>> /\ phase[k] = "up" /\ lv[k].at = "refresh"
      BY <2>3 DEF Refresh
    <3>2. CASE k \in everSrv
      <4>1. lv'[k].at = "write" /\ lv'[k].on = (k \in serving)
        BY <2>3, <3>2 DEF Refresh, NodeTypes
      <4>. QED
        BY <1>1, <2>0, <3>1, <3>2, <4>1 DEF Written
    <3>3. CASE k \notin everSrv
      <4>1. lv'[k].at = "idle" /\ lv'[k].on = lv[k].on
        <5>1. lv' = [lv EXCEPT ![k] = [lv[k] EXCEPT !.at = "idle"]]
          BY <2>3, <3>3 DEF Refresh
        <5>. QED
          BY <2>0, <5>1 DEF NodeTypes
      <4>. QED
        BY <1>1, <2>0, <3>1, <3>3, <4>1 DEF Written
    <3>. QED
      BY <3>2, <3>3
  <2>4. CASE Signalled(k)
    <3>1. UNCHANGED <<srvTab, unwritten>> /\ k \in sig /\ k \notin sig' /\ phase[k] = "up"
      BY <2>4 DEF Signalled
    <3>2. lv'[k].at = "write" /\ lv'[k].on = (k \in serving)
      BY <2>4 DEF Signalled, NodeTypes
    <3>. QED
      BY <1>1, <2>0, <3>1, <3>2 DEF Written
  <2>5. CASE WriteServingTable(k)
    <3>1. sig' = sig /\ lv[k].at = "write" /\ phase[k] = "up"
      BY <2>5 DEF WriteServingTable
    <3>2. lv'[k].at = "idle" /\ lv'[k].on = lv[k].on
      BY <2>5 DEF WriteServingTable, NodeTypes
    <3>3. \/ k \in unwritten' /\ srvTab' = srvTab
          \/ lv[k].on = TRUE /\ k \in srvTab'
          \/ lv[k].on = FALSE /\ k \notin srvTab'
      BY <2>0, <2>5 DEF WriteServingTable
    <3>. QED
      BY <1>1, <2>0, <3>1, <3>2, <3>3 DEF Written
  <2>6. CASE Stale(k)
    BY <1>1, <2>6 DEF Stale, Written
  <2>. QED
    BY <2>1, <2>2, <2>3, <2>4, <2>5, <2>6 DEF LivenessNext
<1>. QED
  BY <1>2, <1>3

LEMMA WrittenNext ==
    ASSUME inst \in Instances, NodeTypes, \A n \in Nodes : Written(n), Next
    PROVE  \A n \in Nodes : Written(n)'
<1>1. CASE \E s \in Streams : StreamNext(s)
  BY <1>1, WrittenStep
<1>2. CASE \E n \in Nodes : LivenessNext(n)
  BY <1>2, WrittenLiveness
<1>3. ASSUME NEW k \in Nodes, Deregister(k) \/ Crash(k) PROVE \A n \in Nodes : Written(n)'
  <2>1. UNCHANGED <<serving, everSrv, sig, lv, unwritten>> /\ Exit(k)
    BY <1>3 DEF Deregister, Crash, StopRest, liveVars
  <2>2. /\ phase'[k] = "down"
        /\ \A n \in Nodes : n # k => phase'[n] = phase[n] /\ (n \in srvTab' <=> n \in srvTab)
    BY <1>3, <2>1 DEF Exit, Deregister, Crash, NodeTypes
  <2>3. Written(k)'
    BY <2>2 DEF Written
  <2>4. ASSUME NEW n \in Nodes, n # k PROVE Written(n)'
    <3>1. Written(n)
      OBVIOUS
    <3>. QED
      BY <2>1, <2>2, <2>4, <3>1, WrittenSame
  <2>. QED
    BY <2>3, <2>4
<1>4. CASE Quietly
  BY <1>4, QuietPhase, QuietRest, WrittenSame
<1>. QED
  BY <1>1, <1>2, <1>3, <1>4, ServingActions

LEMMA ServingInvInit == Init => ServingInv
<1>. SUFFICES ASSUME Init PROVE ServingInv
  OBVIOUS
<1>1. NodeTypes
  BY DEF Init, NodeTypes
<1>2. ASSUME NEW n \in Nodes PROVE Told(n)
  <2>1. Pending(n) = {}
    <3>1. \A s \in Streams : spc[s] \in {"new", "done"}
      BY DEF Init
    <3>. QED
      BY <3>1 DEF Pending, StreamsAt
  <2>. QED
    BY <2>1 DEF Init, Told
<1>3. ASSUME NEW n \in Nodes PROVE Written(n)
  BY DEF Init, Written
<1>. QED
  BY <1>1, <1>2, <1>3, StreamListsInit DEF ServingInv

LEMMA StreamListsNext == ASSUME StreamLists, Next PROVE StreamLists'
<1>1. CASE \E n \in Nodes : Deregister(n) \/ Crash(n)
  <2>1. PICK n \in Nodes : Deregister(n) \/ Crash(n)
    BY <1>1
  <2>2. Exit(n) /\ inst' = inst
    BY <2>1 DEF Deregister, Crash, StopRest
  <2>. QED
    BY <2>2, StreamListsExit
<1>2. CASE \E s \in Streams : StreamNext(s)
  BY <1>2, StreamListsStep
<1>3. CASE \E n \in Nodes : LivenessNext(n)
  BY <1>3, LivenessRest, StreamListsSame
<1>4. CASE Quietly
  BY <1>4, QuietRest, StreamListsSame
<1>. QED
  BY <1>1, <1>2, <1>3, <1>4, ServingActions

LEMMA ServingInvSpec == Spec => []ServingInv
<1>1. ServingInv /\ [Next]_vars => ServingInv'
  <2>. SUFFICES ASSUME ServingInv, [Next]_vars PROVE ServingInv'
    OBVIOUS
  <2>1. CASE Next
    <3>1. StreamLists' /\ NodeTypes'
      BY <2>1, StreamListsNext, NodeTypesNext DEF ServingInv
    <3>2. \A n \in Nodes : Told(n)'
      BY <2>1, ToldNext DEF ServingInv
    <3>3. \A n \in Nodes : Written(n)'
      <4>1. inst \in Instances
        BY DEF ServingInv, StreamLists
      <4>. QED
        BY <2>1, <4>1, WrittenNext DEF ServingInv
    <3>. QED
      BY <3>1, <3>2, <3>3 DEF ServingInv
  <2>2. CASE UNCHANGED vars
    <3>1. StreamLists'
      BY <2>2, StreamListsSame DEF ServingInv, vars, streamVars
    <3>2. NodeTypes'
      BY <2>2 DEF ServingInv, NodeTypes, vars, stopVars, liveVars
    <3>3. \A n \in Nodes : Told(n)'
      BY <2>2, ToldSame DEF ServingInv, vars, streamVars, stopVars, liveVars
    <3>4. \A n \in Nodes : Written(n)'
      BY <2>2, WrittenSame DEF ServingInv, vars, stopVars, liveVars, tabVars
    <3>. QED
      BY <3>1, <3>2, <3>3, <3>4 DEF ServingInv
  <2>. QED
    BY <2>1, <2>2
<1>. QED
  BY <1>1, ServingInvInit, PTL DEF Spec

(* The serving table is right about every settled node, for any number of  *)
(* nodes and streams (Hub.AddStream, Liveness.SetServing and Run).         *)
THEOREM ServingSettled == Spec => []ServingSettles
<1>1. ServingInv => ServingSettles
  <2>. SUFFICES ASSUME ServingInv, NEW n \in Nodes, n \notin crossed, n \notin unwritten, Settled(n)
                PROVE  n \in srvTab <=> streams[n] # <<>>
    BY DEF ServingSettles
  <2>1. Told(n) /\ Written(n)
    BY DEF ServingInv
  <2>. QED
    BY <2>1 DEF Told, Written, Settled, Running
<1>. QED
  BY <1>1, ServingInvSpec, PTL

-----------------------------------------------------------------------------
(* Envelopes on their way                                                  *)
(*                                                                         *)
(* A message whose publish never failed after it had arrived is in at most *)
(* one place (OneCopy), nowhere before it is sent (Births), and the nodes  *)
(* it was published to lie behind the cursor of its route (Trails), which  *)
(* names each node once and never the home of the connection (Routes).     *)

Envelopes == [msg : Msgs, route : Seq(Nodes) \cup {None}, hop : Nat, looping : BOOLEAN]

EnvTypes ==
    /\ inst \in Instances
    /\ out \in [Nodes \cup Conns -> Envelopes \cup {None}]
    /\ inbox \in [Nodes -> Seq(Envelopes)]
    /\ got \in Seq(Msgs)
    /\ visits \in [Msgs -> Seq(Nodes)]

ViewTypes ==
    /\ view \in [Nodes -> SUBSET Nodes] /\ srvTab \subseteq Nodes
    /\ cpc \in [Conns -> {"new", "shake", "hello", "open", "leaving", "bye", "done"}]

\* The places where a message m can be: with a goroutine, on a channel, with a business server.
Held(o, g, m)   == o[g] # None /\ o[g].msg = m
Queued(q, n, m) == \E i \in DOMAIN q[n] : q[n][i].msg = m
Handed(w, m)    == In(w, m)

Nowhere(o, q, w, m) ==
    /\ \A g \in Nodes \cup Conns : ~Held(o, g, m)
    /\ \A n \in Nodes : ~Queued(q, n, m)
    /\ ~Handed(w, m)

Single(o, q, w, m) ==
    /\ \A g, k \in Nodes \cup Conns : Held(o, g, m) /\ Held(o, k, m) => g = k
    /\ \A n, k \in Nodes : Queued(q, n, m) /\ Queued(q, k, m) => n = k
    /\ \A n \in Nodes : \A i, j \in DOMAIN q[n] : q[n][i].msg = m /\ q[n][j].msg = m => i = j
    /\ \A i, j \in DOMAIN w : w[i] = m /\ w[j] = m => i = j
    /\ \A g \in Nodes \cup Conns : Held(o, g, m) => ~Handed(w, m) /\ \A n \in Nodes : ~Queued(q, n, m)
    /\ \A n \in Nodes : Queued(q, n, m) => ~Handed(w, m)

\* The message was not sent yet.
Unborn(p, u, m) ==
    \/ m[2] = "Connected" /\ p[m[1]] \in {"new", "shake"}
    \/ m[2] = "Up" /\ m[1] \notin u
    \/ m[2] = "Disconnected" /\ p[m[1]] \notin {"bye", "done"}

\* A route never leads home and never twice to one node; the cursor stays on it.
Routed(x, e) ==
    /\ e.route = None => e.hop = 0 /\ e.looping = FALSE
    /\ e.route # None =>
         /\ e.hop <= Len(e.route)
         /\ \A i \in 1..Len(e.route) : e.route[i] # x.at[e.msg[1]]
         /\ \A i, j \in 1..Len(e.route) : e.route[i] = e.route[j] => i = j

\* The nodes that got the message lie behind the cursor.
Behind(e, v) == \A j \in DOMAIN v[e.msg] : \E i \in 1..e.hop : v[e.msg][j] = e.route[i]

\* An envelope without a route is still with its connection.
Routes ==
    /\ \A g \in Nodes \cup Conns : out[g] # None => Routed(inst, out[g])
    /\ \A n \in Nodes : \A i \in DOMAIN inbox[n] : Routed(inst, inbox[n][i]) /\ inbox[n][i].route # None
    /\ \A n \in Nodes : out[n] # None => out[n].route # None
    /\ \A c \in Conns : out[c] # None => out[c].msg[1] = c

Trails ==
    /\ \A g \in Nodes \cup Conns : out[g] # None /\ out[g].msg \notin unsure => Behind(out[g], visits)
    /\ \A n \in Nodes : \A i \in DOMAIN inbox[n] :
         inbox[n][i].msg \notin unsure => Behind(inbox[n][i], visits)
    /\ \A m \in Msgs : \A i \in DOMAIN visits[m] : visits[m][i] # inst.at[m[1]]
    /\ \A m \in Msgs \ unsure : \A i, j \in DOMAIN visits[m] : visits[m][i] = visits[m][j] => i = j

Births == \A m \in Msgs : Unborn(cpc, ups, m) =>
              Nowhere(out, inbox, got, m) /\ visits[m] = <<>> /\ m \notin unsure

OneCopy == \A m \in Msgs \ unsure : Single(out, inbox, got, m)

HandInv == EnvTypes /\ ViewTypes /\ Routes /\ Trails /\ Births /\ OneCopy

-----------------------------------------------------------------------------
\* The ranking: as many places as nodes, and each node once.
LEMMA HeavierCount ==
    ASSUME inst \in Instances, NEW ns \in SUBSET Nodes, NEW n \in ns
    PROVE  /\ IsFiniteSet(ns) /\ IsFiniteSet(Heavier(ns, n)) /\ Cardinality(ns) \in Nat
           /\ Cardinality(Heavier(ns, n)) \in 0..(Cardinality(ns) - 1)
<1>1. IsFiniteSet(ns)
  BY FS_Subset, ServingAssumption
<1>2. IsFiniteSet(ns \ {n}) /\ Cardinality(ns \ {n}) = Cardinality(ns) - 1
  BY <1>1, FS_RemoveElement
<1>3. Heavier(ns, n) \in SUBSET (ns \ {n})
  <2>1. inst.weight[n] \in Nat
    BY ServingAssumption
  <2>. QED
    BY <2>1 DEF Heavier
<1>4. IsFiniteSet(Heavier(ns, n)) /\ Cardinality(Heavier(ns, n)) <= Cardinality(ns \ {n})
  BY <1>2, <1>3, FS_Subset
<1>5. Cardinality(Heavier(ns, n)) \in Nat /\ Cardinality(ns) \in Nat
  BY <1>1, <1>4, FS_CardinalityType
<1>. QED
  BY <1>1, <1>2, <1>4, <1>5

LEMMA HeavierLess ==
    ASSUME inst \in Instances, NEW ns \in SUBSET Nodes, NEW m \in ns, NEW n \in ns,
           inst.weight[m] > inst.weight[n]
    PROVE  Cardinality(Heavier(ns, m)) < Cardinality(Heavier(ns, n))
<1>1. inst.weight \in [Nodes -> Nat]
  BY ServingAssumption
<1>2. m \notin Heavier(ns, m) /\ Heavier(ns, m) \cup {m} \in SUBSET Heavier(ns, n)
  BY <1>1 DEF Heavier
<1>3. IsFiniteSet(Heavier(ns, m)) /\ IsFiniteSet(Heavier(ns, n))
  BY HeavierCount
<1>4. Cardinality(Heavier(ns, m)) \in Nat /\ Cardinality(Heavier(ns, n)) \in Nat
  BY <1>3, FS_CardinalityType
<1>5. Cardinality(Heavier(ns, m) \cup {m}) = Cardinality(Heavier(ns, m)) + 1
  BY <1>2, <1>3, FS_AddElement
<1>6. Cardinality(Heavier(ns, m) \cup {m}) <= Cardinality(Heavier(ns, n))
  BY <1>2, <1>3, FS_Subset
<1>. QED
  BY <1>4, <1>5, <1>6

LEMMA RankIsRoute ==
    ASSUME inst \in Instances, NEW ns \in SUBSET Nodes
    PROVE  /\ Rank(ns) \in Seq(Nodes)
           /\ \A i \in 1..Len(Rank(ns)) : Rank(ns)[i] \in ns
           /\ \A i, j \in 1..Len(Rank(ns)) : Rank(ns)[i] = Rank(ns)[j] => i = j
<1>. DEFINE N == Cardinality(ns)
            f == [n \in ns |-> Cardinality(Heavier(ns, n))]
<1>1. IsFiniteSet(ns) /\ N \in Nat
  BY FS_Subset, FS_CardinalityType, ServingAssumption
<1>2. f \in [ns -> 0..(N-1)]
  BY HeavierCount
<1>3. ASSUME NEW m \in ns, NEW n \in ns, m # n PROVE f[m] # f[n]
  <2>1. inst.weight[m] \in Nat /\ inst.weight[n] \in Nat /\ inst.weight[m] # inst.weight[n]
    BY <1>3, ServingAssumption
  <2>2. f[m] \in 0..(N-1) /\ f[n] \in 0..(N-1)
    BY <1>2
  <2>3. f[m] < f[n] \/ f[n] < f[m]
    BY <2>1, HeavierLess
  <2>. QED
    BY <2>2, <2>3, <1>1
<1>4. IsFiniteSet(0..(N-1)) /\ Cardinality(0..(N-1)) = N
  <2>1. N - 1 \in Int
    BY <1>1
  <2>. HIDE DEF N
  <2>. QED
    BY <1>1, <2>1, FS_Interval
<1>5. f \in Injection(ns, 0..(N-1))
  BY <1>2, <1>3 DEF Injection, IsInjective
<1>6. f \in Surjection(ns, 0..(N-1))
  <2>. HIDE DEF f, N
  <2>. QED
    BY <1>4, <1>5, FS_Injection DEF N
<1>7. ASSUME NEW i \in 1..N
      PROVE  Rank(ns)[i] \in ns /\ Cardinality(Heavier(ns, Rank(ns)[i])) = i - 1
  <2>1. i - 1 \in 0..(N-1)
    BY <1>1
  <2>2. \E n \in ns : f[n] = i - 1
    BY <1>6, <2>1 DEF Surjection
  <2>3. \E n \in ns : Cardinality(Heavier(ns, n)) = i - 1
    BY <2>2
  <2>4. Rank(ns)[i] = CHOOSE n \in ns : Cardinality(Heavier(ns, n)) = i - 1
    BY DEF Rank
  <2>. QED
    BY <2>3, <2>4
<1>8. Rank(ns) \in [1..N -> Nodes]
  <2>1. Rank(ns) = [i \in 1..N |-> Rank(ns)[i]]
    BY DEF Rank
  <2>. QED
    BY <1>7, <2>1
<1>9. Rank(ns) \in Seq(Nodes) /\ Len(Rank(ns)) = N
  <2>. HIDE DEF N
  <2>. QED
    BY <1>1, <1>8
<1>. QED
  <2>. HIDE DEF N
  <2>. QED
    BY <1>1, <1>7, <1>9

-----------------------------------------------------------------------------
\* Where m was not, or was once, it stays nowhere or once when no place gains it.
Fewer(o, q, w, o2, q2, w2, m) ==
    /\ \A g \in Nodes \cup Conns : Held(o2, g, m) => Held(o, g, m)
    /\ \A n \in Nodes : \E d \in {0, 1} : \A i \in DOMAIN q2[n] :
         q2[n][i].msg = m => i + d \in DOMAIN q[n] /\ q[n][i + d].msg = m
    /\ \A i \in DOMAIN w2 : w2[i] = m => i \in DOMAIN w /\ w[i] = m

LEMMA FewerQueued ==
    ASSUME NEW o, NEW q, NEW w, NEW o2, NEW q2, NEW w2, NEW m, Fewer(o, q, w, o2, q2, w2, m)
    PROVE  /\ \A n \in Nodes : Queued(q2, n, m) => Queued(q, n, m)
           /\ In(w2, m) => In(w, m)
  BY DEF Fewer, Queued, In

LEMMA FewerNowhere ==
    ASSUME NEW o, NEW q, NEW w, NEW o2, NEW q2, NEW w2, NEW m, Fewer(o, q, w, o2, q2, w2, m),
           Nowhere(o, q, w, m)
    PROVE  Nowhere(o2, q2, w2, m)
<1>1. \A g \in Nodes \cup Conns : Held(o2, g, m) => Held(o, g, m)
  BY DEF Fewer
<1>. QED
  BY <1>1, FewerQueued DEF Nowhere, Handed

LEMMA FewerSingle ==
    ASSUME NEW o, NEW q, NEW w, NEW o2, NEW q2 \in [Nodes -> Seq(Envelopes)], NEW w2, NEW m,
           Fewer(o, q, w, o2, q2, w2, m), Single(o, q, w, m)
    PROVE  Single(o2, q2, w2, m)
<1>1. \A g \in Nodes \cup Conns : Held(o2, g, m) => Held(o, g, m)
  BY DEF Fewer
<1>2. /\ \A n \in Nodes : Queued(q2, n, m) => Queued(q, n, m)
      /\ In(w2, m) => In(w, m)
  BY FewerQueued
<1>3. ASSUME NEW n \in Nodes, NEW i \in DOMAIN q2[n], NEW j \in DOMAIN q2[n],
             q2[n][i].msg = m, q2[n][j].msg = m
      PROVE  i = j
  <2>1. PICK d \in {0, 1} : \A k \in DOMAIN q2[n] :
           q2[n][k].msg = m => k + d \in DOMAIN q[n] /\ q[n][k + d].msg = m
    BY DEF Fewer
  <2>2. i + d = j + d
    BY <1>3, <2>1 DEF Single
  <2>3. i \in Nat /\ j \in Nat
    <3>1. DOMAIN q2[n] = 1..Len(q2[n]) /\ Len(q2[n]) \in Nat
      OBVIOUS
    <3>. QED
      BY <3>1
  <2>. QED
    BY <2>2, <2>3
<1>4. \A i, j \in DOMAIN w2 : w2[i] = m /\ w2[j] = m => i = j
  BY DEF Fewer, Single
<1>. QED
  BY <1>1, <1>2, <1>3, <1>4 DEF Single, Handed

\* One place, and no other.
LEMMA OneHeld ==
    ASSUME NEW o, NEW q, NEW w, NEW m, NEW g, \A k \in Nodes \cup Conns : Held(o, k, m) => k = g,
           \A n \in Nodes : ~Queued(q, n, m), ~In(w, m)
    PROVE  Single(o, q, w, m)
  BY DEF Single, Queued, Handed, In

LEMMA OneQueued ==
    ASSUME NEW o, NEW q, NEW w, NEW m, NEW t, \A k \in Nodes \cup Conns : ~Held(o, k, m),
           \A n \in Nodes : Queued(q, n, m) => n = t,
           \A i, j \in DOMAIN q[t] : q[t][i].msg = m /\ q[t][j].msg = m => i = j, ~In(w, m)
    PROVE  Single(o, q, w, m)
<1>1. \A n \in Nodes : \A i, j \in DOMAIN q[n] : q[n][i].msg = m /\ q[n][j].msg = m => i = j
  BY DEF Queued
<1>2. \A i, j \in DOMAIN w : w[i] = m /\ w[j] = m => i = j
  BY DEF In
<1>. QED
  BY <1>1, <1>2 DEF Single, Handed

LEMMA OneHanded ==
    ASSUME NEW o, NEW q, NEW w, NEW m, \A k \in Nodes \cup Conns : ~Held(o, k, m),
           \A n \in Nodes : ~Queued(q, n, m), \A i, j \in DOMAIN w : w[i] = m /\ w[j] = m => i = j
    PROVE  Single(o, q, w, m)
  BY DEF Single, Queued, Handed, In

LEMMA HeldAlone ==
    ASSUME NEW o, NEW q, NEW w, NEW m, Single(o, q, w, m), NEW g \in Nodes \cup Conns, Held(o, g, m)
    PROVE  /\ \A k \in Nodes \cup Conns : Held(o, k, m) => k = g
           /\ \A n \in Nodes : ~Queued(q, n, m)
           /\ ~In(w, m)
  BY DEF Single, Handed

-----------------------------------------------------------------------------
\* The ways in which a step moves envelopes.

EnvInv == EnvTypes /\ Routes /\ Trails /\ Births /\ OneCopy

\* A connection's goroutine only goes on.
Forward ==
    /\ inst' = inst
    /\ ups \subseteq ups'
    /\ \A c \in Conns : /\ cpc'[c] \in {"new", "shake"} => cpc[c] \in {"new", "shake"}
                        /\ cpc[c] \in {"bye", "done"} => cpc'[c] \in {"bye", "done"}

Loses ==
    /\ Forward /\ UNCHANGED <<got, visits, unsure>>
    /\ out' \in [Nodes \cup Conns -> Envelopes \cup {None}] /\ inbox' \in [Nodes -> Seq(Envelopes)]
    /\ \A g \in Nodes \cup Conns : out'[g] \in {out[g], None}
    /\ \A n \in Nodes : inbox'[n] \in {inbox[n], <<>>}

Hands(g) ==
    /\ Forward /\ UNCHANGED <<inbox, visits, unsure>>
    /\ out[g] # None /\ out' = [out EXCEPT ![g] = None] /\ got' = Append(got, out[g].msg)

\* The same message with its cursor on the route.
Advanced(g, e) ==
    /\ e \in Envelopes /\ e.msg = out[g].msg /\ Routed(inst, e) /\ e.route # None
    /\ Behind(out[g], visits) => Behind(e, visits)

Advances(g) ==
    /\ Forward /\ UNCHANGED <<inbox, got, visits, unsure>>
    /\ out[g] # None
    /\ \E e : Advanced(g, e) /\ out' = [out EXCEPT ![g] = e]

Publishes(g, t, e) ==
    /\ Forward /\ got' = got
    /\ out[g] # None /\ Advanced(g, e) /\ e.hop \in 1..Len(e.route) /\ t = e.route[e.hop]
    /\ Behind(out[g], visits) => ~In(visits[out[g].msg], t)
    /\ inbox' = [inbox EXCEPT ![t] = Append(inbox[t], e)]
    /\ visits' = [visits EXCEPT ![out[g].msg] = Append(visits[out[g].msg], t)]
    /\ \/ out' = [out EXCEPT ![g] = None] /\ unsure' = unsure
       \/ /\ unsure' = unsure \cup {out[g].msg}
          /\ \E f : Advanced(g, f) /\ out' = [out EXCEPT ![g] = f]

Takes(n) ==
    /\ Forward /\ UNCHANGED <<got, visits, unsure>>
    /\ out[n] = None /\ inbox[n] # <<>>
    /\ out' = [out EXCEPT ![n] = Head(inbox[n])] /\ inbox' = [inbox EXCEPT ![n] = Tail(inbox[n])]

Born(c, kind) ==
    /\ Forward /\ UNCHANGED <<inbox, got, visits, unsure>>
    /\ kind \in {"Connected", "Up", "Disconnected"}
    /\ Unborn(cpc, ups, <<c, kind>>) /\ ~Unborn(cpc', ups', <<c, kind>>)
    /\ out' = [out EXCEPT ![c] = Envelope(c, kind)]

LEMMA ForwardUnborn ==
    ASSUME Forward, NEW m \in Msgs, Unborn(cpc', ups', m)
    PROVE  Unborn(cpc, ups, m)
<1>1. m[1] \in Conns
  BY DEF Msgs
<1>. QED
  BY <1>1 DEF Forward, Unborn

LEMMA LosesInv == ASSUME EnvInv, Loses PROVE EnvInv'
<1>1. EnvTypes'
  BY DEF EnvInv, EnvTypes, Loses, Forward
<1>2. UNCHANGED <<inst, got, visits, unsure>>
  BY DEF Loses, Forward
<1>3. \A g \in Nodes \cup Conns : out'[g] # None => out'[g] = out[g] /\ out[g] # None
  BY DEF Loses
<1>4. \A n \in Nodes : \A i \in DOMAIN inbox'[n] : i \in DOMAIN inbox[n] /\ inbox'[n][i] = inbox[n][i]
  <2>. SUFFICES ASSUME NEW n \in Nodes, inbox'[n] = <<>>
                PROVE  \A i \in DOMAIN inbox'[n] : i \in DOMAIN inbox[n] /\ inbox'[n][i] = inbox[n][i]
    BY DEF Loses
  <2>1. DOMAIN inbox'[n] = {}
    OBVIOUS
  <2>. QED
    BY <2>1
<1>5. Routes'
  BY <1>2, <1>3, <1>4 DEF EnvInv, Routes
<1>6. Trails'
  BY <1>2, <1>3, <1>4 DEF EnvInv, Trails
<1>7. ASSUME NEW m PROVE Fewer(out, inbox, got, out', inbox', got', m)
  <2>1. \A g \in Nodes \cup Conns : Held(out', g, m) => Held(out, g, m)
    BY <1>3 DEF Held
  <2>2. \A n \in Nodes : \A i \in DOMAIN inbox'[n] :
           inbox'[n][i].msg = m => i + 0 \in DOMAIN inbox[n] /\ inbox[n][i + 0].msg = m
    <3>. SUFFICES ASSUME NEW n \in Nodes, NEW i \in DOMAIN inbox'[n], inbox'[n][i].msg = m
                  PROVE  i + 0 \in DOMAIN inbox[n] /\ inbox[n][i + 0].msg = m
      OBVIOUS
    <3>1. i \in Nat
      <4>1. DOMAIN inbox'[n] = 1..Len(inbox'[n])
        BY <1>1 DEF EnvTypes
      <4>. QED
        BY <4>1
    <3>. QED
      BY <1>4, <3>1
  <2>. QED
    BY <1>2, <2>1, <2>2 DEF Fewer
<1>8. Births'
  <2>. SUFFICES ASSUME NEW m \in Msgs, Unborn(cpc', ups', m)
                PROVE  Nowhere(out', inbox', got', m) /\ visits'[m] = <<>> /\ m \notin unsure'
    BY DEF Births
  <2>1. Nowhere(out, inbox, got, m) /\ visits[m] = <<>> /\ m \notin unsure
    BY ForwardUnborn DEF EnvInv, Births, Loses
  <2>2. Nowhere(out', inbox', got', m)
    BY <1>7, <2>1, FewerNowhere
  <2>. QED
    BY <1>2, <2>1, <2>2
<1>9. OneCopy'
  <2>. SUFFICES ASSUME NEW m \in Msgs, m \notin unsure' PROVE Single(out', inbox', got', m)
    BY DEF OneCopy
  <2>1. Single(out, inbox, got, m)
    BY <1>2 DEF EnvInv, OneCopy
  <2>2. inbox' \in [Nodes -> Seq(Envelopes)]
    BY <1>1 DEF EnvTypes
  <2>. QED
    BY <1>7, <2>1, <2>2, FewerSingle
<1>. QED
  BY <1>1, <1>5, <1>6, <1>8, <1>9 DEF EnvInv

LEMMA HandsInv == ASSUME EnvInv, NEW g \in Nodes \cup Conns, Hands(g) PROVE EnvInv'
<1>. DEFINE x == out[g].msg
<1>0. /\ out \in [Nodes \cup Conns -> Envelopes \cup {None}] /\ inbox \in [Nodes -> Seq(Envelopes)]
      /\ got \in Seq(Msgs) /\ x \in Msgs
  BY DEF EnvInv, EnvTypes, Hands, Envelopes
<1>1. EnvTypes'
  BY <1>0 DEF EnvInv, EnvTypes, Hands, Forward
<1>2. UNCHANGED <<inst, inbox, visits, unsure>> /\ got' = Append(got, x)
  BY DEF Hands, Forward
<1>3. /\ \A k \in Nodes \cup Conns : out'[k] # None => out'[k] = out[k] /\ out[k] # None
      /\ out'[g] = None
  BY <1>0 DEF Hands
<1>4. Routes'
  BY <1>2, <1>3 DEF EnvInv, Routes
<1>5. Trails'
  BY <1>2, <1>3 DEF EnvInv, Trails
<1>6. Held(out, g, x)
  BY DEF Held, Hands
<1>. HIDE DEF x
<1>7. \A k \in Nodes \cup Conns : \A m : Held(out', k, m) => Held(out, k, m) /\ k # g
  BY <1>3 DEF Held
<1>8. ASSUME NEW m, m # x PROVE Fewer(out, inbox, got, out', inbox', got', m)
  <2>1. \A n \in Nodes : \A i \in DOMAIN inbox[n] : i + 0 = i
    <3>1. \A n \in Nodes : DOMAIN inbox[n] = 1..Len(inbox[n])
      BY <1>0
    <3>. QED
      BY <3>1
  <2>2. \A i \in DOMAIN got' : got'[i] = m => i \in DOMAIN got /\ got[i] = m
    BY <1>0, <1>2, <1>8
  <2>. QED
    BY <1>2, <1>7, <2>1, <2>2 DEF Fewer
<1>9. Births'
  <2>. SUFFICES ASSUME NEW m \in Msgs, Unborn(cpc', ups', m)
                PROVE  Nowhere(out', inbox', got', m) /\ visits'[m] = <<>> /\ m \notin unsure'
    BY DEF Births
  <2>1. Nowhere(out, inbox, got, m) /\ visits[m] = <<>> /\ m \notin unsure
    BY ForwardUnborn DEF EnvInv, Births, Hands
  <2>2. m # x
    BY <1>6, <2>1 DEF Nowhere
  <2>3. Nowhere(out', inbox', got', m)
    BY <1>8, <2>1, <2>2, FewerNowhere
  <2>. QED
    BY <1>2, <2>1, <2>3
<1>10. OneCopy'
  <2>. SUFFICES ASSUME NEW m \in Msgs, m \notin unsure' PROVE Single(out', inbox', got', m)
    BY DEF OneCopy
  <2>1. Single(out, inbox, got, m)
    BY <1>2 DEF EnvInv, OneCopy
  <2>2. CASE m # x
    <3>1. inbox' \in [Nodes -> Seq(Envelopes)] /\ Fewer(out, inbox, got, out', inbox', got', m)
      BY <1>0, <1>2, <1>8, <2>2
    <3>. QED
      BY <2>1, <3>1, FewerSingle
  <2>3. CASE m = x
    <3>1. /\ \A k \in Nodes \cup Conns : Held(out, k, m) => k = g
          /\ \A n \in Nodes : ~Queued(inbox, n, m)
          /\ ~In(got, m)
      BY <1>6, <2>1, <2>3, HeldAlone
    <3>2. \A k \in Nodes \cup Conns : ~Held(out', k, m)
      BY <1>7, <3>1
    <3>3. \A i, j \in DOMAIN got' : got'[i] = m /\ got'[j] = m => i = j
      <4>1. DOMAIN got' = 1..(Len(got) + 1) /\ Len(got) \in Nat
            /\ \A i \in 1..Len(got) : got'[i] = got[i] /\ i \in DOMAIN got
        BY <1>0, <1>2
      <4>2. \A i \in DOMAIN got' : got'[i] = m => i = Len(got) + 1
        BY <3>1, <4>1 DEF In
      <4>. QED
        BY <4>2
    <3>. QED
      BY <1>2, <3>1, <3>2, <3>3, OneHanded
  <2>. QED
    BY <2>2, <2>3
<1>. QED
  BY <1>1, <1>4, <1>5, <1>9, <1>10 DEF EnvInv

LEMMA SamePlace == ASSUME EnvTypes PROVE \A n \in Nodes : \A i \in DOMAIN inbox[n] : i + 0 = i
<1>1. \A n \in Nodes : DOMAIN inbox[n] = 1..Len(inbox[n])
  BY DEF EnvTypes
<1>. QED
  BY <1>1

LEMMA AdvancesInv == ASSUME EnvInv, NEW g \in Nodes \cup Conns, Advances(g) PROVE EnvInv'
<1>0. out \in [Nodes \cup Conns -> Envelopes \cup {None}] /\ inbox \in [Nodes -> Seq(Envelopes)]
  BY DEF EnvInv, EnvTypes
<1>1. PICK e : Advanced(g, e) /\ out' = [out EXCEPT ![g] = e]
  BY DEF Advances
<1>2. UNCHANGED <<inst, inbox, got, visits, unsure>> /\ out[g] # None
  BY DEF Advances, Forward
<1>3. /\ out' \in [Nodes \cup Conns -> Envelopes \cup {None}] /\ out'[g] = e
      /\ \A k \in Nodes \cup Conns : k # g => out'[k] = out[k]
  BY <1>0, <1>1 DEF Advanced
<1>4. e.msg = out[g].msg /\ Routed(inst, e) /\ e.route # None /\ (Behind(out[g], visits) => Behind(e, visits))
  BY <1>1 DEF Advanced
<1>5. EnvTypes'
  BY <1>2, <1>3 DEF EnvInv, EnvTypes
<1>6. Routes'
  BY <1>2, <1>3, <1>4 DEF EnvInv, Routes
<1>7. Trails'
  BY <1>2, <1>3, <1>4 DEF EnvInv, Trails
<1>8. ASSUME NEW m PROVE Fewer(out, inbox, got, out', inbox', got', m)
  <2>1. \A k \in Nodes \cup Conns : Held(out', k, m) => Held(out, k, m)
    BY <1>2, <1>3, <1>4 DEF Held
  <2>2. \A n \in Nodes : \A i \in DOMAIN inbox[n] : i + 0 = i
    BY SamePlace DEF EnvInv
  <2>. QED
    BY <1>2, <2>1, <2>2 DEF Fewer
<1>9. Births'
  <2>. SUFFICES ASSUME NEW m \in Msgs, Unborn(cpc', ups', m)
                PROVE  Nowhere(out', inbox', got', m) /\ visits'[m] = <<>> /\ m \notin unsure'
    BY DEF Births
  <2>1. Nowhere(out, inbox, got, m) /\ visits[m] = <<>> /\ m \notin unsure
    BY ForwardUnborn DEF EnvInv, Births, Advances
  <2>2. Nowhere(out', inbox', got', m)
    BY <1>8, <2>1, FewerNowhere
  <2>. QED
    BY <1>2, <2>1, <2>2
<1>10. OneCopy'
  <2>. SUFFICES ASSUME NEW m \in Msgs, m \notin unsure' PROVE Single(out', inbox', got', m)
    BY DEF OneCopy
  <2>1. Single(out, inbox, got, m) /\ inbox' \in [Nodes -> Seq(Envelopes)]
    BY <1>0, <1>2 DEF EnvInv, OneCopy
  <2>. QED
    BY <1>8, <2>1, FewerSingle
<1>. QED
  BY <1>5, <1>6, <1>7, <1>9, <1>10 DEF EnvInv

LEMMA BornInv == ASSUME EnvInv, NEW c \in Conns, NEW kind, Born(c, kind) PROVE EnvInv'
<1>. DEFINE x == <<c, kind>>
            e == Envelope(c, kind)
<1>0. /\ out \in [Nodes \cup Conns -> Envelopes \cup {None}] /\ inbox \in [Nodes -> Seq(Envelopes)]
      /\ x \in Msgs /\ x[1] = c
  BY DEF EnvInv, EnvTypes, Born, Msgs
<1>1. e \in Envelopes /\ e.msg = x /\ e.route = None /\ Routed(inst, e)
  BY <1>0 DEF Envelope, Envelopes, Routed
<1>2. UNCHANGED <<inst, inbox, got, visits, unsure>> /\ out' = [out EXCEPT ![c] = e]
  BY DEF Born, Forward
<1>3. Nowhere(out, inbox, got, x) /\ visits[x] = <<>> /\ x \notin unsure /\ ~Unborn(cpc', ups', x)
  BY <1>0 DEF EnvInv, Births, Born
<1>4. Behind(e, visits)
  <2>1. DOMAIN visits[x] = {}
    BY <1>3
  <2>. QED
    BY <1>1, <2>1 DEF Behind
<1>. HIDE DEF x, e
<1>5. /\ out' \in [Nodes \cup Conns -> Envelopes \cup {None}] /\ out'[c] = e
      /\ \A k \in Nodes \cup Conns : k # c => out'[k] = out[k]
  BY <1>0, <1>1, <1>2
<1>6. EnvTypes'
  BY <1>2, <1>5 DEF EnvInv, EnvTypes
<1>7. Routes'
  <2>1. \A n \in Nodes : n # c
    BY ServingAssumption
  <2>. QED
    BY <1>0, <1>1, <1>2, <1>5, <2>1 DEF EnvInv, Routes
<1>8. Trails'
  BY <1>1, <1>2, <1>4, <1>5 DEF EnvInv, Trails
<1>9. ASSUME NEW m, m # x PROVE Fewer(out, inbox, got, out', inbox', got', m)
  <2>1. \A k \in Nodes \cup Conns : Held(out', k, m) => Held(out, k, m)
    BY <1>1, <1>5, <1>9 DEF Held
  <2>2. \A n \in Nodes : \A i \in DOMAIN inbox[n] : i + 0 = i
    BY SamePlace DEF EnvInv
  <2>. QED
    BY <1>2, <2>1, <2>2 DEF Fewer
<1>10. Births'
  <2>. SUFFICES ASSUME NEW m \in Msgs, Unborn(cpc', ups', m)
                PROVE  Nowhere(out', inbox', got', m) /\ visits'[m] = <<>> /\ m \notin unsure'
    BY DEF Births
  <2>1. Nowhere(out, inbox, got, m) /\ visits[m] = <<>> /\ m \notin unsure
    BY ForwardUnborn DEF EnvInv, Births, Born
  <2>2. m # x
    BY <1>3
  <2>3. Nowhere(out', inbox', got', m)
    BY <1>9, <2>1, <2>2, FewerNowhere
  <2>. QED
    BY <1>2, <2>1, <2>3
<1>11. OneCopy'
  <2>. SUFFICES ASSUME NEW m \in Msgs, m \notin unsure' PROVE Single(out', inbox', got', m)
    BY DEF OneCopy
  <2>1. Single(out, inbox, got, m) /\ inbox' \in [Nodes -> Seq(Envelopes)]
    BY <1>0, <1>2 DEF EnvInv, OneCopy
  <2>2. CASE m # x
    BY <1>9, <2>1, <2>2, FewerSingle
  <2>3. CASE m = x
    <3>1. \A k \in Nodes \cup Conns : Held(out', k, m) => k = c
      BY <1>3, <1>5, <2>3 DEF Nowhere, Held
    <3>2. (\A n \in Nodes : ~Queued(inbox', n, m)) /\ ~In(got', m)
      BY <1>2, <1>3, <2>3 DEF Nowhere, Handed
    <3>. QED
      BY <3>1, <3>2, OneHeld
  <2>. QED
    BY <2>2, <2>3
<1>. QED
  BY <1>6, <1>7, <1>8, <1>10, <1>11 DEF EnvInv

LEMMA TakesInv == ASSUME EnvInv, NEW n \in Nodes, Takes(n) PROVE EnvInv'
<1>. DEFINE e == inbox[n][1]
<1>0. out \in [Nodes \cup Conns -> Envelopes \cup {None}] /\ inbox \in [Nodes -> Seq(Envelopes)]
  BY DEF EnvInv, EnvTypes
<1>1. UNCHANGED <<inst, got, visits, unsure>> /\ out[n] = None /\ inbox[n] # <<>>
  BY DEF Takes, Forward
<1>2. 1 \in DOMAIN inbox[n] /\ e \in Envelopes /\ Head(inbox[n]) = e
  BY <1>0, <1>1
<1>3. /\ out' \in [Nodes \cup Conns -> Envelopes \cup {None}] /\ out'[n] = e
      /\ \A k \in Nodes \cup Conns : k # n => out'[k] = out[k]
  <2>1. out' = [out EXCEPT ![n] = e]
    BY <1>2 DEF Takes
  <2>. HIDE DEF e
  <2>. QED
    BY <1>0, <1>2, <2>1
<1>4. Tail(inbox[n]) \in Seq(Envelopes) /\ Len(Tail(inbox[n])) = Len(inbox[n]) - 1 /\ Len(inbox[n]) \in Nat
      /\ \A i \in 1..(Len(inbox[n]) - 1) : Tail(inbox[n])[i] = inbox[n][i + 1]
  BY <1>0, <1>1
<1>5. /\ inbox' \in [Nodes -> Seq(Envelopes)] /\ inbox'[n] = Tail(inbox[n])
      /\ \A k \in Nodes : k # n => inbox'[k] = inbox[k]
  BY <1>0, <1>4 DEF Takes
<1>6. \A i \in DOMAIN inbox'[n] : i \in Nat \ {0} /\ i + 1 \in DOMAIN inbox[n] /\ inbox'[n][i] = inbox[n][i + 1]
  BY <1>0, <1>4, <1>5
<1>. HIDE DEF e
<1>7. EnvTypes'
  BY <1>1, <1>3, <1>5 DEF EnvInv, EnvTypes
<1>8. Routed(inst, e) /\ e.route # None /\ (e.msg \notin unsure => Behind(e, visits))
  BY <1>2 DEF EnvInv, Routes, Trails, e
<1>old. \A k \in Nodes : \A i \in DOMAIN inbox'[k] : \E j \in DOMAIN inbox[k] : inbox'[k][i] = inbox[k][j]
  <2>1. \A i \in DOMAIN inbox'[n] : \E j \in DOMAIN inbox[n] : inbox'[n][i] = inbox[n][j]
    BY <1>6
  <2>. QED
    BY <1>5, <2>1
<1>9. Routes'
  <2>1. \A c \in Conns : c # n
    BY ServingAssumption
  <2>2. \A k \in Nodes : \A i \in DOMAIN inbox'[k] : Routed(inst, inbox'[k][i]) /\ inbox'[k][i].route # None
    BY <1>old DEF EnvInv, Routes
  <2>3. \A g \in Nodes \cup Conns : out'[g] # None => Routed(inst, out'[g])
    BY <1>3, <1>8 DEF EnvInv, Routes
  <2>4. \A k \in Nodes : out'[k] # None => out'[k].route # None
    BY <1>3, <1>8 DEF EnvInv, Routes
  <2>5. \A c \in Conns : out'[c] # None => out'[c].msg[1] = c
    BY <1>3, <2>1 DEF EnvInv, Routes
  <2>. QED
    BY <1>1, <2>2, <2>3, <2>4, <2>5 DEF Routes
<1>10. Trails'
  <2>1. \A k \in Nodes : \A i \in DOMAIN inbox'[k] :
           inbox'[k][i].msg \notin unsure => Behind(inbox'[k][i], visits)
    BY <1>old DEF EnvInv, Trails
  <2>2. \A g \in Nodes \cup Conns : out'[g] # None /\ out'[g].msg \notin unsure => Behind(out'[g], visits)
    BY <1>3, <1>8 DEF EnvInv, Trails
  <2>. QED
    BY <1>1, <2>1, <2>2 DEF EnvInv, Trails
<1>11. ASSUME NEW m, m # e.msg PROVE Fewer(out, inbox, got, out', inbox', got', m)
  <2>1. \A k \in Nodes \cup Conns : Held(out', k, m) => Held(out, k, m)
    BY <1>3, <1>11 DEF Held
  <2>2. \A k \in Nodes : \A i \in DOMAIN inbox[k] : i + 0 = i
    BY SamePlace DEF EnvInv
  <2>3. ASSUME NEW k \in Nodes
        PROVE  \E d \in {0, 1} : \A i \in DOMAIN inbox'[k] :
                 inbox'[k][i].msg = m => i + d \in DOMAIN inbox[k] /\ inbox[k][i + d].msg = m
    <3>1. CASE k = n
      BY <1>6, <3>1
    <3>2. CASE k # n
      BY <1>5, <2>2, <3>2
    <3>. QED
      BY <3>1, <3>2
  <2>. QED
    BY <1>1, <2>1, <2>3 DEF Fewer
<1>12. Queued(inbox, n, e.msg)
  BY <1>2 DEF Queued, e
<1>13. Births'
  <2>. SUFFICES ASSUME NEW m \in Msgs, Unborn(cpc', ups', m)
                PROVE  Nowhere(out', inbox', got', m) /\ visits'[m] = <<>> /\ m \notin unsure'
    BY DEF Births
  <2>1. Nowhere(out, inbox, got, m) /\ visits[m] = <<>> /\ m \notin unsure
    BY ForwardUnborn DEF EnvInv, Births, Takes
  <2>2. m # e.msg
    BY <1>12, <2>1 DEF Nowhere
  <2>3. Nowhere(out', inbox', got', m)
    BY <1>11, <2>1, <2>2, FewerNowhere
  <2>. QED
    BY <1>1, <2>1, <2>3
<1>14. OneCopy'
  <2>. SUFFICES ASSUME NEW m \in Msgs, m \notin unsure' PROVE Single(out', inbox', got', m)
    BY DEF OneCopy
  <2>1. Single(out, inbox, got, m)
    BY <1>1 DEF EnvInv, OneCopy
  <2>2. CASE m # e.msg
    BY <1>5, <1>11, <2>1, <2>2, FewerSingle
  <2>3. CASE m = e.msg
    <3>1. /\ \A k \in Nodes \cup Conns : ~Held(out, k, m)
          /\ \A k \in Nodes : Queued(inbox, k, m) => k = n
          /\ ~In(got, m)
      BY <1>12, <2>1, <2>3 DEF Single, Handed
    <3>2. \A k \in Nodes \cup Conns : Held(out', k, m) => k = n
      BY <1>3, <3>1 DEF Held
    <3>3. \A i \in DOMAIN inbox[n] : inbox[n][i].msg = m => i = 1
      BY <1>2, <2>1, <2>3 DEF Single, e
    <3>4. \A k \in Nodes : ~Queued(inbox', k, m)
      <4>1. ~Queued(inbox', n, m)
        BY <1>6, <3>3 DEF Queued
      <4>2. \A k \in Nodes : k # n => ~Queued(inbox', k, m)
        BY <1>5, <3>1 DEF Queued
      <4>. QED
        BY <4>1, <4>2
    <3>. QED
      BY <1>1, <3>1, <3>2, <3>4, OneHeld
  <2>. QED
    BY <2>2, <2>3
<1>. QED
  BY <1>7, <1>9, <1>10, <1>13, <1>14 DEF EnvInv

LEMMA BehindSame ==
    ASSUME NEW e, NEW v, NEW w, w[e.msg] = v[e.msg], Behind(e, v)
    PROVE  Behind(e, w)
  BY DEF Behind

LEMMA PublishesInv ==
    ASSUME EnvInv, NEW g \in Nodes \cup Conns, NEW t, NEW e, Publishes(g, t, e)
    PROVE  EnvInv'
<1>x. PICK x \in Msgs : x = out[g].msg
  BY DEF EnvInv, EnvTypes, Publishes, Envelopes
<1>0. /\ out \in [Nodes \cup Conns -> Envelopes \cup {None}] /\ inbox \in [Nodes -> Seq(Envelopes)]
      /\ visits \in [Msgs -> Seq(Nodes)]
  BY DEF EnvInv, EnvTypes
<1>1. inst' = inst /\ got' = got /\ out[g] # None /\ unsure \subseteq unsure'
  BY DEF Publishes, Forward
<1>2. /\ e \in Envelopes /\ e.msg = x /\ Routed(inst, e) /\ e.route # None
      /\ e.hop \in 1..Len(e.route) /\ t = e.route[e.hop]
      /\ Behind(out[g], visits) => Behind(e, visits) /\ ~In(visits[x], t)
  BY <1>x DEF Publishes, Advanced
<1>3. t \in Nodes
  <2>1. e.route \in Seq(Nodes)
    BY <1>2 DEF Envelopes
  <2>. QED
    BY <1>2, <2>1
<1>4. /\ inbox' = [inbox EXCEPT ![t] = Append(inbox[t], e)]
      /\ visits' = [visits EXCEPT ![x] = Append(visits[x], t)]
  BY <1>x DEF Publishes
<1>5. /\ \A k \in Nodes \cup Conns : k # g => out'[k] = out[k]
      /\ out' \in [Nodes \cup Conns -> Envelopes \cup {None}]
      /\ \/ out'[g] = None /\ unsure' = unsure
         \/ unsure' = unsure \cup {x} /\ Advanced(g, out'[g])
  <2>1. CASE out' = [out EXCEPT ![g] = None] /\ unsure' = unsure
    BY <1>0, <2>1
  <2>2. CASE unsure' = unsure \cup {x} /\ \E f : Advanced(g, f) /\ out' = [out EXCEPT ![g] = f]
    <3>1. PICK f : Advanced(g, f) /\ out' = [out EXCEPT ![g] = f]
      BY <2>2
    <3>2. f \in Envelopes /\ out'[g] = f
      BY <1>0, <3>1 DEF Advanced
    <3>. QED
      BY <1>0, <2>2, <3>1, <3>2
  <2>. QED
    BY <1>x, <2>1, <2>2 DEF Publishes
<1>6. /\ inbox' \in [Nodes -> Seq(Envelopes)] /\ inbox'[t] = Append(inbox[t], e)
      /\ \A n \in Nodes : n # t => inbox'[n] = inbox[n]
  BY <1>0, <1>2, <1>3, <1>4
<1>7. /\ visits' \in [Msgs -> Seq(Nodes)] /\ visits'[x] = Append(visits[x], t)
      /\ \A m \in Msgs : m # x => visits'[m] = visits[m]
  BY <1>0, <1>3, <1>4
<1>8. /\ \A i \in DOMAIN inbox'[t] : \/ i \in DOMAIN inbox[t] /\ inbox'[t][i] = inbox[t][i]
                                     \/ i = Len(inbox[t]) + 1 /\ inbox'[t][i] = e
      /\ \A n \in Nodes : \A i \in DOMAIN inbox'[n] :
           (i \in DOMAIN inbox[n] /\ inbox'[n][i] = inbox[n][i]) \/ inbox'[n][i] = e
  <2>1. \A i \in DOMAIN inbox'[t] : \/ i \in DOMAIN inbox[t] /\ inbox'[t][i] = inbox[t][i]
                                    \/ i = Len(inbox[t]) + 1 /\ inbox'[t][i] = e
    BY <1>0, <1>2, <1>3, <1>6
  <2>. QED
    BY <1>6, <2>1
<1>9. /\ \A i \in DOMAIN visits'[x] : \/ i \in DOMAIN visits[x] /\ visits'[x][i] = visits[x][i]
                                      \/ i = Len(visits[x]) + 1 /\ visits'[x][i] = t
  BY <1>0, <1>3, <1>7
<1>10. Held(out, g, x)
  BY <1>x, <1>1 DEF Held
<1>11. /\ x \notin unsure' => out'[g] = None
       /\ out'[g] # None => out'[g].msg = x /\ Routed(inst, out'[g]) /\ out'[g].route # None
  BY <1>x, <1>5 DEF Advanced
<1>12. EnvTypes'
  BY <1>1, <1>5, <1>6, <1>7 DEF EnvInv, EnvTypes
<1>13. Routes'
  <2>1. \A n \in Nodes : \A i \in DOMAIN inbox'[n] : Routed(inst, inbox'[n][i]) /\ inbox'[n][i].route # None
    BY <1>2, <1>8 DEF EnvInv, Routes
  <2>2. \A k \in Nodes \cup Conns : out'[k] # None => Routed(inst, out'[k])
    BY <1>5, <1>11 DEF EnvInv, Routes
  <2>3. \A n \in Nodes : out'[n] # None => out'[n].route # None
    BY <1>5, <1>11 DEF EnvInv, Routes
  <2>4. \A c \in Conns : out'[c] # None => out'[c].msg[1] = c
    BY <1>x, <1>1, <1>5, <1>11 DEF EnvInv, Routes
  <2>. QED
    BY <1>1, <2>1, <2>2, <2>3, <2>4 DEF Routes
<1>14. x \notin unsure' =>
         /\ \A k \in Nodes \cup Conns : Held(out, k, x) => k = g
         /\ \A n \in Nodes : ~Queued(inbox, n, x)
         /\ ~In(got, x)
         /\ Behind(out[g], visits)
  <2>. SUFFICES ASSUME x \notin unsure'
                PROVE  /\ \A k \in Nodes \cup Conns : Held(out, k, x) => k = g
                       /\ \A n \in Nodes : ~Queued(inbox, n, x)
                       /\ ~In(got, x)
                       /\ Behind(out[g], visits)
    OBVIOUS
  <2>1. Single(out, inbox, got, x)
    BY <1>1 DEF EnvInv, OneCopy
  <2>2. Behind(out[g], visits)
    BY <1>x, <1>1 DEF EnvInv, Trails
  <2>. QED
    BY <1>10, <2>1, <2>2, HeldAlone
<1>15. Trails'
  <2>1. ASSUME NEW k \in Nodes \cup Conns, out'[k] # None, out'[k].msg \notin unsure'
        PROVE  Behind(out'[k], visits')
    <3>1. k # g /\ out'[k] = out[k]
      BY <1>5, <1>11, <2>1
    <3>2. out[k].msg # x
      BY <1>14, <2>1, <3>1 DEF Held
    <3>3. out[k].msg \in Msgs /\ Behind(out[k], visits)
      BY <1>0, <1>1, <2>1, <3>1 DEF EnvInv, Trails, Envelopes
    <3>4. visits'[out[k].msg] = visits[out[k].msg]
      BY <1>7, <3>2, <3>3
    <3>5. Behind(out[k], visits')
      BY <3>3, <3>4, BehindSame
    <3>. QED
      BY <3>1, <3>5
  <2>2. ASSUME NEW n \in Nodes, NEW i \in DOMAIN inbox'[n], inbox'[n][i].msg \notin unsure'
        PROVE  Behind(inbox'[n][i], visits')
    <3>1. CASE i \in DOMAIN inbox[n] /\ inbox'[n][i] = inbox[n][i]
      <4>1. inbox[n][i] \in Envelopes
        BY <1>0, <3>1
      <4>2. inbox[n][i].msg # x
        BY <1>14, <2>2, <3>1 DEF Queued
      <4>3. inbox[n][i].msg \in Msgs /\ Behind(inbox[n][i], visits)
        BY <1>1, <2>2, <3>1, <4>1 DEF EnvInv, Trails, Envelopes
      <4>4. visits'[inbox[n][i].msg] = visits[inbox[n][i].msg]
        BY <1>7, <4>2, <4>3
      <4>5. Behind(inbox[n][i], visits')
        BY <4>3, <4>4, BehindSame
      <4>. QED
        BY <3>1, <4>5
    <3>2. CASE inbox'[n][i] = e
      <4>1. Behind(e, visits)
        BY <1>2, <1>14, <2>2, <3>2
      <4>2. \A j \in DOMAIN visits'[x] : \E h \in 1..e.hop : visits'[x][j] = e.route[h]
        <5>. SUFFICES ASSUME NEW j \in DOMAIN visits'[x]
                      PROVE  \E h \in 1..e.hop : visits'[x][j] = e.route[h]
          OBVIOUS
        <5>1. CASE j \in DOMAIN visits[x] /\ visits'[x][j] = visits[x][j]
          BY <1>2, <4>1, <5>1 DEF Behind
        <5>2. CASE visits'[x][j] = t
          <6>1. e.hop \in 1..e.hop
            BY <1>2
          <6>. QED
            BY <1>2, <5>2, <6>1
        <5>. QED
          BY <1>9, <5>1, <5>2
      <4>. QED
        BY <1>2, <3>2, <4>2 DEF Behind
    <3>. QED
      BY <1>8, <3>1, <3>2
  <2>3. ASSUME NEW m \in Msgs, NEW i \in DOMAIN visits'[m] PROVE visits'[m][i] # inst.at[m[1]]
    <3>1. CASE m = x
      <4>1. t # inst.at[x[1]]
        BY <1>2 DEF Routed
      <4>2. \A j \in DOMAIN visits[x] : visits[x][j] # inst.at[x[1]]
        BY DEF EnvInv, Trails
      <4>. QED
        BY <1>9, <3>1, <4>1, <4>2
    <3>2. CASE m # x
      BY <1>7, <3>2 DEF EnvInv, Trails
    <3>. QED
      BY <3>1, <3>2
  <2>4. ASSUME NEW m \in Msgs, m \notin unsure', NEW i \in DOMAIN visits'[m], NEW j \in DOMAIN visits'[m],
               visits'[m][i] = visits'[m][j]
        PROVE  i = j
    <3>1. CASE m = x
      <4>1. \A h \in DOMAIN visits[x] : visits[x][h] # t
        BY <1>2, <1>14, <2>4, <3>1 DEF In
      <4>2. \A h, k \in DOMAIN visits[x] : visits[x][h] = visits[x][k] => h = k
        BY <1>1, <2>4, <3>1 DEF EnvInv, Trails
      <4>. QED
        BY <1>9, <2>4, <3>1, <4>1, <4>2
    <3>2. CASE m # x
      BY <1>1, <1>7, <2>4, <3>2 DEF EnvInv, Trails
    <3>. QED
      BY <3>1, <3>2
  <2>. QED
    BY <1>1, <2>1, <2>2, <2>3, <2>4 DEF Trails
<1>16. ASSUME NEW m, m # x PROVE Fewer(out, inbox, got, out', inbox', got', m)
  <2>1. \A k \in Nodes \cup Conns : Held(out', k, m) => Held(out, k, m)
    BY <1>5, <1>11, <1>16 DEF Held
  <2>2. \A k \in Nodes : \A i \in DOMAIN inbox[k] : i + 0 = i
    BY SamePlace DEF EnvInv
  <2>3. \A n \in Nodes : \A i \in DOMAIN inbox'[n] :
          inbox'[n][i].msg = m => i + 0 \in DOMAIN inbox[n] /\ inbox[n][i + 0].msg = m
    BY <1>2, <1>8, <1>16, <2>2
  <2>. QED
    BY <1>1, <2>1, <2>3 DEF Fewer
<1>17. Births'
  <2>. SUFFICES ASSUME NEW m \in Msgs, Unborn(cpc', ups', m)
                PROVE  Nowhere(out', inbox', got', m) /\ visits'[m] = <<>> /\ m \notin unsure'
    BY DEF Births
  <2>1. Nowhere(out, inbox, got, m) /\ visits[m] = <<>> /\ m \notin unsure
    BY ForwardUnborn DEF EnvInv, Births, Publishes
  <2>2. m # x
    BY <1>10, <2>1 DEF Nowhere
  <2>3. Nowhere(out', inbox', got', m)
    BY <1>16, <2>1, <2>2, FewerNowhere
  <2>. QED
    BY <1>5, <1>7, <2>1, <2>2, <2>3
<1>18. OneCopy'
  <2>. SUFFICES ASSUME NEW m \in Msgs, m \notin unsure' PROVE Single(out', inbox', got', m)
    BY DEF OneCopy
  <2>1. Single(out, inbox, got, m)
    BY <1>1 DEF EnvInv, OneCopy
  <2>2. CASE m # x
    BY <1>6, <1>16, <2>1, <2>2, FewerSingle
  <2>3. CASE m = x
    <3>1. \A k \in Nodes \cup Conns : ~Held(out', k, m)
      BY <1>5, <1>11, <1>14, <2>3 DEF Held
    <3>2. \A n \in Nodes : Queued(inbox', n, m) => n = t
      BY <1>6, <1>14, <2>3 DEF Queued
    <3>3. \A i, j \in DOMAIN inbox'[t] : inbox'[t][i].msg = m /\ inbox'[t][j].msg = m => i = j
      <4>1. \A i \in DOMAIN inbox'[t] : inbox'[t][i].msg = m => i = Len(inbox[t]) + 1
        BY <1>3, <1>8, <1>14, <2>3 DEF Queued
      <4>. QED
        BY <4>1
    <3>. QED
      BY <1>1, <1>14, <2>3, <3>1, <3>2, <3>3, OneQueued
  <2>. QED
    BY <2>2, <2>3
<1>. QED
  BY <1>12, <1>13, <1>15, <1>17, <1>18 DEF EnvInv

-----------------------------------------------------------------------------
\* Which step moves envelopes in which way.
CPhases == {"new", "shake", "hello", "open", "leaving", "bye", "done"}

LEMMA FinishMoves ==
    ASSUME ViewTypes, NEW g \in Nodes \cup Conns, NEW ok, Finish(g, ok), inst' = inst, ups' = ups
    PROVE  /\ Forward /\ out' = [out EXCEPT ![g] = None]
           /\ cpc' \in [Conns -> CPhases]
           /\ \A c \in Conns : c # g => cpc'[c] = cpc[c]
<1>1. CASE g \in Conns /\ cpc[g] = "hello"
  <2>1. cpc' = [cpc EXCEPT ![g] = "open"]
    BY <1>1 DEF Finish
  <2>2. /\ cpc' \in [Conns -> CPhases]
        /\ \A c \in Conns : c # g => cpc'[c] = cpc[c]
        /\ cpc'[g] = "open"
    BY <1>1, <2>1 DEF ViewTypes, CPhases
  <2>. QED
    BY <1>1, <2>2 DEF Forward, Finish
<1>2. CASE g \in Conns /\ cpc[g] = "bye"
  <2>1. cpc' = [cpc EXCEPT ![g] = "done"]
    BY <1>2 DEF Finish
  <2>2. /\ cpc' \in [Conns -> CPhases]
        /\ \A c \in Conns : c # g => cpc'[c] = cpc[c]
        /\ cpc'[g] = "done"
    BY <1>2, <2>1 DEF ViewTypes, CPhases
  <2>. QED
    BY <1>2, <2>2 DEF Forward, Finish
<1>3. CASE ~(g \in Conns /\ cpc[g] \in {"hello", "bye"})
  <2>1. cpc' = cpc
    BY <1>3 DEF Finish
  <2>. QED
    BY <2>1 DEF Forward, Finish, ViewTypes, CPhases
<1>. QED
  BY <1>1, <1>2, <1>3

LEMMA StillLoses ==
    ASSUME EnvTypes, Forward, UNCHANGED <<out, inbox, got, visits, unsure>>
    PROVE  Loses
  BY DEF Loses, EnvTypes

LEMMA DropLoses ==
    ASSUME EnvTypes, ViewTypes, NEW g \in Nodes \cup Conns, Finish(g, FALSE),
           UNCHANGED <<inst, ups, inbox, got, visits, unsure>>
    PROVE  Loses
<1>1. Forward /\ out' = [out EXCEPT ![g] = None]
  BY FinishMoves
<1>. QED
  BY <1>1 DEF Loses, EnvTypes

LEMMA LocalMoves ==
    ASSUME EnvTypes, ViewTypes, NEW g \in Nodes \cup Conns, DeliverLocal(g)
    PROVE  Hands(g) \/ Loses
<1>1. UNCHANGED <<inst, ups, inbox, visits, unsure>> /\ out[g] # None
  BY DEF DeliverLocal, DeliverRest
<1>2. CASE got' = Append(got, out[g].msg) /\ Finish(g, TRUE)
  BY <1>1, <1>2, FinishMoves DEF Hands
<1>3. CASE got' = got /\ Finish(g, FALSE)
  BY <1>1, <1>3, DropLoses
<1>. QED
  BY <1>2, <1>3 DEF DeliverLocal

LEMMA RouteMoves ==
    ASSUME EnvTypes, ViewTypes, Routes, NEW g \in Nodes \cup Conns, DeliverRoute(g)
    PROVE  Advances(g)
<1>. DEFINE r == RouteOf(g)
            e == [out[g] EXCEPT !.route = r, !.looping = TRUE]
<1>1. UNCHANGED <<inst, ups, cpc, inbox, got, visits, unsure>> /\ out[g] # None
  BY DEF DeliverRoute, DeliverRest, connVars
<1>2. out' = [out EXCEPT ![g] = e]
  BY DEF DeliverRoute
<1>3. out[g] \in Envelopes /\ Routed(inst, out[g]) /\ inst \in Instances
  BY <1>1 DEF EnvTypes, Routes
<1>4. /\ r \in Seq(Nodes) /\ out[g].hop <= Len(r)
      /\ \A i \in 1..Len(r) : r[i] # inst.at[out[g].msg[1]]
      /\ \A i, j \in 1..Len(r) : r[i] = r[j] => i = j
  <2>1. CASE out[g].route = None
    <3>1. g \in Conns /\ g \notin Nodes /\ out[g].msg[1] = g
      BY <1>1, <2>1, ServingAssumption DEF Routes
    <3>2. At(g) = inst.at[g] /\ inst.at[g] \in Nodes
      BY <1>3, <3>1, ServingPlaces DEF At
    <3>. DEFINE ns == Candidates(inst.at[g])
    <3>3. ns \in SUBSET Nodes /\ inst.at[g] \notin ns
      BY <3>2 DEF ViewTypes, Candidates
    <3>4. r = Rank(ns)
      BY <2>1, <3>2 DEF RouteOf
    <3>. HIDE DEF ns, r
    <3>5. /\ Rank(ns) \in Seq(Nodes)
          /\ \A i \in 1..Len(Rank(ns)) : Rank(ns)[i] \in ns
          /\ \A i, j \in 1..Len(Rank(ns)) : Rank(ns)[i] = Rank(ns)[j] => i = j
      BY <1>3, <3>3, RankIsRoute
    <3>6. out[g].hop = 0
      BY <1>3, <2>1 DEF Routed
    <3>. QED
      BY <3>1, <3>3, <3>4, <3>5, <3>6
  <2>2. CASE out[g].route # None
    <3>1. r = out[g].route
      BY <2>2 DEF RouteOf
    <3>2. out[g].route \in Seq(Nodes)
      BY <1>3, <2>2 DEF Envelopes
    <3>. HIDE DEF r
    <3>. QED
      BY <1>3, <2>2, <3>1, <3>2 DEF Routed
  <2>. QED
    BY <2>1, <2>2
<1>5. r # None
  BY <1>4, ServingAssumption
<1>. HIDE DEF r
<1>6. /\ e \in Envelopes /\ e.msg = out[g].msg /\ e.route = r /\ e.hop = out[g].hop
  BY <1>3, <1>4 DEF Envelopes
<1>. HIDE DEF e
<1>7. Routed(inst, e)
  BY <1>4, <1>5, <1>6 DEF Routed
<1>8. Behind(out[g], visits) => Behind(e, visits)
  <2>1. CASE out[g].route = None
    <3>1. \A i \in 1..out[g].hop : FALSE
      BY <1>3, <2>1 DEF Routed
    <3>. QED
      BY <1>6, <3>1 DEF Behind
  <2>2. CASE out[g].route # None
    <3>1. e.route = out[g].route
      BY <1>6, <2>2 DEF r, RouteOf
    <3>. QED
      BY <1>6, <3>1 DEF Behind
  <2>. QED
    BY <2>1, <2>2
<1>9. Forward
  BY <1>1 DEF Forward
<1>. QED
  BY <1>1, <1>2, <1>5, <1>6, <1>7, <1>8, <1>9 DEF Advances, Advanced

LEMMA PublishMoves ==
    ASSUME EnvTypes, ViewTypes, Routes, NEW g \in Nodes \cup Conns, PublishNext(g)
    PROVE  Advances(g) \/ \E t, e : Publishes(g, t, e)
<1>. DEFINE f == [out[g] EXCEPT !.hop = @ + 1]
            e == Sent(out[g])
            t == out[g].route[out[g].hop + 1]
<1>1. UNCHANGED <<inst, ups, got>> /\ out[g] # None /\ out[g].looping
  BY DEF PublishNext, DeliverRest
<1>2. out[g] \in Envelopes /\ Routed(inst, out[g]) /\ inst \in Instances
  BY <1>1 DEF EnvTypes, Routes
<1>3. out[g].route # None /\ out[g].hop < Len(out[g].route)
  BY <1>1, <1>2 DEF Routed, PublishNext
<1>4. out[g].route \in Seq(Nodes) /\ out[g].hop \in Nat /\ out[g].hop + 1 \in 1..Len(out[g].route)
  <2>1. out[g].route \in Seq(Nodes) /\ out[g].hop \in Nat
    BY <1>2, <1>3 DEF Envelopes
  <2>. QED
    BY <1>3, <2>1
<1>5. f \in Envelopes /\ f.msg = out[g].msg /\ f.route = out[g].route /\ f.hop = out[g].hop + 1
  BY <1>2, <1>4 DEF Envelopes
<1>6. e \in Envelopes /\ e.msg = out[g].msg /\ e.route = out[g].route /\ e.hop = out[g].hop + 1
  <2>1. e = [out[g] EXCEPT !.hop = out[g].hop + 1, !.looping = FALSE]
    BY DEF Sent
  <2>2. out[g].hop + 1 \in Nat /\ FALSE \in BOOLEAN
    BY <1>4
  <2>. HIDE DEF e
  <2>. QED
    BY <1>2, <2>1, <2>2 DEF Envelopes
<1>. HIDE DEF e, f
<1>7. ASSUME NEW x \in {e, f} PROVE Advanced(g, x)
  <2>1. x \in Envelopes /\ x.msg = out[g].msg /\ x.route = out[g].route /\ x.hop = out[g].hop + 1
    BY <1>5, <1>6
  <2>2. Routed(inst, x)
    BY <1>2, <1>3, <1>4, <2>1 DEF Routed
  <2>3. Behind(out[g], visits) => Behind(x, visits)
    <3>1. \A i \in 1..out[g].hop : i \in 1..x.hop
      BY <1>4, <2>1
    <3>. QED
      BY <2>1, <3>1 DEF Behind
  <2>. QED
    BY <1>3, <2>1, <2>2, <2>3 DEF Advanced
<1>8. Behind(out[g], visits) => ~In(visits[out[g].msg], t)
  <2>1. \A i \in 1..out[g].hop : out[g].route[i] # t
    <3>1. \A i \in 1..out[g].hop : i \in 1..Len(out[g].route) /\ i # out[g].hop + 1
      BY <1>4
    <3>. QED
      BY <1>2, <1>3, <1>4, <3>1 DEF Routed
  <2>. QED
    BY <2>1 DEF Behind, In
<1>. HIDE DEF t
<1>9. ASSUME UNCHANGED <<inbox, visits, unsure>>, out' = [out EXCEPT ![g] = f], UNCHANGED connVars
      PROVE  Advances(g)
  <2>1. Forward
    BY <1>1, <1>9 DEF Forward, connVars
  <2>. QED
    BY <1>1, <1>7, <1>9, <2>1 DEF Advances
<1>10. ASSUME inbox' = [inbox EXCEPT ![t] = Append(inbox[t], e)],
              visits' = [visits EXCEPT ![f.msg] = Append(visits[f.msg], t)],
              \/ Finish(g, TRUE) /\ unsure' = unsure
              \/ /\ unsure' = unsure \cup {f.msg}
                 /\ out' = [out EXCEPT ![g] = f] /\ UNCHANGED connVars
       PROVE  Publishes(g, t, e)
  <2>1. Advanced(g, e) /\ Advanced(g, f) /\ e.hop \in 1..Len(e.route) /\ t = e.route[e.hop]
    BY <1>4, <1>6, <1>7 DEF t
  <2>2. Forward /\ \/ out' = [out EXCEPT ![g] = None] /\ unsure' = unsure
                   \/ unsure' = unsure \cup {f.msg} /\ out' = [out EXCEPT ![g] = f]
    <3>1. CASE Finish(g, TRUE) /\ unsure' = unsure
      BY <1>1, <3>1, FinishMoves
    <3>2. CASE unsure' = unsure \cup {f.msg} /\ out' = [out EXCEPT ![g] = f] /\ UNCHANGED connVars
      BY <1>1, <3>2 DEF Forward, connVars
    <3>. QED
      BY <1>10, <3>1, <3>2
  <2>. QED
    BY <1>1, <1>5, <1>8, <1>10, <2>1, <2>2 DEF Publishes
<1>11. \/ /\ inbox' = [inbox EXCEPT ![t] = Append(inbox[t], e)]
          /\ visits' = [visits EXCEPT ![f.msg] = Append(visits[f.msg], t)]
          /\ \/ Finish(g, TRUE) /\ unsure' = unsure
             \/ /\ unsure' = unsure \cup {f.msg}
                /\ out' = [out EXCEPT ![g] = f] /\ UNCHANGED connVars
       \/ UNCHANGED <<inbox, visits, unsure>> /\ out' = [out EXCEPT ![g] = f] /\ UNCHANGED connVars
  BY DEF PublishNext, t, e, f
<1>. QED
  BY <1>9, <1>10, <1>11

LEMMA ConnMoves ==
    ASSUME EnvTypes, ViewTypes, NEW c \in Conns, ConnNext(c)
    PROVE  /\ Loses \/ \E kind : Born(c, kind)
           /\ cpc' \in [Conns -> CPhases] /\ \A d \in Conns : d # c => cpc'[d] = cpc[d]
<1>1. UNCHANGED <<inst, inbox, got, visits, unsure>> /\ ups \subseteq ups'
  BY DEF ConnNext, Accept, AddConn, SendUp, ReadEnds, RemoveConn, ConnRest
<1>2. cpc \in [Conns -> CPhases]
  BY DEF ViewTypes, CPhases
<1>3. CASE Accept(c) \/ ReadEnds(c)
  <2>1. PICK x \in CPhases : /\ cpc' = [cpc EXCEPT ![c] = x]
                             /\ \/ x = "shake" /\ cpc[c] = "new"
                                \/ x = "leaving" /\ cpc[c] = "open"
    <3>1. Accept(c) => cpc' = [cpc EXCEPT ![c] = "shake"] /\ cpc[c] = "new"
      BY DEF Accept
    <3>2. ReadEnds(c) => cpc' = [cpc EXCEPT ![c] = "leaving"] /\ cpc[c] = "open"
      BY DEF ReadEnds
    <3>. QED
      BY <1>3, <3>1, <3>2 DEF CPhases
  <2>2. cpc' \in [Conns -> CPhases] /\ cpc'[c] = x /\ \A d \in Conns : d # c => cpc'[d] = cpc[d]
    BY <1>2, <2>1
  <2>3. Forward
    BY <1>1, <2>1, <2>2 DEF Forward
  <2>4. out' = out
    BY <1>3 DEF Accept, ReadEnds
  <2>. QED
    BY <1>1, <2>2, <2>3, <2>4, StillLoses
<1>4. CASE AddConn(c)
  <2>1. cpc[c] = "shake" /\ cpc' = [cpc EXCEPT ![c] = "hello"] /\ out' = [out EXCEPT ![c] = Envelope(c, "Connected")]
    BY <1>4 DEF AddConn
  <2>2. cpc' \in [Conns -> CPhases] /\ cpc'[c] = "hello" /\ \A d \in Conns : d # c => cpc'[d] = cpc[d]
    BY <1>2, <2>1 DEF CPhases
  <2>3. Forward
    BY <1>1, <2>1, <2>2 DEF Forward
  <2>4. Unborn(cpc, ups, <<c, "Connected">>) /\ ~Unborn(cpc', ups', <<c, "Connected">>)
    BY <2>1, <2>2 DEF Unborn
  <2>. QED
    BY <1>1, <2>1, <2>2, <2>3, <2>4 DEF Born
<1>5. CASE SendUp(c)
  <2>1. cpc' = cpc /\ out' = [out EXCEPT ![c] = Envelope(c, "Up")] /\ c \notin ups /\ c \in ups'
    BY <1>5 DEF SendUp
  <2>2. Forward
    BY <1>1, <2>1 DEF Forward
  <2>3. Unborn(cpc, ups, <<c, "Up">>) /\ ~Unborn(cpc', ups', <<c, "Up">>)
    BY <2>1 DEF Unborn
  <2>. QED
    BY <1>1, <1>2, <2>1, <2>2, <2>3 DEF Born
<1>6. CASE RemoveConn(c) /\ c \in delivered
  <2>1. cpc[c] = "leaving" /\ cpc' = [cpc EXCEPT ![c] = "bye"] /\ out' = [out EXCEPT ![c] = Envelope(c, "Disconnected")]
    BY <1>6 DEF RemoveConn
  <2>2. cpc' \in [Conns -> CPhases] /\ cpc'[c] = "bye" /\ \A d \in Conns : d # c => cpc'[d] = cpc[d]
    BY <1>2, <2>1 DEF CPhases
  <2>3. Forward
    BY <1>1, <2>1, <2>2 DEF Forward
  <2>4. Unborn(cpc, ups, <<c, "Disconnected">>) /\ ~Unborn(cpc', ups', <<c, "Disconnected">>)
    BY <2>1, <2>2 DEF Unborn
  <2>. QED
    BY <1>1, <2>1, <2>2, <2>3, <2>4 DEF Born
<1>7. CASE RemoveConn(c) /\ c \notin delivered
  <2>1. cpc[c] = "leaving" /\ cpc' = [cpc EXCEPT ![c] = "done"] /\ out' = [out EXCEPT ![c] = None]
    BY <1>7 DEF RemoveConn
  <2>2. cpc' \in [Conns -> CPhases] /\ cpc'[c] = "done" /\ \A d \in Conns : d # c => cpc'[d] = cpc[d]
    BY <1>2, <2>1 DEF CPhases
  <2>3. Forward
    BY <1>1, <2>1, <2>2 DEF Forward
  <2>. QED
    BY <1>1, <2>1, <2>2, <2>3 DEF Loses, EnvTypes
<1>. QED
  BY <1>3, <1>4, <1>5, <1>6, <1>7 DEF ConnNext

LEMMA ExitLoses ==
    ASSUME EnvTypes, ViewTypes, NEW n \in Nodes, Exit(n), UNCHANGED <<inst, got, visits, unsure, ups>>
    PROVE  Loses /\ cpc' \in [Conns -> CPhases]
<1>1. /\ cpc' \in [Conns -> CPhases]
      /\ \A c \in Conns : cpc'[c] \in {cpc[c], "done"} /\ (cpc[c] = "new" => cpc'[c] = "new")
  BY DEF Exit, ViewTypes, CPhases
<1>2. Forward
  BY <1>1 DEF Forward
<1>3. /\ out' \in [Nodes \cup Conns -> Envelopes \cup {None}]
      /\ \A g \in Nodes \cup Conns : out'[g] \in {out[g], None}
  BY DEF Exit, EnvTypes
<1>4. <<>> \in Seq(Envelopes)
  OBVIOUS
<1>5. inbox' \in [Nodes -> Seq(Envelopes)] /\ \A k \in Nodes : inbox'[k] \in {inbox[k], <<>>}
  BY <1>4 DEF Exit, EnvTypes
<1>. QED
  BY <1>1, <1>2, <1>3, <1>5 DEF Loses

\* Streams, the liveness loop and the orderly steps of shutdown move no envelope.
StillNext ==
    \/ \E s \in Streams : StreamNext(s)
    \/ \E n \in Nodes : \/ LivenessNext(n) \/ Signal(n) \/ HttpShutdown(n) \/ CloseLocalConns(n)
                        \/ WaitConnsDrained(n) \/ GrpcStop(n)

LEMMA StillMoves ==
    ASSUME StillNext
    PROVE  UNCHANGED <<inst, out, inbox, got, visits, unsure, ups, cpc, delivered>>
<1>1. CASE \E s \in Streams : StreamNext(s)
  BY <1>1 DEF StreamNext, AddStream, Declare, StreamEnds, RemoveStream, Retract, busVars, connVars
<1>2. CASE \E n \in Nodes : LivenessNext(n)
  BY <1>2 DEF LivenessNext, Tick, Beat, Refresh, Signalled, WriteServingTable, Stale, LvRest, busVars, connVars
<1>3. CASE \E n \in Nodes : \/ Signal(n) \/ HttpShutdown(n) \/ CloseLocalConns(n)
                            \/ WaitConnsDrained(n) \/ GrpcStop(n)
  BY <1>3 DEF Signal, HttpShutdown, CloseLocalConns, WaitConnsDrained, GrpcStop, StopRest, connVars
<1>. QED
  BY <1>1, <1>2, <1>3 DEF StillNext

LEMMA MovingActions ==
    Next <=> \/ StillNext
             \/ \E g \in Nodes \cup Conns : DeliverNext(g)
             \/ \E n \in Nodes : HandleEnvelope(n)
             \/ \E c \in Conns : ConnNext(c)
             \/ \E n \in Nodes : Deregister(n) \/ Crash(n)
  BY DEF Next, ShutdownNext, StillNext

LEMMA EnvInvNext == ASSUME EnvInv, ViewTypes, Next PROVE EnvInv'
<1>0. EnvTypes /\ Routes
  BY DEF EnvInv
<1>1. CASE StillNext
  <2>1. UNCHANGED <<inst, out, inbox, got, visits, unsure, ups, cpc>>
    BY <1>1, StillMoves
  <2>2. Forward
    BY <2>1 DEF Forward
  <2>. QED
    BY <1>0, <2>1, <2>2, StillLoses, LosesInv
<1>2. ASSUME NEW g \in Nodes \cup Conns, DeliverNext(g) PROVE EnvInv'
  <2>1. CASE DeliverLocal(g)
    BY <1>0, <2>1, LocalMoves, HandsInv, LosesInv
  <2>2. CASE DeliverRoute(g)
    BY <1>0, <2>2, RouteMoves, AdvancesInv
  <2>3. CASE PublishNext(g)
    BY <1>0, <2>3, PublishMoves, AdvancesInv, PublishesInv
  <2>4. CASE Drop(g)
    <3>1. Finish(g, FALSE) /\ UNCHANGED <<inst, ups, inbox, got, visits, unsure>>
      BY <2>4 DEF Drop, DeliverRest
    <3>. QED
      BY <1>0, <3>1, DropLoses, LosesInv
  <2>. QED
    BY <1>2, <2>1, <2>2, <2>3, <2>4 DEF DeliverNext
<1>3. ASSUME NEW n \in Nodes, HandleEnvelope(n) PROVE EnvInv'
  <2>1. UNCHANGED <<inst, ups, cpc>>
    BY <1>3 DEF HandleEnvelope, DeliverRest, connVars
  <2>2. Takes(n)
    BY <1>3, <2>1 DEF HandleEnvelope, Takes, Forward
  <2>. QED
    BY <2>2, TakesInv
<1>4. ASSUME NEW c \in Conns, ConnNext(c) PROVE EnvInv'
  BY <1>0, <1>4, ConnMoves, LosesInv, BornInv
<1>5. ASSUME NEW n \in Nodes, Deregister(n) \/ Crash(n) PROVE EnvInv'
  <2>1. Exit(n) /\ UNCHANGED <<inst, got, visits, unsure, ups>>
    BY <1>5 DEF Deregister, Crash, StopRest
  <2>. QED
    BY <1>0, <2>1, ExitLoses, LosesInv
<1>. QED
  BY <1>1, <1>2, <1>3, <1>4, <1>5, MovingActions

LEMMA ViewTypesNext == ASSUME EnvInv, ViewTypes, Next PROVE ViewTypes'
<1>0. EnvTypes /\ inst \in Instances
  BY DEF EnvInv, EnvTypes
<1>1. cpc' \in [Conns -> CPhases]
  <2>1. CASE StillNext
    BY <2>1, StillMoves DEF ViewTypes, CPhases
  <2>2. ASSUME NEW g \in Nodes \cup Conns, DeliverNext(g) PROVE cpc' \in [Conns -> CPhases]
    <3>0. UNCHANGED <<inst, ups>>
      BY <2>2 DEF DeliverNext, DeliverLocal, DeliverRoute, PublishNext, Drop, DeliverRest
    <3>1. CASE \E ok \in BOOLEAN : Finish(g, ok)
      BY <3>0, <3>1, FinishMoves
    <3>2. CASE cpc' = cpc
      BY <3>2 DEF ViewTypes, CPhases
    <3>. QED
      BY <2>2, <3>1, <3>2 DEF DeliverNext, DeliverLocal, DeliverRoute, PublishNext, Drop, connVars
  <2>3. CASE \E n \in Nodes : HandleEnvelope(n)
    BY <2>3 DEF HandleEnvelope, connVars, ViewTypes, CPhases
  <2>4. CASE \E c \in Conns : ConnNext(c)
    BY <1>0, <2>4, ConnMoves
  <2>5. ASSUME NEW n \in Nodes, Deregister(n) \/ Crash(n) PROVE cpc' \in [Conns -> CPhases]
    <3>1. Exit(n) /\ UNCHANGED <<inst, got, visits, unsure, ups>>
      BY <2>5 DEF Deregister, Crash, StopRest
    <3>. QED
      BY <1>0, <3>1, ExitLoses
  <2>. QED
    BY <2>1, <2>2, <2>3, <2>4, <2>5, MovingActions
<1>2. srvTab' \subseteq Nodes
  <2>1. \E n \in Nodes : srvTab' \subseteq srvTab \cup {n}
    <3>1. CASE \E s \in Streams : StreamNext(s)
      <4>1. srvTab' = srvTab /\ \E n \in Nodes : TRUE
        BY <1>0, <3>1, ServingPlaces DEF StreamNext, AddStream, Declare, StreamEnds, RemoveStream, Retract, tabVars
      <4>. QED
        BY <4>1
    <3>2. CASE \E n \in Nodes : LivenessNext(n)
      BY <3>2 DEF LivenessNext, Tick, Beat, Refresh, Signalled, WriteServingTable, Stale
    <3>3. CASE \E n \in Nodes : Deregister(n) \/ Crash(n)
      BY <3>3 DEF Deregister, Crash
    <3>4. CASE Quietly
      <4>1. srvTab' = srvTab
        BY <3>4, QuietRest
      <4>2. \E n \in Nodes : TRUE
        BY <1>0, <3>4, ServingPlaces DEF Quietly
      <4>. QED
        BY <4>1, <4>2
    <3>. QED
      BY <3>1, <3>2, <3>3, <3>4, ServingActions
  <2>. QED
    BY <2>1 DEF ViewTypes
<1>3. view' \in [Nodes -> SUBSET Nodes]
  <2>1. view' = view \/ \E n \in Nodes, x \in SUBSET Nodes : view' = [view EXCEPT ![n] = x]
    <3>0. view \in [Nodes -> SUBSET Nodes] /\ srvTab \in SUBSET Nodes /\ {} \in SUBSET Nodes
      BY DEF ViewTypes
    <3>1. CASE \E s \in Streams : StreamNext(s)
      BY <3>1 DEF StreamNext, AddStream, Declare, StreamEnds, RemoveStream, Retract, tabVars
    <3>2. CASE \E n \in Nodes : LivenessNext(n)
      BY <3>0, <3>2 DEF LivenessNext, Tick, Beat, Refresh, Signalled, WriteServingTable, Stale
    <3>3. CASE \E n \in Nodes : ShutdownNext(n) \/ HandleEnvelope(n)
      BY <3>3 DEF ShutdownNext, Signal, HttpShutdown, CloseLocalConns, WaitConnsDrained, GrpcStop,
                  Deregister, Crash, StopRest, HandleEnvelope
    <3>4. ASSUME NEW g \in Nodes \cup Conns, DeliverNext(g)
          PROVE  view' = view \/ \E n \in Nodes, x \in SUBSET Nodes : view' = [view EXCEPT ![n] = x]
      <4>1. At(g) \in Nodes
        BY <1>0, ServingPlaces DEF At
      <4>2. view[At(g)] \in SUBSET Nodes
        BY <3>0, <4>1
      <4>3. view' = view \/ \E t : view' = [view EXCEPT ![At(g)] = view[At(g)] \ {t}]
        BY <3>4 DEF DeliverNext, DeliverLocal, DeliverRoute, PublishNext, Drop
      <4>. QED
        BY <4>1, <4>2, <4>3
    <3>5. ASSUME NEW c \in Conns, ConnNext(c)
          PROVE  view' = view \/ \E n \in Nodes, x \in SUBSET Nodes : view' = [view EXCEPT ![n] = x]
      <4>1. inst.at[c] \in Nodes
        BY <1>0, ServingPlaces
      <4>2. view' = view \/ \E x \in {view[inst.at[c]], srvTab} : view' = [view EXCEPT ![inst.at[c]] = x]
        BY <3>5 DEF ConnNext, Accept, AddConn, SendUp, ReadEnds, RemoveConn
      <4>. QED
        BY <3>0, <4>1, <4>2
    <3>. QED
      BY <3>1, <3>2, <3>3, <3>4, <3>5 DEF Next
  <2>. QED
    BY <2>1 DEF ViewTypes
<1>. QED
  BY <1>1, <1>2, <1>3 DEF ViewTypes, CPhases

LEMMA HandInvInit == Init => HandInv
<1>. SUFFICES ASSUME Init PROVE HandInv
  OBVIOUS
<1>1. /\ inst \in Instances
      /\ out = [g \in Nodes \cup Conns |-> None] /\ inbox = [n \in Nodes |-> <<>>]
      /\ got = <<>> /\ visits = [m \in Msgs |-> <<>>] /\ unsure = {}
  BY DEF Init
<1>2. <<>> \in Seq(Envelopes) /\ <<>> \in Seq(Msgs) /\ <<>> \in Seq(Nodes)
  OBVIOUS
<1>3. EnvTypes
  BY <1>1, <1>2 DEF EnvTypes
<1>4. ViewTypes
  BY DEF Init, ViewTypes
<1>5. /\ \A g \in Nodes \cup Conns : out[g] = None
      /\ \A n \in Nodes : inbox[n] = <<>> /\ DOMAIN inbox[n] = {}
      /\ \A m \in Msgs : visits[m] = <<>> /\ DOMAIN visits[m] = {}
      /\ DOMAIN got = {}
  BY <1>1
<1>6. Routes
  BY <1>5 DEF Routes
<1>7. Trails
  BY <1>5 DEF Trails
<1>8. \A m \in Msgs : Nowhere(out, inbox, got, m)
  BY <1>5 DEF Nowhere, Held, Queued, Handed, In
<1>9. Births
  BY <1>1, <1>5, <1>8 DEF Births
<1>10. OneCopy
  BY <1>5 DEF OneCopy, Single, Held, Queued, Handed, In
<1>. QED
  BY <1>3, <1>4, <1>6, <1>7, <1>9, <1>10 DEF HandInv

LEMMA HandInvSpec == Spec => []HandInv
<1>1. HandInv /\ [Next]_vars => HandInv'
  <2>. SUFFICES ASSUME HandInv, [Next]_vars PROVE HandInv'
    OBVIOUS
  <2>0. HandInv <=> EnvInv /\ ViewTypes
    BY DEF HandInv, EnvInv
  <2>1. CASE Next
    <3>1. EnvInv' /\ ViewTypes'
      BY <2>0, <2>1, EnvInvNext, ViewTypesNext
    <3>. QED
      BY <3>1 DEF HandInv, EnvInv
  <2>2. CASE UNCHANGED vars
    BY <2>2 DEF vars, busVars, connVars, tabVars, HandInv, EnvTypes, ViewTypes, Routes, Trails, Births, OneCopy
  <2>. QED
    BY <2>1, <2>2
<1>. QED
  BY <1>1, HandInvInit, PTL DEF Spec

\* At most one place, at most one in the count.
LEMMA CountOnce ==
    ASSUME NEW m, got \in Seq(Msgs), \A i, j \in DOMAIN got : got[i] = m /\ got[j] = m => i = j
    PROVE  /\ Count(m) <= 1
           /\ In(got, m) => Count(m) = 1
<1>. DEFINE S == {i \in DOMAIN got : got[i] = m}
<1>1. CASE S = {}
  <2>1. Cardinality(S) = 0
    BY <1>1, FS_EmptySet
  <2>. QED
    BY <1>1, <2>1 DEF Count, In
<1>2. CASE S # {}
  <2>1. PICK i : i \in S
    BY <1>2
  <2>2. S = {i}
    BY <2>1
  <2>3. Cardinality(S) = 1
    BY <2>2, FS_Singleton
  <2>. QED
    BY <2>3 DEF Count
<1>. QED
  BY <1>1, <1>2

(* A message is handed over at most once, visits a node at most once and   *)
(* never comes home, for any number of nodes, streams and connections      *)
(* (Hub.Deliver and HandleEnvelope).                                       *)
THEOREM HandedAtMostOnce == Spec => []HandedOnce
<1>1. HandInv => HandedOnce
  <2>. SUFFICES ASSUME HandInv, NEW m \in Msgs
                PROVE  /\ m \in unsure \/ (Count(m) <= 1 /\ IsInjective(visits[m]))
                       /\ inst.at[m[1]] \notin ToSet(visits[m])
    BY DEF HandedOnce
  <2>1. inst.at[m[1]] \notin ToSet(visits[m])
    BY DEF HandInv, Trails, ToSet
  <2>2. ASSUME m \notin unsure PROVE Count(m) <= 1 /\ IsInjective(visits[m])
    <3>1. IsInjective(visits[m])
      BY <2>2 DEF HandInv, Trails, IsInjective
    <3>2. got \in Seq(Msgs) /\ \A i, j \in DOMAIN got : got[i] = m /\ got[j] = m => i = j
      BY <2>2 DEF HandInv, EnvTypes, OneCopy, Single
    <3>. QED
      BY <3>1, <3>2, CountOnce
  <2>. QED
    BY <2>1, <2>2
<1>. QED
  BY <1>1, HandInvSpec, PTL

-----------------------------------------------------------------------------
(* Shutdown                                                                *)
(*                                                                         *)
(* While a steady node waits it has a stream that takes what Deliver hands *)
(* it (Stays), so a closed connection that the business knew of never sends*)
(* its end along a route (Tells), and when the wait ends within its budget *)
(* every closed connection is through (Gone).                              *)

\* A connection that shutdown closed is in the table, or tells its end to a local stream, or has.
Leaves(c) ==
    LET m == <<c, "Disconnected">> IN
    \/ cpc[c] \in {"hello", "open", "leaving"}
    \/ cpc[c] = "bye" /\ out[c] = Envelope(c, "Disconnected") /\ m \notin unsure
    \/ cpc[c] = "done" /\ Handed(got, m) /\ m \notin unsure

Stopping == {"drain", "stop", "deregister"}

\* The connections shutdown closed have left when it stops waiting within its budget.
Gone ==
    \A c \in snapshot :
        /\ c \in Conns /\ phase[inst.at[c]] \in Stopping \cup {"down"}
        /\ cpc[c] \notin {"new", "shake"}
        /\ phase[inst.at[c]] \in {"stop", "deregister"} /\ inst.at[c] \notin overrun => cpc[c] = "done"

\* While it waits, a steady node has streams and none of them has ended.
Stays ==
    \A n \in steady :
        /\ n \in Nodes /\ phase[n] \in Stopping \cup {"down"}
        /\ phase[n] = "drain" => /\ streams[n] # <<>>
                                 /\ \A s \in Streams : In(streams[n], s) => spc[s] # "ended"

Tells ==
    \A n \in steady \ overrun : phase[n] \in Stopping =>
        \A c \in snapshot \cap delivered : inst.at[c] = n => Leaves(c)

StopInv == Gone /\ Stays /\ Tells

-----------------------------------------------------------------------------
LEMMA NoEnvelope == \A c \in Conns : Envelope(c, "Disconnected") # None
<1>. SUFFICES ASSUME NEW c \in Conns PROVE Envelope(c, "Disconnected") # None
  OBVIOUS
<1>1. Envelope(c, "Disconnected") \in [msg : Conns \X {"Connected", "Up", "Disconnected"}, route : {None},
                                       hop : Nat, looping : BOOLEAN]
  BY DEF Envelope
<1>. QED
  BY <1>1, ServingAssumption

LEMMA LeavesSame ==
    ASSUME NEW c, Leaves(c), cpc'[c] = cpc[c], out'[c] = out[c],
           <<c, "Disconnected">> \notin unsure => <<c, "Disconnected">> \notin unsure',
           In(got, <<c, "Disconnected">>) => In(got', <<c, "Disconnected">>)
    PROVE  Leaves(c)'
  BY DEF Leaves, Handed, Envelope

\* What no envelope, connection or node does to shutdown's bookkeeping.
LEMMA GoneSame ==
    ASSUME Gone, UNCHANGED <<inst, snapshot, phase, overrun>>,
           \A c \in snapshot : /\ cpc'[c] \notin {"new", "shake"}
                               /\ cpc[c] = "done" => cpc'[c] = "done"
    PROVE  Gone'
  BY DEF Gone

LEMMA StaysSame == ASSUME Stays, UNCHANGED <<steady, phase, streams, spc>> PROVE Stays'
  BY DEF Stays

LEMMA TellsSame ==
    ASSUME Tells, UNCHANGED <<inst, snapshot, phase, overrun>>, steady' \subseteq steady,
           \A c \in snapshot \cap delivered' :
               inst.at[c] \in steady \ overrun /\ phase[inst.at[c]] \in Stopping
                 /\ (c \in delivered => Leaves(c)) => Leaves(c)'
    PROVE  Tells'
  BY DEF Tells

\* Streams: only a steady node that no longer waits may lose one.
LEMMA StaysStream ==
    ASSUME StreamLists, Stays, NEW s \in Streams, StreamNext(s)
    PROVE  Stays'
<1>k. PICK k \in Nodes : k = inst.at[s]
  BY ServingPlaces DEF StreamLists
<1>1. phase' = phase /\ steady' \subseteq steady
  BY DEF StreamNext, AddStream, Declare, StreamEnds, RemoveStream, Retract, stopVars
<1>2. PICK x : spc' = [spc EXCEPT ![s] = x]
  <2>1. AddStream(s) => \E x : spc' = [spc EXCEPT ![s] = x]
    BY DEF AddStream
  <2>2. RemoveStream(s) => \E x : spc' = [spc EXCEPT ![s] = x]
    BY DEF RemoveStream
  <2>3. Declare(s) \/ StreamEnds(s) \/ Retract(s) => \E x : spc' = [spc EXCEPT ![s] = x]
    BY DEF Declare, StreamEnds, Retract
  <2>. QED
    BY <2>1, <2>2, <2>3 DEF StreamNext
<1>3. spc'[s] = x /\ \A t \in Streams : t # s => spc'[t] = spc[t]
  BY <1>2 DEF StreamLists
<1>4. \A n \in Nodes : n # k => streams'[n] = streams[n] /\ ~In(streams[n], s)
  <2>1. \A n \in Nodes : n # k => ~In(streams[n], s)
    BY <1>k DEF StreamLists
  <2>2. streams' = streams \/ \E q : streams' = [streams EXCEPT ![k] = q]
    <3>1. AddStream(s) => \E q : streams' = [streams EXCEPT ![k] = q]
      BY <1>k DEF AddStream
    <3>2. RemoveStream(s) => \E q : streams' = [streams EXCEPT ![k] = q]
      BY <1>k DEF RemoveStream
    <3>3. Declare(s) \/ StreamEnds(s) \/ Retract(s) => streams' = streams
      BY DEF Declare, StreamEnds, Retract
    <3>. QED
      BY <3>1, <3>2, <3>3 DEF StreamNext
  <2>. QED
    BY <2>1, <2>2 DEF StreamLists
<1>5. ASSUME NEW n \in steady', phase[n] = "drain", n \in Nodes, streams[n] # <<>>,
             \A t \in Streams : In(streams[n], t) => spc[t] # "ended"
      PROVE  streams'[n] # <<>> /\ \A t \in Streams : In(streams'[n], t) => spc'[t] # "ended"
  <2>1. CASE n # k
    BY <1>3, <1>4, <1>5, <2>1
  <2>2. CASE n = k
    <3>0. streams[k] \in Seq(Streams) /\ (In(streams[k], s) <=> spc[s] \in {"declare", "open", "ended"})
      BY <1>k DEF StreamLists
    <3>1. CASE AddStream(s)
      <4>1. streams'[k] = Append(streams[k], s) /\ spc'[s] \in {"declare", "open"}
        BY <1>k, <1>2, <3>1 DEF AddStream, StreamLists
      <4>2. streams'[k] # <<>> /\ \A t : In(streams'[k], t) <=> In(streams[k], t) \/ t = s
        BY <3>0, <4>1, AppendIn
      <4>. QED
        BY <1>3, <1>5, <2>2, <4>1, <4>2
    <3>2. CASE Declare(s) \/ Retract(s)
      <4>1. streams' = streams /\ spc'[s] \in {"open", "done"}
        <5>1. Declare(s) => streams' = streams /\ spc' = [spc EXCEPT ![s] = "open"]
          BY DEF Declare
        <5>2. Retract(s) => streams' = streams /\ spc' = [spc EXCEPT ![s] = "done"]
          BY DEF Retract
        <5>. QED
          BY <3>2, <5>1, <5>2 DEF StreamLists
      <4>. QED
        BY <1>3, <1>5, <2>2, <4>1
    <3>3. CASE StreamEnds(s)
      <4>1. k \notin steady'
        BY <1>k, <1>5, <2>2, <3>3 DEF StreamEnds
      <4>. QED
        BY <2>2, <4>1
    <3>4. CASE RemoveStream(s)
      <4>1. spc[s] = "ended"
        BY <3>4 DEF RemoveStream
      <4>. QED
        BY <1>5, <2>2, <3>0, <4>1
    <3>. QED
      BY <3>1, <3>2, <3>3, <3>4 DEF StreamNext
  <2>. QED
    BY <2>1, <2>2
<1>. QED
  BY <1>1, <1>5 DEF Stays

\* A delivery that runs for a closed connection on a steady node reaches a local stream.
LEMMA LeavesDeliver ==
    ASSUME StreamLists, HandInv, Stays, Gone, NEW g \in Nodes \cup Conns, DeliverNext(g),
           NEW c \in snapshot, inst.at[c] \in steady \ overrun, phase[inst.at[c]] \in Stopping,
           c \in delivered', c \in delivered => Leaves(c)
    PROVE  Leaves(c)'
<1>. DEFINE m == <<c, "Disconnected">>
            n == inst.at[c]
<1>0. c \in Conns /\ m \in Msgs /\ n \in Nodes /\ inst \in Instances
  BY ServingPlaces DEF Gone, Msgs, HandInv, EnvTypes
<1>1. UNCHANGED <<inst, ups>> /\ out[g] # None /\ out \in [Nodes \cup Conns -> Envelopes \cup {None}]
      /\ got \in Seq(Msgs) /\ out[g].msg \in Msgs
  BY DEF DeliverNext, DeliverLocal, DeliverRoute, PublishNext, Drop, DeliverRest, HandInv, EnvTypes, Envelopes
<1>2. /\ got' = got \/ got' = Append(got, out[g].msg)
      /\ unsure' = unsure \/ unsure' = unsure \cup {out[g].msg}
  <2>1. CASE PublishNext(g)
    <3>1. [out[g] EXCEPT !.hop = out[g].hop + 1].msg = out[g].msg
      BY <1>1 DEF Envelopes
    <3>. QED
      BY <2>1, <3>1 DEF PublishNext
  <2>2. CASE DeliverLocal(g) \/ DeliverRoute(g) \/ Drop(g)
    BY <2>2 DEF DeliverLocal, DeliverRoute, Drop
  <2>. QED
    BY <2>1, <2>2 DEF DeliverNext
<1>3. In(got, m) => In(got', m)
  <2>1. got' = Append(got, out[g].msg) => \A y : In(got', y) <=> In(got, y) \/ y = out[g].msg
    BY <1>1, AppendIn
  <2>. QED
    BY <1>2, <2>1
<1>4. Held(out, g, out[g].msg)
  BY <1>1 DEF Held
<1>5. m \notin unsure => Single(out, inbox, got, m)
  BY <1>0 DEF HandInv, OneCopy
<1>6. m \notin unsure /\ In(got, m) => m \notin unsure'
  BY <1>2, <1>4, <1>5 DEF Single, Handed
<1>7. /\ \A d \in Conns : d # g => cpc'[d] = cpc[d] /\ out'[d] = out[d]
      /\ \A d \in Conns : d # g => (d \in delivered' => d \in delivered)
  <2>0. ViewTypes
    BY DEF HandInv
  <2>1. ASSUME NEW ok, Finish(g, ok)
        PROVE  \A d \in Conns : d # g => cpc'[d] = cpc[d] /\ out'[d] = out[d] /\ (d \in delivered' => d \in delivered)
    <3>1. out' = [out EXCEPT ![g] = None] /\ \A d \in Conns : d # g => cpc'[d] = cpc[d]
      BY <1>1, <2>0, <2>1, FinishMoves
    <3>. QED
      BY <1>1, <2>1, <3>1 DEF Finish
  <2>2. CASE \E e : out' = [out EXCEPT ![g] = e] /\ UNCHANGED <<cpc, delivered>>
    BY <1>1, <2>2
  <2>3. \/ \E ok : Finish(g, ok)
        \/ \E e : out' = [out EXCEPT ![g] = e] /\ UNCHANGED <<cpc, delivered>>
    <3>1. CASE DeliverLocal(g) \/ Drop(g)
      BY <3>1 DEF DeliverLocal, Drop
    <3>2. CASE DeliverRoute(g)
      BY <3>2 DEF DeliverRoute, connVars
    <3>3. CASE PublishNext(g)
      BY <3>3 DEF PublishNext, connVars
    <3>. QED
      BY <3>1, <3>2, <3>3 DEF DeliverNext
  <2>. QED
    BY <2>1, <2>2, <2>3
<1>. HIDE DEF m, n
<1>8. CASE g # c
  <2>1. Leaves(c) /\ cpc'[c] = cpc[c] /\ out'[c] = out[c]
    BY <1>0, <1>7, <1>8
  <2>2. CASE cpc[c] \in {"hello", "open", "leaving"}
    BY <2>1, <2>2 DEF Leaves
  <2>3. CASE cpc[c] = "bye" /\ out[c] = Envelope(c, "Disconnected") /\ m \notin unsure
    <3>1. Held(out, c, m)
      BY <1>0, <2>3, NoEnvelope DEF Held, Envelope, m
    <3>2. out[g].msg # m
      BY <1>0, <1>4, <1>5, <1>8, <2>3, <3>1 DEF Single
    <3>3. m \notin unsure'
      BY <1>2, <2>3, <3>2
    <3>. QED
      BY <2>1, <2>3, <3>3 DEF Leaves, m, Envelope
  <2>4. CASE cpc[c] = "done" /\ In(got, m) /\ m \notin unsure
    BY <1>3, <1>6, <2>1, <2>4 DEF Leaves, Handed, m
  <2>. QED
    BY <2>1, <2>2, <2>3, <2>4 DEF Leaves, Handed, m
<1>9. CASE g = c
  <2>1. CASE cpc[c] \in {"hello", "open", "leaving"}
    <3>1. cpc'[c] \in {"hello", "open", "leaving"}
      <4>1. ASSUME NEW ok, Finish(c, ok) PROVE cpc'[c] \in {"hello", "open", "leaving"}
        BY <1>0, <2>1, <4>1 DEF Finish, HandInv, ViewTypes
      <4>2. (\E ok : Finish(c, ok)) \/ cpc' = cpc
        <5>1. CASE DeliverLocal(g) \/ Drop(g)
          BY <1>9, <5>1 DEF DeliverLocal, Drop
        <5>2. CASE DeliverRoute(g)
          BY <5>2 DEF DeliverRoute, connVars
        <5>3. CASE PublishNext(g)
          BY <1>9, <5>3 DEF PublishNext, connVars
        <5>. QED
          BY <5>1, <5>2, <5>3 DEF DeliverNext
      <4>. QED
        BY <2>1, <4>1, <4>2
    <3>. QED
      BY <3>1 DEF Leaves
  <2>. SUFFICES ASSUME cpc[c] \notin {"hello", "open", "leaving"} PROVE Leaves(c)'
    BY <2>1
  <2>2. c \in delivered /\ Leaves(c)
    <3>1. c \notin delivered => c \notin delivered'
      <4>1. ASSUME NEW ok, Finish(c, ok) PROVE delivered' = delivered
        BY <4>1 DEF Finish
      <4>2. (\E ok : Finish(c, ok)) \/ delivered' = delivered
        <5>1. CASE DeliverLocal(g) \/ Drop(g)
          BY <1>9, <5>1 DEF DeliverLocal, Drop
        <5>2. CASE DeliverRoute(g)
          BY <5>2 DEF DeliverRoute, connVars
        <5>3. CASE PublishNext(g)
          BY <1>9, <5>3 DEF PublishNext, connVars
        <5>. QED
          BY <5>1, <5>2, <5>3 DEF DeliverNext
      <4>. QED
        BY <4>1, <4>2
    <3>. QED
      BY <3>1
  <2>3. CASE cpc[c] = "done" /\ In(got, m) /\ m \notin unsure
    <3>1. cpc'[c] = "done"
      <4>1. ASSUME NEW ok, Finish(c, ok) PROVE cpc' = cpc
        BY <2>3, <4>1 DEF Finish
      <4>2. (\E ok : Finish(c, ok)) \/ cpc' = cpc
        <5>1. CASE DeliverLocal(g) \/ Drop(g)
          BY <1>9, <5>1 DEF DeliverLocal, Drop
        <5>2. CASE DeliverRoute(g)
          BY <5>2 DEF DeliverRoute, connVars
        <5>3. CASE PublishNext(g)
          BY <1>9, <5>3 DEF PublishNext, connVars
        <5>. QED
          BY <5>1, <5>2, <5>3 DEF DeliverNext
      <4>. QED
        BY <2>3, <4>1, <4>2
    <3>. QED
      BY <1>3, <1>6, <2>3, <3>1 DEF Leaves, Handed, m
  <2>4. CASE cpc[c] = "bye" /\ out[c] = Envelope(c, "Disconnected") /\ m \notin unsure
    <3>1. phase[n] = "drain"
      BY <2>4 DEF Gone, Stopping, n
    <3>2. streams[n] # <<>> /\ \A s \in Streams : In(streams[n], s) => spc[s] # "ended"
      BY <3>1 DEF Stays, n
    <3>3. At(g) = n
      BY <1>0, <1>9, ServingAssumption DEF At, n
    <3>4. out[g].looping = FALSE /\ out[g].msg = m
      BY <1>9, <2>4 DEF Envelope, m
    <3>5. DeliverLocal(g)
      BY <3>2, <3>3, <3>4 DEF DeliverNext, DeliverRoute, PublishNext, Drop
    <3>6. In(streams[n], LocalStream(n)) /\ LocalStream(n) \in Streams
      <4>1. streams[n] \in Seq(Streams) /\ Len(streams[n]) \in Nat \ {0} /\ inst.hash \in Nat
        BY <1>0, <3>2, ServingAssumption DEF StreamLists
      <4>2. (inst.hash % Len(streams[n])) + 1 \in 1..Len(streams[n])
        BY <4>1
      <4>. QED
        BY <4>1, <4>2 DEF LocalStream, In
    <3>7. spc[LocalStream(n)] \in {"declare", "open"}
      BY <1>0, <3>2, <3>6 DEF StreamLists
    <3>8. got' = Append(got, m) /\ Finish(c, TRUE) /\ unsure' = unsure
      BY <1>9, <3>3, <3>4, <3>5, <3>7 DEF DeliverLocal
    <3>9. In(got', m)
      BY <1>0, <1>1, <3>8, AppendIn
    <3>10. cpc'[c] = "done"
      BY <1>0, <2>4, <3>8 DEF Finish, HandInv, ViewTypes
    <3>. QED
      BY <2>4, <3>8, <3>9, <3>10 DEF Leaves, Handed, m
  <2>. QED
    BY <2>2, <2>3, <2>4 DEF Leaves, Handed, m
<1>. QED
  BY <1>8, <1>9

LEMMA StopStill ==
    ASSUME StopInv, UNCHANGED <<inst, snapshot, phase, overrun, cpc, delivered, out, got, unsure>>,
           steady' \subseteq steady, Stays'
    PROVE  StopInv'
<1>1. Gone'
  BY GoneSame DEF StopInv, Gone
<1>2. \A c : Leaves(c) => Leaves(c)'
  BY LeavesSame
<1>3. Tells'
  BY <1>2 DEF StopInv, Tells
<1>. QED
  BY <1>1, <1>3 DEF StopInv

LEMMA StopDeliver ==
    ASSUME StreamLists, HandInv, StopInv, NEW g \in Nodes \cup Conns, DeliverNext(g)
    PROVE  StopInv'
<1>1. UNCHANGED <<inst, ups, snapshot, phase, overrun, steady, streams, spc>>
  BY DEF DeliverNext, DeliverLocal, DeliverRoute, PublishNext, Drop, DeliverRest, streamVars, stopVars
<1>2. Stays'
  BY <1>1, StaysSame DEF StopInv
<1>3. \A c \in Conns : /\ cpc[c] \notin {"new", "shake"} => cpc'[c] \notin {"new", "shake"}
                       /\ cpc[c] = "done" => cpc'[c] = "done"
  <2>1. ASSUME NEW ok, Finish(g, ok), NEW c \in Conns
        PROVE  /\ cpc[c] \notin {"new", "shake"} => cpc'[c] \notin {"new", "shake"}
               /\ cpc[c] = "done" => cpc'[c] = "done"
    BY <2>1 DEF Finish, HandInv, ViewTypes
  <2>2. (\E ok : Finish(g, ok)) \/ cpc' = cpc
    <3>1. CASE DeliverLocal(g) \/ Drop(g)
      BY <3>1 DEF DeliverLocal, Drop
    <3>2. CASE DeliverRoute(g)
      BY <3>2 DEF DeliverRoute, connVars
    <3>3. CASE PublishNext(g)
      BY <3>3 DEF PublishNext, connVars
    <3>. QED
      BY <3>1, <3>2, <3>3 DEF DeliverNext
  <2>. QED
    BY <2>1, <2>2
<1>4. Gone'
  BY <1>1, <1>3, GoneSame DEF StopInv, Gone
<1>5. Tells'
  <2>1. ASSUME NEW c \in snapshot, c \in delivered', inst.at[c] \in steady \ overrun,
               phase[inst.at[c]] \in Stopping, c \in delivered => Leaves(c)
        PROVE  Leaves(c)'
    BY <2>1, LeavesDeliver DEF StopInv
  <2>. QED
    BY <1>1, <2>1, TellsSame DEF StopInv
<1>. QED
  BY <1>2, <1>4, <1>5 DEF StopInv

LEMMA StopConn ==
    ASSUME HandInv, StopInv, NEW d \in Conns, ConnNext(d)
    PROVE  StopInv'
<1>1. UNCHANGED <<inst, snapshot, phase, overrun, steady, streams, spc, got, unsure, delivered>>
  BY DEF ConnNext, Accept, AddConn, SendUp, ReadEnds, RemoveConn, ConnRest, streamVars
<1>2. Stays'
  BY <1>1, StaysSame DEF StopInv
<1>3. out \in [Nodes \cup Conns -> Envelopes \cup {None}] /\ cpc \in [Conns -> CPhases]
  BY DEF HandInv, EnvTypes, ViewTypes, CPhases
<1>4. \A c \in Conns : c # d => cpc'[c] = cpc[c] /\ out'[c] = out[c]
  <2>1. out' = out \/ \E e : out' = [out EXCEPT ![d] = e]
    BY DEF ConnNext, Accept, AddConn, SendUp, ReadEnds, RemoveConn
  <2>2. cpc' = cpc \/ \E x : cpc' = [cpc EXCEPT ![d] = x]
    BY DEF ConnNext, Accept, AddConn, SendUp, ReadEnds, RemoveConn
  <2>. QED
    BY <1>3, <2>1, <2>2
<1>5. ASSUME d \in snapshot
      PROVE  /\ cpc[d] \in {"open", "leaving"} /\ cpc'[d] \notin {"new", "shake"}
             /\ d \in delivered => Leaves(d)'
  <2>1. cpc[d] \notin {"new", "shake"}
    BY <1>5 DEF StopInv, Gone
  <2>2. CASE SendUp(d)
    <3>1. cpc' = cpc /\ cpc[d] = "open"
      BY <2>2 DEF SendUp
    <3>. QED
      BY <3>1 DEF Leaves
  <2>3. CASE ReadEnds(d)
    <3>1. cpc[d] = "open" /\ cpc'[d] = "leaving"
      BY <1>3, <2>3 DEF ReadEnds
    <3>. QED
      BY <3>1 DEF Leaves
  <2>4. CASE RemoveConn(d)
    <3>1. cpc[d] = "leaving" /\ cpc'[d] \in {"bye", "done"}
      BY <1>3, <2>4 DEF RemoveConn
    <3>2. ASSUME d \in delivered PROVE Leaves(d)'
      <4>1. cpc'[d] = "bye" /\ out'[d] = Envelope(d, "Disconnected")
        BY <1>3, <2>4, <3>2 DEF RemoveConn
      <4>2. <<d, "Disconnected">> \in Msgs /\ Unborn(cpc, ups, <<d, "Disconnected">>)
        BY <3>1 DEF Msgs, Unborn
      <4>3. <<d, "Disconnected">> \notin unsure
        BY <4>2 DEF HandInv, Births
      <4>. QED
        BY <1>1, <4>1, <4>3 DEF Leaves, Envelope
    <3>. QED
      BY <3>1, <3>2
  <2>5. CASE Accept(d) \/ AddConn(d)
    BY <2>1, <2>5 DEF Accept, AddConn
  <2>. QED
    BY <2>2, <2>3, <2>4, <2>5 DEF ConnNext
<1>6. Gone'
  <2>1. \A c \in snapshot : c \in Conns /\ cpc[c] \notin {"new", "shake"}
    BY DEF StopInv, Gone
  <2>2. \A c \in snapshot : cpc'[c] \notin {"new", "shake"} /\ (cpc[c] = "done" => cpc'[c] = "done")
    BY <1>4, <1>5, <2>1
  <2>. QED
    BY <1>1, <2>2, GoneSame DEF StopInv
<1>7. Tells'
  <2>1. ASSUME NEW c \in snapshot, c \in delivered, Leaves(c) PROVE Leaves(c)'
    <3>1. CASE c = d
      BY <1>5, <2>1, <3>1
    <3>2. CASE c # d
      <4>1. c \in Conns
        BY DEF StopInv, Gone
      <4>. QED
        BY <1>1, <1>4, <2>1, <3>2, <4>1, LeavesSame
    <3>. QED
      BY <3>1, <3>2
  <2>. QED
    BY <1>1, <2>1, TellsSame DEF StopInv
<1>. QED
  BY <1>2, <1>6, <1>7 DEF StopInv

\* The phases of shutdown: only closing and waiting touch what is kept of the connections.
LEMMA StopPhase ==
    ASSUME StreamLists, NodeTypes, HandInv, StopInv, NEW n \in Nodes,
           Signal(n) \/ HttpShutdown(n) \/ CloseLocalConns(n) \/ WaitConnsDrained(n) \/ GrpcStop(n)
    PROVE  StopInv'
<1>1. UNCHANGED <<inst, streams, spc, cpc, delivered, out, got, unsure>>
  BY DEF Signal, HttpShutdown, CloseLocalConns, WaitConnsDrained, GrpcStop, StopRest, connVars
<1>2. phase \in [Nodes -> Phases] /\ inst \in Instances
  BY DEF NodeTypes, Phases, StreamLists
<1>3. \A c : Leaves(c) => Leaves(c)'
  BY <1>1, LeavesSame
<1>4. CASE Signal(n) \/ HttpShutdown(n)
  <2>1. UNCHANGED <<snapshot, overrun, steady>> /\ phase[n] \notin Stopping \cup {"down"}
    BY <1>4 DEF Signal, HttpShutdown, Stopping
  <2>2. \A k \in Nodes : k # n => phase'[k] = phase[k]
    BY <1>2, <1>4 DEF Signal, HttpShutdown
  <2>3. \A k \in steady : k \in Nodes /\ k # n
    BY <2>1 DEF StopInv, Stays
  <2>4. \A c \in snapshot : c \in Conns /\ inst.at[c] \in Nodes /\ inst.at[c] # n
    BY <1>2, <2>1, ServingPlaces DEF StopInv, Gone
  <2>5. Gone'
    BY <1>1, <2>1, <2>2, <2>4 DEF StopInv, Gone
  <2>6. Stays'
    BY <1>1, <2>1, <2>2, <2>3 DEF StopInv, Stays
  <2>7. Tells'
    BY <1>1, <1>3, <2>1, <2>2, <2>3 DEF StopInv, Tells
  <2>. QED
    BY <2>5, <2>6, <2>7 DEF StopInv
<1>5. CASE GrpcStop(n)
  <2>1. UNCHANGED <<snapshot, overrun, steady>> /\ phase[n] = "stop"
    BY <1>5 DEF GrpcStop
  <2>2. phase'[n] = "deregister" /\ \A k \in Nodes : k # n => phase'[k] = phase[k]
    BY <1>2, <1>5 DEF GrpcStop
  <2>3. \A c \in snapshot : c \in Conns /\ inst.at[c] \in Nodes
    BY <1>2, ServingPlaces DEF StopInv, Gone
  <2>4. Gone'
    BY <1>1, <2>1, <2>2, <2>3 DEF StopInv, Gone, Stopping
  <2>5. Stays'
    BY <1>1, <2>1, <2>2 DEF StopInv, Stays, Stopping
  <2>6. Tells'
    <3>1. \A k \in steady : k \in Nodes
      BY DEF StopInv, Stays
    <3>. QED
      BY <1>1, <1>3, <2>1, <2>2, <3>1 DEF StopInv, Tells, Stopping
  <2>. QED
    BY <2>4, <2>5, <2>6 DEF StopInv
<1>6. CASE WaitConnsDrained(n)
  <2>1. UNCHANGED <<snapshot, steady>> /\ phase[n] = "drain"
    BY <1>6 DEF WaitConnsDrained
  <2>2. phase'[n] = "stop" /\ \A k \in Nodes : k # n => phase'[k] = phase[k]
    BY <1>2, <1>6 DEF WaitConnsDrained
  <2>3. /\ overrun \subseteq overrun' /\ overrun' \subseteq overrun \cup {n}
        /\ n \in overrun' \/ UnsettledConns(n) = {}
    BY <1>6 DEF WaitConnsDrained
  <2>4. \A c \in snapshot : c \in Conns /\ inst.at[c] \in Nodes
    BY <1>2, ServingPlaces DEF StopInv, Gone
  <2>5. ASSUME NEW c \in snapshot, inst.at[c] = n, n \notin overrun' PROVE cpc[c] = "done"
    <3>1. cpc[c] \notin {"hello", "open", "leaving", "bye"}
      BY <2>3, <2>4, <2>5 DEF UnsettledConns, Table, Teardowns
    <3>2. cpc[c] \notin {"new", "shake"}
      BY DEF StopInv, Gone
    <3>3. cpc[c] \in CPhases
      BY <2>4 DEF ViewTypes, HandInv, CPhases
    <3>. QED
      BY <3>1, <3>2, <3>3 DEF CPhases
  <2>6. Gone'
    BY <1>1, <2>1, <2>2, <2>3, <2>4, <2>5 DEF StopInv, Gone, Stopping
  <2>7. Stays'
    BY <1>1, <2>1, <2>2 DEF StopInv, Stays, Stopping
  <2>8. Tells'
    <3>1. \A k \in steady : k \in Nodes
      BY DEF StopInv, Stays
    <3>. QED
      BY <1>1, <1>3, <2>1, <2>2, <2>3, <3>1 DEF StopInv, Tells, Stopping
  <2>. QED
    BY <2>6, <2>7, <2>8 DEF StopInv
<1>7. CASE CloseLocalConns(n)
  <2>1. overrun' = overrun /\ phase[n] = "close" /\ snapshot' = snapshot \cup Table(n)
    BY <1>7 DEF CloseLocalConns
  <2>2. phase'[n] = (IF Table(n) = {} THEN "stop" ELSE "drain") /\ \A k \in Nodes : k # n => phase'[k] = phase[k]
    BY <1>2, <1>7 DEF CloseLocalConns
  <2>3. \A c \in snapshot : c \in Conns /\ inst.at[c] \in Nodes /\ inst.at[c] # n
    BY <1>2, <2>1, ServingPlaces DEF StopInv, Gone, Stopping
  <2>4. \A c \in Table(n) : c \in Conns /\ inst.at[c] = n /\ cpc[c] \in {"hello", "open", "leaving"}
    BY DEF Table
  <2>5. \/ steady' = steady
        \/ steady' = steady \cup {n} /\ streams[n] # <<>> /\ Healthy(n)
    BY <1>7 DEF CloseLocalConns
  <2>6. \A k \in steady : k \in Nodes /\ k # n
    BY <2>1 DEF StopInv, Stays, Stopping
  <2>7. Gone'
    <3>1. \A c \in snapshot' : c \in snapshot \/ (c \in Table(n) /\ phase'[n] = "drain")
      BY <2>1, <2>2
    <3>. QED
      BY <1>1, <2>1, <2>2, <2>3, <2>4, <3>1 DEF StopInv, Gone, Stopping
  <2>8. Stays'
    <3>1. Healthy(n) => \A s \in Streams : In(streams[n], s) => spc[s] # "ended"
      BY DEF Healthy, ToSet, In
    <3>2. \A k \in steady' : k \in steady \/ (k = n /\ streams[n] # <<>> /\ Healthy(n))
      BY <2>5
    <3>. QED
      BY <1>1, <2>2, <2>6, <3>1, <3>2 DEF StopInv, Stays, Stopping
  <2>9. Tells'
    <3>1. ASSUME NEW k \in steady' \ overrun', phase'[k] \in Stopping, NEW c \in snapshot' \cap delivered',
                 inst.at[c] = k
          PROVE  Leaves(c)'
      <4>1. CASE c \in Table(n)
        BY <1>1, <2>4, <4>1 DEF Leaves
      <4>2. CASE c \in snapshot
        <5>1. k # n /\ k \in steady \ overrun /\ phase[k] \in Stopping
          BY <2>1, <2>2, <2>3, <2>5, <3>1, <4>2
        <5>2. Leaves(c)
          BY <1>1, <3>1, <4>2, <5>1 DEF StopInv, Tells
        <5>. QED
          BY <1>3, <5>2
      <4>. QED
        BY <2>1, <4>1, <4>2
    <3>. QED
      BY <1>1, <3>1 DEF Tells
  <2>. QED
    BY <2>7, <2>8, <2>9 DEF StopInv
<1>. QED
  BY <1>4, <1>5, <1>6, <1>7

LEMMA StopExit ==
    ASSUME StreamLists, NodeTypes, HandInv, StopInv, NEW n \in Nodes, Deregister(n) \/ Crash(n)
    PROVE  StopInv'
<1>1. UNCHANGED <<inst, snapshot, overrun, steady, delivered, got, unsure>> /\ Exit(n)
  BY DEF Deregister, Crash, StopRest
<1>2. phase'[n] = "down" /\ \A k \in Nodes : k # n => phase'[k] = phase[k] /\ streams'[k] = streams[k]
  BY <1>1 DEF Exit, NodeTypes, StreamLists
<1>3. \A s \in Streams : inst.at[s] # n => spc'[s] = spc[s]
  BY <1>1 DEF Exit, StreamsAt
<1>4. \A c \in Conns : inst.at[c] # n => cpc'[c] = cpc[c] /\ out'[c] = out[c]
  <2>1. DOMAIN out = Nodes \cup Conns /\ \A c \in Conns : c # n
    BY ServingAssumption DEF HandInv, EnvTypes
  <2>. QED
    BY <1>1, <2>1 DEF Exit
<1>5. \A c \in Conns : cpc[c] \notin {"new", "shake"} => cpc'[c] \notin {"new", "shake"}
  BY <1>1 DEF Exit
<1>6. \A c \in snapshot : c \in Conns /\ inst.at[c] \in Nodes
  BY ServingPlaces DEF StopInv, Gone, StreamLists
<1>7. Gone'
  BY <1>1, <1>2, <1>4, <1>5, <1>6 DEF StopInv, Gone
<1>8. Stays'
  <2>1. ASSUME NEW k \in steady, k # n, phase[k] = "drain", NEW s \in Streams, In(streams'[k], s)
        PROVE  spc'[s] # "ended"
    <3>1. k \in Nodes /\ In(streams[k], s)
      BY <1>2, <2>1 DEF StopInv, Stays
    <3>2. inst.at[s] = k
      BY <3>1 DEF StreamLists
    <3>. QED
      BY <1>3, <2>1, <3>1, <3>2 DEF StopInv, Stays
  <2>. QED
    BY <1>1, <1>2, <2>1 DEF StopInv, Stays
<1>9. Tells'
  <2>1. ASSUME NEW k \in steady \ overrun, phase'[k] \in Stopping, NEW c \in snapshot \cap delivered,
               inst.at[c] = k
        PROVE  Leaves(c)'
    <3>1. k # n /\ c \in Conns /\ phase[k] \in Stopping
      BY <1>2, <1>6, <2>1 DEF Stopping
    <3>2. Leaves(c)
      BY <2>1, <3>1 DEF StopInv, Tells
    <3>. QED
      BY <1>1, <1>4, <2>1, <3>1, <3>2, LeavesSame
  <2>. QED
    BY <1>1, <2>1 DEF Tells
<1>. QED
  BY <1>7, <1>8, <1>9 DEF StopInv

LEMMA StopInvNext == ASSUME ServingInv, HandInv, StopInv, Next PROVE StopInv'
<1>0. StreamLists /\ NodeTypes
  BY DEF ServingInv
<1>1. ASSUME NEW s \in Streams, StreamNext(s) PROVE StopInv'
  <2>1. UNCHANGED <<inst, snapshot, phase, overrun, cpc, delivered, out, got, unsure>> /\ steady' \subseteq steady
    BY <1>1 DEF StreamNext, AddStream, Declare, StreamEnds, RemoveStream, Retract, busVars, connVars, stopVars
  <2>2. Stays'
    BY <1>0, <1>1, StaysStream DEF StopInv
  <2>. QED
    BY <2>1, <2>2, StopStill
<1>2. ASSUME NEW n \in Nodes, LivenessNext(n) PROVE StopInv'
  <2>1. UNCHANGED <<inst, snapshot, phase, overrun, cpc, delivered, out, got, unsure, steady, streams, spc>>
    BY <1>2 DEF LivenessNext, Tick, Beat, Refresh, Signalled, WriteServingTable, Stale, LvRest, busVars,
                connVars, streamVars, stopVars
  <2>. QED
    BY <2>1, StaysSame, StopStill DEF StopInv
<1>3. ASSUME NEW n \in Nodes, HandleEnvelope(n) PROVE StopInv'
  <2>1. UNCHANGED <<inst, snapshot, phase, overrun, cpc, delivered, got, unsure, steady, streams, spc>>
    BY <1>3 DEF HandleEnvelope, DeliverRest, connVars, streamVars, stopVars
  <2>2. \A c \in Conns : out'[c] = out[c]
    <3>1. n \notin Conns
      BY ServingAssumption
    <3>. QED
      BY <1>3, <3>1 DEF HandleEnvelope, HandInv, EnvTypes
  <2>3. \A c \in snapshot : Leaves(c) => Leaves(c)'
    <3>1. \A c \in snapshot : c \in Conns
      BY DEF StopInv, Gone
    <3>. QED
      BY <2>1, <2>2, <3>1, LeavesSame
  <2>4. Gone'
    BY <2>1, GoneSame DEF StopInv, Gone
  <2>5. Stays'
    BY <2>1, StaysSame DEF StopInv
  <2>6. Tells'
    BY <2>1, <2>3 DEF StopInv, Tells
  <2>. QED
    BY <2>4, <2>5, <2>6 DEF StopInv
<1>4. ASSUME NEW g \in Nodes \cup Conns, DeliverNext(g) PROVE StopInv'
  BY <1>0, <1>4, StopDeliver
<1>5. ASSUME NEW c \in Conns, ConnNext(c) PROVE StopInv'
  BY <1>5, StopConn
<1>6. ASSUME NEW n \in Nodes, ShutdownNext(n) PROVE StopInv'
  BY <1>0, <1>6, StopPhase, StopExit DEF ShutdownNext
<1>. QED
  BY <1>1, <1>2, <1>3, <1>4, <1>5, <1>6 DEF Next

LEMMA StopInvSpec == Spec => []StopInv
<1>1. Init => StopInv
  BY DEF Init, StopInv, Gone, Stays, Tells
<1>2. ServingInv /\ HandInv /\ StopInv /\ [Next]_vars => StopInv'
  <2>. SUFFICES ASSUME ServingInv, HandInv, StopInv, [Next]_vars PROVE StopInv'
    OBVIOUS
  <2>1. CASE UNCHANGED vars
    <3>1. UNCHANGED <<inst, snapshot, phase, overrun, cpc, delivered, out, got, unsure, steady, streams, spc>>
      BY <2>1 DEF vars, streamVars, stopVars, connVars, busVars
    <3>. QED
      BY <3>1, StaysSame, StopStill DEF StopInv
  <2>. QED
    BY <2>1, StopInvNext
<1>. QED
  BY <1>1, <1>2, ServingInvSpec, HandInvSpec, PTL DEF Spec

(* When shutdown stops gRPC, the business was told once of the end of every*)
(* connection that shutdown closed and it knew of, if its streams stayed   *)
(* and the budget was enough, for any number of nodes, streams and         *)
(* connections (CloseLocalConns, waitConnsDrained, Hub.RemoveConn).        *)
THEOREM ShutdownTells == Spec => []ShutdownHandsOver
<1>1. HandInv /\ StopInv => ShutdownHandsOver
  <2>. SUFFICES ASSUME HandInv, StopInv, NEW n \in steady \ overrun, phase[n] \in {"stop", "deregister"},
                       NEW c \in snapshot \cap delivered, inst.at[c] = n
                PROVE  Count(<<c, "Disconnected">>) = 1
    BY DEF ShutdownHandsOver
  <2>1. c \in Conns /\ cpc[c] = "done"
    BY DEF StopInv, Gone
  <2>2. Leaves(c)
    BY DEF StopInv, Tells, Stopping
  <2>. DEFINE m == <<c, "Disconnected">>
  <2>3. In(got, m) /\ m \notin unsure /\ m \in Msgs
    BY <2>1, <2>2 DEF Leaves, Handed, Msgs
  <2>4. got \in Seq(Msgs) /\ \A i, j \in DOMAIN got : got[i] = m /\ got[j] = m => i = j
    BY <2>3 DEF HandInv, EnvTypes, OneCopy, Single
  <2>. HIDE DEF m
  <2>5. Count(m) = 1
    BY <2>3, <2>4, CountOnce
  <2>. QED
    BY <2>5 DEF m
<1>. QED
  BY <1>1, HandInvSpec, StopInvSpec, PTL

=============================================================================
