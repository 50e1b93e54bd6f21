------------------------------ MODULE ImStream ------------------------------
(***************************************************************************)
(* Requests and frames on the stream between a business server and an      *)
(* fp-im node.                                                             *)
(*                                                                         *)
(* The SDK (sdk/im Server) keeps one stream at a time: runLoop dials,      *)
(* runOnce reads it until it breaks, heartbeat pings it, consumeLoop runs  *)
(* the business callbacks on the frames runOnce queued, and any goroutine  *)
(* may call, callbacks included.  A call registers a channel under its id, *)
(* sends, and waits for the result, for the stream's end or for a timeout. *)
(* The node (imgrpc.Connect) reads requests, handles each in a worker of   *)
(* its own, of which there are at most Workers, and writes the results;    *)
(* the hub writes frames on the same stream.                               *)
(*                                                                         *)
(* Both directions of the transport hold at most Window messages: a sender *)
(* waits.  That bound, the workers and the queue of frames are what could  *)
(* make the two sides wait for each other.                                 *)
(***************************************************************************)
EXTENDS Integers, Sequences, FiniteSets

CONSTANTS
    Calls,             \* calls of business goroutines
    Nested,            \* calls made inside callbacks
    Pings,             \* heartbeats
    MaxStreams,        \* streams are numbered up to this bound
    Setups,            \* the instances to consider (see SdkInit)
    NoCall             \* no request

ASSUME StreamAssumption ==
    /\ MaxStreams \in Nat \ {0}
    /\ Calls \cap Nested = {} /\ Calls \cap Pings = {} /\ Nested \cap Pings = {}
    /\ NoCall \notin Calls \cup Nested \cup Pings
    /\ \A i \in Setups :
         /\ i.part \subseteq Calls \cup Nested \cup Pings \* the requests made
         /\ i.streams \in 1..MaxStreams  \* bound: streams dialled
         /\ i.frames \in Nat          \* bound: frames (Inbound, Event) the hub writes
         /\ i.window \in Nat \ {0}    \* messages in flight per direction
         /\ i.workers \in Nat \ {0}   \* Deps.Workers
         /\ i.queue \in Nat \ {0}     \* frameQueueCap
         /\ i.misses \in Nat \ {0}    \* heartbeatMisses
         /\ i.faults \in Nat          \* bound: faults
         /\ i.kinds \subseteq {"break", "stall", "stop", "close", "timeout"}

Requests == Calls \cup Nested \cup Pings
Gens     == 1..MaxStreams
Ready    == "ready"
Frame    == "frame"

VARIABLES
    setup,
    loop,              \* runLoop and runOnce
    gen,               \* the stream dialled last
    stream,            \* Server.stream: a stream, or 0 for nil
    link,              \* per stream: the transport
    toNode, toSdk,     \* per stream: what travels
    callPc, cgen,      \* per request: where its call is, the stream it took
    pending, chan,     \* Server.pending; per request: its channel
    frames,            \* how many frames Server.frames holds
    cons,              \* consumeLoop
    nest,              \* the call the callback waits for
    hb, misses,        \* the ping the heartbeat waits for; misses in a row
    serverClosed,      \* Close was called
    hpc, held, workers, \* per stream: Connect, the request it has read, its workers
    stopping,          \* streams whose node is stopping
    sent, dropped,     \* frames written by the hub; Server.dropped
    troubles           \* how many faults happened

sdkVars  == <<loop, gen, stream, frames, hb, misses, serverClosed>>
callVars == <<callPc, cgen, pending, chan>>
consVars == <<cons, nest>>
nodeVars == <<hpc, held, workers, stopping, sent>>
netVars  == <<link, toNode, toSdk>>
allVars  == <<setup, sdkVars, callVars, consVars, nodeVars, netVars, dropped, troubles>>

Returned == {"answered", "unavailable"}

(* Types; a queue never exceeds its bound, and the stream that calls use is*)
(* the one being read.                                                     *)
SdkTypeOK ==
    /\ loop \in {"dial", "recv", "drop", "backoff", "ended"}
    /\ gen \in 0..MaxStreams /\ stream \in {0, gen}
    /\ stream # 0 => loop = "recv"
    /\ link \in [Gens -> {"none", "open", "stalled", "cut"}]
    /\ callPc \in [Requests -> {"idle", "send", "wait"} \cup Returned]
    /\ cgen \in [Requests -> 0..MaxStreams]
    /\ chan \in [Requests -> {"empty", "result", "closed"}]
    /\ pending \subseteq Requests
    /\ frames \in 0..setup.queue
    /\ sent \in 0..setup.frames /\ dropped \in 0..sent
    /\ cons \in {"idle", "callback", "ended"}
    /\ nest \in Nested \cup {NoCall} /\ hb \in Pings \cup {NoCall}
    /\ misses \in 0..setup.misses
    /\ hpc \in [Gens -> {"none", "new", "serve", "closing", "done"}]
    /\ \A g \in Gens :
         /\ Len(toNode[g]) <= setup.window /\ Len(toSdk[g]) <= setup.window
         /\ Cardinality(workers[g]) <= setup.workers
         /\ held[g] \in Requests \cup {NoCall}

SdkInit ==
    /\ setup \in Setups
    /\ loop = "dial" /\ gen = 0 /\ stream = 0
    /\ link = [g \in Gens |-> "none"]
    /\ toNode = [g \in Gens |-> <<>>] /\ toSdk = [g \in Gens |-> <<>>]
    /\ callPc = [c \in Requests |-> IF c \in setup.part THEN "idle" ELSE "unavailable"]
    /\ cgen = [c \in Requests |-> 0]
    /\ pending = {} /\ chan = [c \in Requests |-> "empty"]
    /\ frames = 0 /\ cons = "idle" /\ nest = NoCall
    /\ hb = NoCall /\ misses = 0 /\ serverClosed = FALSE
    /\ hpc = [g \in Gens |-> "none"] /\ held = [g \in Gens |-> NoCall]
    /\ workers = [g \in Gens |-> {}] /\ stopping = {}
    /\ sent = 0 /\ dropped = 0 /\ troubles = 0

Trouble(kind) == kind \in setup.kinds /\ troubles < setup.faults /\ troubles' = troubles + 1

-----------------------------------------------------------------------------
(* runLoop and runOnce.                                                    *)

Dial ==
    /\ loop = "dial" /\ ~serverClosed /\ gen < setup.streams
    /\ gen' = gen + 1 /\ loop' = "recv" /\ misses' = 0
    /\ link' = [link EXCEPT ![gen + 1] = "open"]
    /\ hpc' = [hpc EXCEPT ![gen + 1] = "new"]
    /\ UNCHANGED <<setup, stream, frames, hb, serverClosed, callVars, consVars, held, workers,
                   stopping, sent, toNode, toSdk, dropped, troubles>>

(* What runOnce reads next, taken off the transport.                       *)
Incoming(m) ==
    /\ loop = "recv" /\ link[gen] = "open" /\ toSdk[gen] # <<>> /\ m = Head(toSdk[gen])
    /\ toSdk' = [toSdk EXCEPT ![gen] = Tail(@)]

RecvReady ==
    /\ Incoming(Ready)
    /\ stream' = gen
    /\ UNCHANGED <<setup, loop, gen, frames, hb, misses, serverClosed, callVars, consVars, nodeVars,
                   link, toNode, dropped, troubles>>

(* A result wakes the call that is still registered; nobody else is.       *)
RecvResult(c) ==
    /\ Incoming(c)
    /\ pending' = pending \ {c}
    /\ chan' = IF c \in pending THEN [chan EXCEPT ![c] = "result"] ELSE chan
    /\ UNCHANGED <<setup, sdkVars, callPc, cgen, consVars, nodeVars, link, toNode, dropped, troubles>>

(* Variant: the reader waits for room.                                     *)
EnqueueWaits ==
    /\ frames < setup.queue
    /\ frames' = frames + 1 /\ UNCHANGED dropped

(* A full queue drops the frame and counts it; the reader never waits.     *)
Enqueue ==
    IF frames < setup.queue
      THEN frames' = frames + 1 /\ UNCHANGED dropped
      ELSE dropped' = dropped + 1 /\ UNCHANGED frames

RecvFrame ==
    /\ Incoming(Frame)
    /\ Enqueue
    /\ UNCHANGED <<setup, loop, gen, stream, hb, misses, serverClosed, callVars, consVars, nodeVars,
                   link, toNode, troubles>>

(* Variant: the calls in flight are forgotten, and not woken.              *)
WakeNobody == pending' = {} /\ UNCHANGED chan

WakeAll ==
    /\ pending' = {}
    /\ chan' = [c \in Requests |-> IF c \in pending THEN "closed" ELSE chan[c]]

(* Recv fails: the deferred cancel and dropStream.                         *)
DropStream ==
    /\ loop = "recv" /\ link[gen] = "cut"
    /\ loop' = "drop" /\ stream' = 0
    /\ WakeAll
    /\ UNCHANGED <<setup, gen, frames, hb, misses, serverClosed, callPc, cgen, consVars, nodeVars,
                   netVars, dropped, troubles>>

(* hb.Wait, then back off, or end.                                         *)
WaitHeartbeat ==
    /\ loop = "drop" /\ hb = NoCall
    /\ loop' = IF serverClosed THEN "ended" ELSE "backoff"
    /\ UNCHANGED <<setup, gen, stream, frames, hb, misses, serverClosed, callVars, consVars, nodeVars,
                   netVars, dropped, troubles>>

Backoff ==
    /\ \/ loop = "backoff"
       \/ loop = "dial" /\ serverClosed
    /\ loop' = IF serverClosed THEN "ended" ELSE "dial"
    /\ UNCHANGED <<setup, gen, stream, frames, hb, misses, serverClosed, callVars, consVars, nodeVars,
                   netVars, dropped, troubles>>

(* Close cancels the context, which ends the stream; it returns when       *)
(* runLoop and consumeLoop have ended.                                     *)
Close ==
    /\ ~serverClosed /\ Trouble("close")
    /\ serverClosed' = TRUE
    /\ link' = [g \in Gens |-> IF g = gen THEN "cut" ELSE link[g]]
    /\ UNCHANGED <<setup, loop, gen, stream, frames, hb, misses, callVars, consVars, nodeVars,
                   toNode, toSdk, dropped>>

-----------------------------------------------------------------------------
(* Server.call.                                                            *)

(* Register under the lock, or fail at once without a stream.              *)
Register(c) ==
    /\ cgen' = [cgen EXCEPT ![c] = stream]
    /\ callPc' = [callPc EXCEPT ![c] = IF stream = 0 THEN "unavailable" ELSE "send"]
    /\ pending' = IF stream = 0 THEN pending ELSE pending \cup {c}
    /\ UNCHANGED chan

Call(c) ==
    /\ c \in Calls /\ callPc[c] = "idle" /\ gen > 0
    /\ Register(c)
    /\ UNCHANGED <<setup, sdkVars, consVars, nodeVars, netVars, dropped, troubles>>

(* stream.Send waits for room, and fails on a stream that is cut; sendMu,  *)
(* held meanwhile, makes the other senders wait for the same.              *)
Send(c) ==
    LET g == cgen[c] IN
    /\ callPc[c] = "send"
    /\ \/ /\ link[g] \in {"open", "stalled"} /\ Len(toNode[g]) < setup.window
          /\ toNode' = [toNode EXCEPT ![g] = Append(@, c)]
          /\ callPc' = [callPc EXCEPT ![c] = "wait"]
          /\ UNCHANGED pending
       \/ /\ link[g] = "cut"
          /\ callPc' = [callPc EXCEPT ![c] = "unavailable"]
          /\ pending' = pending \ {c}
          /\ UNCHANGED toNode
    /\ UNCHANGED <<setup, sdkVars, cgen, chan, consVars, nodeVars, link, toSdk, dropped, troubles>>

Wake(c) ==
    /\ callPc[c] = "wait" /\ chan[c] # "empty"
    /\ callPc' = [callPc EXCEPT ![c] = IF chan[c] = "result" THEN "answered" ELSE "unavailable"]
    /\ UNCHANGED <<setup, sdkVars, cgen, pending, chan, consVars, nodeVars, netVars, dropped, troubles>>

(* The request's timeout; a ping of a stalled stream has nothing else.     *)
Timeout(c) ==
    /\ callPc[c] = "wait"
    /\ IF c \in Pings /\ link[cgen[c]] = "stalled" THEN UNCHANGED troubles ELSE Trouble("timeout")
    /\ callPc' = [callPc EXCEPT ![c] = "unavailable"]
    /\ pending' = pending \ {c}
    /\ UNCHANGED <<setup, sdkVars, cgen, chan, consVars, nodeVars, netVars, dropped>>

-----------------------------------------------------------------------------
(* heartbeat, from the first Ready of a stream until it ends.              *)

Ping(c) ==
    /\ c \in Pings /\ callPc[c] = "idle" /\ hb = NoCall
    /\ stream # 0 /\ link[stream] # "cut"
    /\ hb' = c
    /\ Register(c)
    /\ UNCHANGED <<setup, loop, gen, stream, frames, misses, serverClosed, consVars, nodeVars, netVars,
                   dropped, troubles>>

(* An answer resets the count (and the ping stands for the next one, whose *)
(* id is new); the stream's end ends the heartbeat; the last miss in a row *)
(* kills the stream.                                                       *)
Pong ==
    /\ hb # NoCall /\ callPc[hb] \in Returned
    /\ hb' = NoCall
    /\ LET g == cgen[hb]
           missed == callPc[hb] = "unavailable" /\ link[g] # "cut"
       IN /\ misses' = IF callPc[hb] = "answered" THEN 0 ELSE IF missed THEN misses + 1 ELSE misses
          /\ link' = IF missed /\ misses + 1 >= setup.misses THEN [link EXCEPT ![g] = "cut"] ELSE link
          /\ IF callPc[hb] = "answered"
               THEN callPc' = [callPc EXCEPT ![hb] = "idle"] /\ chan' = [chan EXCEPT ![hb] = "empty"]
               ELSE UNCHANGED <<callPc, chan>>
    /\ UNCHANGED <<setup, loop, gen, stream, frames, serverClosed, cgen, pending, consVars, nodeVars,
                   toNode, toSdk, dropped, troubles>>

-----------------------------------------------------------------------------
(* consumeLoop: one frame at a time, in order; the callback may call.      *)

Consume ==
    /\ cons = "idle" /\ frames > 0
    /\ cons' = "callback" /\ frames' = frames - 1
    /\ UNCHANGED <<setup, loop, gen, stream, hb, misses, serverClosed, callVars, nest, nodeVars,
                   netVars, dropped, troubles>>

CallbackCalls(c) ==
    /\ cons = "callback" /\ nest = NoCall /\ c \in Nested /\ callPc[c] = "idle"
    /\ nest' = c
    /\ Register(c)
    /\ UNCHANGED <<setup, sdkVars, cons, nodeVars, netVars, dropped, troubles>>

CallbackReturns ==
    /\ cons = "callback" /\ nest \in {NoCall} \cup {c \in Nested : callPc[c] \in Returned}
    /\ cons' = "idle" /\ nest' = NoCall
    /\ UNCHANGED <<setup, sdkVars, callVars, nodeVars, netVars, dropped, troubles>>

ConsumeEnds ==
    /\ cons = "idle" /\ serverClosed
    /\ cons' = "ended"
    /\ UNCHANGED <<setup, sdkVars, callVars, nest, nodeVars, netVars, dropped, troubles>>

-----------------------------------------------------------------------------
(* The node's side of stream g: Connect.                                   *)

NodeRest == UNCHANGED <<setup, sdkVars, callVars, consVars, dropped>>

Room(g) == link[g] = "open" /\ Len(toSdk[g]) < setup.window

(* Ready is the first frame, and only then the hub learns of the stream; a *)
(* stopping node refuses.                                                  *)
Connect(g) ==
    /\ hpc[g] = "new"
    /\ \/ /\ g \notin stopping /\ Room(g)
          /\ toSdk' = [toSdk EXCEPT ![g] = Append(@, Ready)]
          /\ hpc' = [hpc EXCEPT ![g] = "serve"]
          /\ UNCHANGED link
       \/ /\ g \in stopping \/ link[g] = "cut"
          /\ hpc' = [hpc EXCEPT ![g] = "done"]
          /\ link' = [link EXCEPT ![g] = "cut"]
          /\ UNCHANGED toSdk
    /\ UNCHANGED <<held, workers, stopping, sent, toNode, troubles>> /\ NodeRest

(* The goroutine that reads requests holds one while it waits for a worker.*)
NodeRecv(g) ==
    /\ hpc[g] \in {"serve", "closing"} /\ link[g] = "open" /\ held[g] = NoCall /\ toNode[g] # <<>>
    /\ held' = [held EXCEPT ![g] = Head(toNode[g])]
    /\ toNode' = [toNode EXCEPT ![g] = Tail(@)]
    /\ UNCHANGED <<hpc, workers, stopping, sent, link, toSdk, troubles>> /\ NodeRest

(* A worker for the request, unless the handler is already closing.        *)
Admit(g) ==
    /\ held[g] # NoCall /\ Cardinality(workers[g]) < setup.workers
    /\ workers' = IF hpc[g] = "serve" THEN [workers EXCEPT ![g] = @ \cup {held[g]}] ELSE workers
    /\ held' = [held EXCEPT ![g] = NoCall]
    /\ UNCHANGED <<hpc, stopping, sent, netVars, troubles>> /\ NodeRest

(* handle, and the write of its result, which waits for room or fails.     *)
Handle(g, c) ==
    /\ c \in workers[g]
    /\ workers' = [workers EXCEPT ![g] = @ \ {c}]
    /\ \/ Room(g) /\ toSdk' = [toSdk EXCEPT ![g] = Append(@, c)]
       \/ link[g] = "cut" /\ UNCHANGED toSdk
    /\ UNCHANGED <<hpc, held, stopping, sent, link, toNode, troubles>> /\ NodeRest

(* The hub writes a frame on the stream.                                   *)
Emit(g) ==
    /\ hpc[g] \in {"serve", "closing"} /\ Room(g) /\ sent < setup.frames
    /\ toSdk' = [toSdk EXCEPT ![g] = Append(@, Frame)]
    /\ sent' = sent + 1
    /\ UNCHANGED <<hpc, held, workers, stopping, link, toNode, troubles>> /\ NodeRest

(* Recv failed or the node stops: no worker is admitted any more ...       *)
ConnectCloses(g) ==
    /\ hpc[g] = "serve" /\ (link[g] = "cut" \/ g \in stopping)
    /\ hpc' = [hpc EXCEPT ![g] = "closing"]
    /\ UNCHANGED <<held, workers, stopping, sent, netVars, troubles>> /\ NodeRest

(* ... and Connect returns when the admitted ones are finished.            *)
ConnectReturns(g) ==
    /\ hpc[g] = "closing" /\ workers[g] = {}
    /\ hpc' = [hpc EXCEPT ![g] = "done"]
    /\ link' = [link EXCEPT ![g] = "cut"]
    /\ UNCHANGED <<held, workers, stopping, sent, toNode, toSdk, troubles>> /\ NodeRest

-----------------------------------------------------------------------------
(* Faults: the transport breaks, or nothing passes any more although both  *)
(* ends believe it open; the node stops.                                   *)
Break(g) ==
    /\ link[g] = "open" /\ Trouble("break")
    /\ link' = [link EXCEPT ![g] = "cut"]
    /\ UNCHANGED <<nodeVars, toNode, toSdk>> /\ NodeRest

Stall(g) ==
    /\ link[g] = "open" /\ Trouble("stall")
    /\ link' = [link EXCEPT ![g] = "stalled"]
    /\ UNCHANGED <<nodeVars, toNode, toSdk>> /\ NodeRest

Stop(g) ==
    /\ link[g] = "open" /\ g \notin stopping /\ Trouble("stop")
    /\ stopping' = stopping \cup {g}
    /\ UNCHANGED <<hpc, held, workers, sent, netVars>> /\ NodeRest

-----------------------------------------------------------------------------
Recv == RecvReady \/ (\E c \in Requests : RecvResult(c)) \/ RecvFrame
Loop == Dial \/ DropStream \/ WaitHeartbeat \/ Backoff
Return(c) == Send(c) \/ Wake(c)
Consumer == Consume \/ CallbackReturns \/ ConsumeEnds
Serve(g) == Connect(g) \/ NodeRecv(g) \/ Admit(g) \/ ConnectCloses(g) \/ ConnectReturns(g)

SdkNext ==
    \/ Recv \/ Loop \/ Consumer \/ Pong \/ Close
    \/ \E c \in Requests : Call(c) \/ Return(c) \/ Timeout(c) \/ Ping(c) \/ CallbackCalls(c)
    \/ \E g \in Gens :
         \/ Serve(g) \/ Emit(g) \/ Break(g) \/ Stall(g) \/ Stop(g)
         \/ \E c \in Requests : Handle(g, c)

(* Goroutines run on; the heartbeat ticks, and a ping that nothing answers *)
(* times out.  No other timeout is relied upon, nor that the hub writes or *)
(* the business calls.                                                     *)
Fairness ==
    /\ WF_allVars(Recv) /\ WF_allVars(Loop) /\ WF_allVars(Consumer) /\ WF_allVars(Pong)
    /\ \A c \in Requests : WF_allVars(Return(c))
    /\ \A c \in Pings : WF_allVars(Ping(c)) /\ WF_allVars(Timeout(c))
    /\ \A g \in Gens : WF_allVars(Serve(g)) /\ \A c \in Requests : WF_allVars(Handle(g, c))

SdkSpec == SdkInit /\ [][SdkNext]_allVars /\ Fairness

-----------------------------------------------------------------------------
(* Nobody waits in vain: a call that waits is still registered, so that    *)
(* runOnce or dropStream will find it, or its channel has been settled;    *)
(* and a registered call's channel is empty, so that neither of them ever  *)
(* blocks on it or closes it twice.                                        *)
WaiterIsFound ==
    \A c \in Requests :
        /\ callPc[c] = "wait" => (c \in pending \/ chan[c] # "empty")
        /\ c \in pending => (chan[c] = "empty" /\ stream # 0 /\ cgen[c] = stream)

(* Nothing leaves the stream of c, and what was sent fills it: the next    *)
(* Send, also the heartbeat's, waits for room.                             *)
Choked(c) ==
    LET g == cgen[c] IN g # 0 /\ link[g] = "stalled" /\ Len(toNode[g]) = setup.window

(* Every call returns without its timeout, on a stream that works, breaks, *)
(* stalls or is stopped, also a call inside a callback while the queue of  *)
(* frames is full: the SDK and the node never wait for each other.  Only   *)
(* calls on a stream that stalled and is full may wait forever.            *)
CallsReturn ==
    \A c \in Requests : callPc[c] = "send" ~> (callPc[c] \in Returned \/ []Choked(c))

(* What a comment of the repository says and the code does not keep, so    *)
(* that TLC refutes it (README, section 6).  heartbeat: pings without an   *)
(* answer mean that the stream "is stuck on some hop", and it "kills it and*)
(* lets runLoop reconnect".                                                *)
StalledStreamEnds ==
    \A g \in Gens : (stream = g /\ link[g] = "stalled") ~> link[g] = "cut"

=============================================================================
