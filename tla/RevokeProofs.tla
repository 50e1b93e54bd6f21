--------------------------- MODULE RevokeProofs ---------------------------
(***************************************************************************)
(* Proofs, for any callers, buffer, windows, faults and times, that the    *)
(* push leaves no revoked token in the cache once it is quiet, and that    *)
(* without any push a revoked token is accepted for a bounded time.        *)
(*                                                                         *)
(* Neither is inductive.  For the first, a revoked token that is in the    *)
(* cache, or about to be added, has an event, a gap or a new stream on its *)
(* way to it (Covered).  For the second, what is cached was decided by a   *)
(* call that was sent before the revocation, and no call lasts longer than *)
(* its timeout (Dated).                                                    *)
(***************************************************************************)
EXTENDS RevokePush, TLAPS

Phases  == {"none", "sent", "yes", "no", "down", "add", "done"}
Flights == [phase : Phases, sent : Nat, ttl : Nat, overtaken : BOOLEAN]
Calls   == [pc : {"idle", "get", "join", "wait", "outage", "fresh", "origin", "stale", "refused"},
            degraded : BOOLEAN, after : BOOLEAN, at : Nat]

\* The instance and the clock.
TypeInst ==
    /\ now \in Nat /\ inst.ttl \in Nat \ {0} /\ inst.stale \in Nat

\* The instance stays ...
LEMMA InstStays == [Next]_vars => inst' = inst
BY DEF Next, vars, Server, Client, Origin, Publish, Resubscribe, HubRun, ServeWhenReady, Exit, Watch,
       StreamEnds, RecvReady, StreamUp, Recv, ValidateToken, RpcFails, PutIfGen, Add, FlightEnds,
       Revoke, RevokeOther, SubscriptionCut, Shutdown, ConnectionBreaks, LogoutRpc, LogoutDrop, Tick,
       ValidateBegin, CacheGet, SingleFlight, StaleGet, budget

\* ... and the clock is a number.
LEMMA InstStep == TypeInst /\ [Next]_vars => TypeInst'
<1>. SUFFICES ASSUME TypeInst, [Next]_vars PROVE TypeInst'
  OBVIOUS
<1>1. now' = now \/ now' = now + 1
  BY DEF Next, vars, Server, Client, Origin, Publish, Resubscribe, HubRun, ServeWhenReady, Exit, Watch,
         StreamEnds, RecvReady, StreamUp, Recv, ValidateToken, RpcFails, PutIfGen, Add, FlightEnds,
         Revoke, RevokeOther, SubscriptionCut, Shutdown, ConnectionBreaks, LogoutRpc, LogoutDrop, Tick,
         ValidateBegin, CacheGet, SingleFlight, StaleGet
<1>. QED
  BY <1>1, InstStays DEF TypeInst

\* So they are to begin with.
LEMMA InstInit == Init => TypeInst
BY OptionsAssumption DEF Init, TypeInst

-----------------------------------------------------------------------------
\* The path of the push.  A server that does not serve, or stops, has no open stream.
PathTypes ==
    /\ hub \in {"off", "on", "cut", "closing"}
    /\ sigs \in Seq({"rev", "other", "gap"})
    /\ buf \in Seq({"rev", "other", "purge"})
    /\ flight \in Flights
    /\ raced \in BOOLEAN /\ lost \in BOOLEAN
    /\ (hub \in {"off", "closing"} => sub # "open")
    /\ (hub = "off" => sigs = <<>>)

\* The token is cached, or a flight may still add it.
Tainted ==
    \/ entry # NoEntry
    \/ flight.phase = "add"
    \/ flight.phase = "yes" /\ flight.overtaken = FALSE

\* What will remove it: the event, the gap or the purge is on its way, or the stream is to
\* be opened anew.
OnItsWay ==
    \/ pub = "pending" \/ hub = "cut"
    \/ \E i \in DOMAIN sigs : sigs[i] \in {"rev", "gap"}
    \/ sub # "open"
    \/ \E i \in DOMAIN buf : buf[i] \in {"rev", "purge"}
    \/ watch \in {"down", "opened"}

Covered == ~valid /\ ~lost /\ ~raced /\ Tainted => OnItsWay

PushInv == PathTypes /\ Covered

\* drop and purge: the token is not cached and will not be, unless putIfGen has compared.
LEMMA Forgets ==
    ASSUME flight \in Flights, Forget
    PROVE  flight' \in Flights /\ raced' \in BOOLEAN /\ (raced' \/ ~Tainted')
<1>1. CASE flight.phase = "none"
  <2>1. flight' = flight /\ entry' = NoEntry /\ raced' = FALSE
    BY <1>1 DEF Forget, Overtake
  <2>. QED
    BY <1>1, <2>1 DEF Tainted
<1>2. CASE flight.phase # "none"
  <2>1. flight' = [flight EXCEPT !.overtaken = TRUE] /\ entry' = NoEntry
        /\ raced' = (flight.phase = "add")
    BY <1>2 DEF Forget, Overtake
  <2>2. flight' \in Flights /\ flight'.overtaken = TRUE /\ flight'.phase = flight.phase
    BY <2>1 DEF Flights
  <2>. QED
    BY <2>1, <2>2 DEF Tainted
<1>. QED
  BY <1>1, <1>2

\* drop of other tokens.
LEMMA ForgetsOther ==
    ASSUME flight \in Flights, ForgetOther
    PROVE  flight' \in Flights /\ (Tainted' => Tainted)
<1>1. CASE flight.phase = "none"
  BY <1>1 DEF ForgetOther, Overtake, Tainted
<1>2. CASE flight.phase # "none"
  <2>1. flight' = [flight EXCEPT !.overtaken = TRUE] /\ entry' = entry
    BY <1>2 DEF ForgetOther, Overtake
  <2>2. flight' \in Flights /\ flight'.overtaken = TRUE /\ flight'.phase = flight.phase
    BY <2>1 DEF Flights
  <2>. QED
    BY <2>1, <2>2 DEF Tainted
<1>. QED
  BY <1>1, <1>2

\* A queue that loses its head, or gets one more.
LEMMA Queue ==
    ASSUME NEW S, NEW q \in Seq(S), NEW W
    PROVE  /\ \A x \in S : /\ Append(q, x) \in Seq(S)
                           /\ (x \in W => \E i \in DOMAIN Append(q, x) : Append(q, x)[i] \in W)
                           /\ ((\E i \in DOMAIN q : q[i] \in W)
                                 => \E i \in DOMAIN Append(q, x) : Append(q, x)[i] \in W)
           /\ q # <<>> => /\ Head(q) \in S /\ Tail(q) \in Seq(S)
                          /\ (Head(q) \notin W /\ (\E i \in DOMAIN q : q[i] \in W)
                                => \E i \in DOMAIN Tail(q) : Tail(q)[i] \in W)
<1>1. ASSUME NEW x \in S
      PROVE  /\ Append(q, x) \in Seq(S)
             /\ (x \in W => \E i \in DOMAIN Append(q, x) : Append(q, x)[i] \in W)
             /\ ((\E i \in DOMAIN q : q[i] \in W)
                   => \E i \in DOMAIN Append(q, x) : Append(q, x)[i] \in W)
  <2>1. /\ Len(q) + 1 \in DOMAIN Append(q, x) /\ Append(q, x)[Len(q) + 1] = x
        /\ \A i \in DOMAIN q : i \in DOMAIN Append(q, x) /\ Append(q, x)[i] = q[i]
    OBVIOUS
  <2>2. Append(q, x) \in Seq(S)
    OBVIOUS
  <2>. QED
    BY <2>1, <2>2
<1>2. ASSUME q # <<>>
      PROVE  /\ Head(q) \in S /\ Tail(q) \in Seq(S)
             /\ (Head(q) \notin W /\ (\E i \in DOMAIN q : q[i] \in W)
                   => \E i \in DOMAIN Tail(q) : Tail(q)[i] \in W)
  <2>1. Head(q) \in S /\ Tail(q) \in Seq(S) /\ Head(q) = q[1]
    BY <1>2
  <2>2. ASSUME Head(q) \notin W, NEW i \in DOMAIN q, q[i] \in W
        PROVE  \E j \in DOMAIN Tail(q) : Tail(q)[j] \in W
    <3>1. i # 1 /\ i \in 1..Len(q)
      BY <2>1, <2>2
    <3>2. i - 1 \in DOMAIN Tail(q) /\ Tail(q)[i - 1] = q[i]
      BY <1>2, <3>1
    <3>. QED
      BY <2>2, <3>2
  <2>. QED
    BY <2>1, <2>2
<1>. QED
  BY <1>1, <1>2

\* The steps of the server.
LEMMA ServerCovers ==
    ASSUME PushInv,
           \/ Publish \/ Resubscribe \/ HubRun \/ ServeWhenReady \/ Exit \/ Revoke \/ RevokeOther
           \/ SubscriptionCut \/ Shutdown \/ ConnectionBreaks
    PROVE  PushInv'
<1>t. /\ sigs \in Seq({"rev", "other", "gap"}) /\ buf \in Seq({"rev", "other", "purge"})
      /\ flight \in Flights /\ hub \in {"off", "on", "cut", "closing"}
      /\ raced \in BOOLEAN /\ lost \in BOOLEAN
      /\ (hub \in {"off", "closing"} => sub # "open") /\ (hub = "off" => sigs = <<>>)
  BY DEF PushInv, PathTypes
<1>q. ASSUME NEW e \in {"rev", "other", "gap"}
      PROVE  /\ Append(sigs, e) \in Seq({"rev", "other", "gap"})
             /\ (e # "other" => \E i \in DOMAIN Append(sigs, e) : Append(sigs, e)[i] \in {"rev", "gap"})
             /\ ((\E i \in DOMAIN sigs : sigs[i] \in {"rev", "gap"})
                   => \E i \in DOMAIN Append(sigs, e) : Append(sigs, e)[i] \in {"rev", "gap"})
  BY <1>t, Queue
<1>1. CASE Publish
  <2>0. UNCHANGED <<valid, hub, sub, buf, watch, entry, flight, raced>> /\ pub = "pending"
    BY <1>1 DEF Publish
  <2>1. CASE lost' = TRUE /\ UNCHANGED sigs
    BY <2>0, <2>1, <1>t DEF PushInv, PathTypes, Covered
  <2>2. CASE hub \in {"on", "closing"} /\ sigs' = Append(sigs, "rev") /\ UNCHANGED lost
    <3>1. sigs' \in Seq({"rev", "other", "gap"}) /\ \E i \in DOMAIN sigs' : sigs'[i] \in {"rev", "gap"}
      BY <2>2, <1>q
    <3>. QED
      BY <2>0, <2>2, <3>1, <1>t DEF PushInv, PathTypes, Covered, OnItsWay
  <2>3. CASE hub \notin {"on", "closing"} /\ UNCHANGED <<sigs, lost>>
    <3>1. hub \in {"off", "cut"} => OnItsWay'
      BY <2>0, <2>3, <1>t DEF OnItsWay
    <3>. QED
      BY <2>0, <2>3, <3>1, <1>t DEF PushInv, PathTypes, Covered
  <2>. QED
    BY <1>1, <2>1, <2>2, <2>3 DEF Publish
<1>2. CASE Resubscribe
  <2>1. sigs' \in Seq({"rev", "other", "gap"}) /\ \E i \in DOMAIN sigs' : sigs'[i] \in {"rev", "gap"}
    BY <1>2, <1>q DEF Resubscribe
  <2>. QED
    BY <1>2, <2>1, <1>t DEF Resubscribe, PushInv, PathTypes, Covered, OnItsWay
<1>3. CASE HubRun
  <2>0. /\ sigs # <<>> /\ sigs' = Tail(sigs) /\ hub # "off"
        /\ UNCHANGED <<valid, revAt, pub, hub, watch, entry, flight, raced>>
    BY <1>3 DEF HubRun, serverVars
  <2>1. /\ sigs' \in Seq({"rev", "other", "gap"})
        /\ (Head(sigs) \notin {"rev", "gap"} /\ (\E i \in DOMAIN sigs : sigs[i] \in {"rev", "gap"})
              => \E i \in DOMAIN sigs' : sigs'[i] \in {"rev", "gap"})
    BY <2>0, <1>t, Queue
  <2>t. Tainted' <=> Tainted
    BY <2>0 DEF Tainted
  <2>2. ASSUME NEW e \in {"rev", "other", "purge"}
        PROVE  /\ Append(buf, e) \in Seq({"rev", "other", "purge"})
               /\ (e # "other" => \E i \in DOMAIN Append(buf, e) : Append(buf, e)[i] \in {"rev", "purge"})
               /\ ((\E i \in DOMAIN buf : buf[i] \in {"rev", "purge"})
                     => \E i \in DOMAIN Append(buf, e) : Append(buf, e)[i] \in {"rev", "purge"})
    BY <1>t, Queue
  <2>3. CASE Fanout(Head(sigs)) /\ Head(sigs) = "rev"
    <3>1. CASE sub # "open"
      BY <2>0, <2>1, <2>3, <3>1, <1>t DEF Fanout, PushInv, PathTypes, Covered, OnItsWay
    <3>2. CASE sub = "open" /\ buf' = Append(buf, "rev") /\ UNCHANGED <<sub, lost>>
      <4>1. buf' \in Seq({"rev", "other", "purge"}) /\ \E i \in DOMAIN buf' : buf'[i] \in {"rev", "purge"}
        BY <2>2, <3>2
      <4>. QED
        BY <2>0, <2>1, <3>2, <4>1, <1>t DEF PushInv, PathTypes, Covered, OnItsWay
    <3>3. CASE sub = "open" /\ lost' = (lost \/ Head(sigs) = "rev") /\ UNCHANGED <<sub, buf>>
      <4>1. lost' = TRUE
        BY <2>3, <3>3
      <4>. QED
        BY <2>0, <2>1, <3>3, <4>1, <1>t DEF PushInv, PathTypes, Covered
    <3>. QED
      BY <2>3, <3>1, <3>2, <3>3 DEF Fanout
  <2>4. CASE Fanout(Head(sigs)) /\ Head(sigs) = "other"
    <3>1. sub' = sub /\ (lost' <=> lost) /\ lost' \in BOOLEAN
      BY <2>4, <1>t DEF Fanout
    <3>2. buf' = buf \/ buf' = Append(buf, "other")
      BY <2>4 DEF Fanout
    <3>3. /\ buf' \in Seq({"rev", "other", "purge"})
          /\ ((\E i \in DOMAIN buf : buf[i] \in {"rev", "purge"})
                => \E i \in DOMAIN buf' : buf'[i] \in {"rev", "purge"})
      BY <3>2, <2>2, <1>t
    <3>4. OnItsWay => OnItsWay'
      BY <2>0, <2>1, <2>4, <3>1, <3>3 DEF OnItsWay
    <3>5. PathTypes'
      BY <2>0, <2>1, <3>1, <3>3, <1>t DEF PathTypes
    <3>. QED
      BY <2>0, <2>t, <3>1, <3>4, <3>5 DEF PushInv, Covered
  <2>5. CASE Head(sigs) = "gap" /\ BroadcastPurge
    <3>0. lost' = lost
      BY <2>5 DEF BroadcastPurge
    <3>1. CASE UNCHANGED buf /\ sub' # "open"
      <4>1. PathTypes' /\ OnItsWay'
        BY <2>0, <2>1, <3>0, <3>1, <1>t DEF PathTypes, OnItsWay
      <4>. QED
        BY <4>1 DEF PushInv, Covered
    <3>2. CASE buf' = Append(buf, "purge") /\ UNCHANGED sub
      <4>1. buf' \in Seq({"rev", "other", "purge"}) /\ \E i \in DOMAIN buf' : buf'[i] \in {"rev", "purge"}
        BY <2>2, <3>2
      <4>2. PathTypes' /\ OnItsWay'
        BY <2>0, <2>1, <3>0, <3>2, <4>1, <1>t DEF PathTypes, OnItsWay
      <4>. QED
        BY <4>2 DEF PushInv, Covered
    <3>. QED
      BY <2>5, <3>1, <3>2 DEF BroadcastPurge
  <2>. QED
    BY <1>3, <2>3, <2>4, <2>5 DEF HubRun, Fanout
<1>4. CASE ServeWhenReady
  BY <1>4, <1>t DEF ServeWhenReady, PushInv, PathTypes, Covered, OnItsWay
<1>5. CASE Exit
  <2>1. flight' \in Flights
    BY <1>5, <1>t DEF Exit, Flights, Phases
  <2>2. hub' = "off" /\ sigs' = <<>> /\ sub' = "none" /\ buf' = <<>> /\ UNCHANGED <<lost, raced>>
    BY <1>5 DEF Exit
  <2>3. PathTypes' /\ OnItsWay'
    BY <2>1, <2>2, <1>t DEF PathTypes, OnItsWay
  <2>. QED
    BY <2>3 DEF PushInv, Covered
<1>6. CASE Revoke
  BY <1>6, <1>t DEF Revoke, hubVars, PushInv, PathTypes, Covered, OnItsWay
<1>7. CASE RevokeOther
  <2>1. /\ sigs' \in Seq({"rev", "other", "gap"})
        /\ ((\E i \in DOMAIN sigs : sigs[i] \in {"rev", "gap"})
              => \E i \in DOMAIN sigs' : sigs'[i] \in {"rev", "gap"})
    BY <1>7, <1>q DEF RevokeOther
  <2>2. UNCHANGED <<valid, pub, hub, sub, buf, watch, entry, flight, lost, raced>> /\ hub # "off"
    BY <1>7 DEF RevokeOther, serverVars
  <2>3. PathTypes' /\ (OnItsWay => OnItsWay') /\ (Tainted' <=> Tainted)
    BY <2>1, <2>2, <1>t DEF PathTypes, OnItsWay, Tainted
  <2>. QED
    BY <2>2, <2>3 DEF PushInv, Covered
<1>8. CASE SubscriptionCut
  BY <1>8, <1>t DEF SubscriptionCut, PushInv, PathTypes, Covered, OnItsWay
<1>9. CASE Shutdown
  <2>1. hub' = "closing" /\ sub' # "open" /\ UNCHANGED <<sigs, buf, flight, lost, raced>>
    BY <1>9 DEF Shutdown
  <2>2. PathTypes' /\ OnItsWay'
    BY <2>1, <1>t DEF PathTypes, OnItsWay
  <2>. QED
    BY <2>2 DEF PushInv, Covered
<1>10. CASE ConnectionBreaks
  <2>1. sub' = "none" /\ buf' = <<>> /\ UNCHANGED <<hub, sigs, flight, lost, raced>>
    BY <1>10 DEF ConnectionBreaks
  <2>2. PathTypes' /\ OnItsWay'
    BY <2>1, <1>t DEF PathTypes, OnItsWay
  <2>. QED
    BY <2>2 DEF PushInv, Covered
<1>. QED
  BY <1>1, <1>2, <1>3, <1>4, <1>5, <1>6, <1>7, <1>8, <1>9, <1>10

\* The stream's steps on the client, and Logout.
LEMMA ClientCovers ==
    ASSUME PushInv, Watch \/ StreamEnds \/ RecvReady \/ StreamUp \/ Recv \/ LogoutRpc \/ LogoutDrop
    PROVE  PushInv'
<1>t. /\ sigs \in Seq({"rev", "other", "gap"}) /\ buf \in Seq({"rev", "other", "purge"})
      /\ flight \in Flights /\ hub \in {"off", "on", "cut", "closing"}
      /\ raced \in BOOLEAN /\ lost \in BOOLEAN
      /\ (hub \in {"off", "closing"} => sub # "open") /\ (hub = "off" => sigs = <<>>)
  BY DEF PushInv, PathTypes
<1>1. CASE Watch
  <2>1. /\ watch' = "opened" /\ buf' = <<>> /\ (hub = "closing" => sub' = "closed") /\ hub # "off"
        /\ UNCHANGED <<hub, sigs, flight, lost, raced>>
    BY <1>1 DEF Watch
  <2>2. PathTypes' /\ OnItsWay'
    BY <2>1, <1>t DEF PathTypes, OnItsWay
  <2>. QED
    BY <2>2 DEF PushInv, Covered
<1>2. CASE StreamEnds
  <2>1. watch' = "down" /\ sub' = "none" /\ UNCHANGED <<hub, sigs, buf, flight, lost, raced>>
    BY <1>2 DEF StreamEnds
  <2>2. PathTypes' /\ OnItsWay'
    BY <2>1, <1>t DEF PathTypes, OnItsWay
  <2>. QED
    BY <2>2 DEF PushInv, Covered
<1>3. CASE RecvReady
  <2>1. Forget /\ lost' = FALSE /\ UNCHANGED <<hub, sigs, sub, buf>>
    BY <1>3 DEF RecvReady, hubVars
  <2>2. flight' \in Flights /\ raced' \in BOOLEAN /\ (raced' \/ ~Tainted')
    BY <2>1, <1>t, Forgets
  <2>. QED
    BY <2>1, <2>2, <1>t DEF PushInv, PathTypes, Covered
<1>4. CASE StreamUp
  BY <1>4, <1>t DEF StreamUp, hubVars, serverVars, PushInv, PathTypes, Covered, Tainted, OnItsWay
<1>5. CASE Recv
  <2>0. /\ buf # <<>> /\ buf' = Tail(buf)
        /\ UNCHANGED <<valid, pub, hub, sigs, sub, watch>>
    BY <1>5 DEF Recv, serverVars
  <2>1. /\ buf' \in Seq({"rev", "other", "purge"})
        /\ (Head(buf) \notin {"rev", "purge"} /\ (\E i \in DOMAIN buf : buf[i] \in {"rev", "purge"})
              => \E i \in DOMAIN buf' : buf'[i] \in {"rev", "purge"})
    BY <2>0, <1>t, Queue
  <2>2. CASE Forget /\ lost' \in BOOLEAN
    <3>1. flight' \in Flights /\ raced' \in BOOLEAN /\ (raced' \/ ~Tainted')
      BY <2>2, <1>t, Forgets
    <3>. QED
      BY <2>0, <2>1, <2>2, <3>1, <1>t DEF PushInv, PathTypes, Covered
  <2>3. CASE Head(buf) = "other" /\ ForgetOther /\ UNCHANGED lost
    <3>1. flight' \in Flights /\ (Tainted' => Tainted) /\ raced' = raced
      BY <2>3, <1>t, ForgetsOther DEF ForgetOther
    <3>2. OnItsWay => OnItsWay'
      BY <2>0, <2>1, <2>3 DEF OnItsWay
    <3>3. PathTypes'
      BY <2>0, <2>1, <2>3, <3>1, <1>t DEF PathTypes
    <3>. QED
      BY <2>0, <2>3, <3>1, <3>2, <3>3 DEF PushInv, Covered
  <2>. QED
    BY <1>5, <2>2, <2>3, <1>t DEF Recv
<1>6. CASE LogoutRpc
  <2>1. UNCHANGED <<hub, sigs, sub, buf, watch, entry, flight, lost, raced>>
    BY <1>6 DEF LogoutRpc, hubVars
  <2>2. PathTypes' /\ (Tainted' <=> Tainted)
    BY <2>1, <1>t DEF PathTypes, Tainted
  <2>3. CASE valid /\ pub' = "pending"
    BY <2>2, <2>3 DEF PushInv, Covered, OnItsWay
  <2>4. CASE UNCHANGED pub /\ (~valid' => ~valid)
    <3>1. OnItsWay' <=> OnItsWay
      BY <2>1, <2>4 DEF OnItsWay
    <3>. QED
      BY <2>1, <2>2, <2>4, <3>1 DEF PushInv, Covered
  <2>. QED
    BY <1>6, <2>3, <2>4 DEF LogoutRpc, serverVars
<1>7. CASE LogoutDrop
  <2>1. Forget /\ UNCHANGED <<lost, hub, sigs, sub, buf>>
    BY <1>7 DEF LogoutDrop, hubVars
  <2>2. flight' \in Flights /\ raced' \in BOOLEAN /\ (raced' \/ ~Tainted')
    BY <2>1, <1>t, Forgets
  <2>. QED
    BY <2>1, <2>2, <1>t DEF PushInv, PathTypes, Covered
<1>. QED
  BY <1>1, <1>2, <1>3, <1>4, <1>5, <1>6, <1>7

\* Validate: only an answer that fp gave while the session existed is written back.
LEMMA ValidateCovers ==
    ASSUME PushInv, TypeInst,
           \/ Origin \/ Tick
           \/ \E c \in Callers : ValidateBegin(c) \/ CacheGet(c) \/ SingleFlight(c) \/ StaleGet(c)
    PROVE  PushInv'
<1>t. /\ sigs \in Seq({"rev", "other", "gap"}) /\ buf \in Seq({"rev", "other", "purge"})
      /\ flight \in Flights /\ hub \in {"off", "on", "cut", "closing"}
      /\ raced \in BOOLEAN /\ lost \in BOOLEAN
      /\ (hub \in {"off", "closing"} => sub # "open") /\ (hub = "off" => sigs = <<>>)
  BY DEF PushInv, PathTypes
<1>u. UNCHANGED <<valid, pub, hub, sigs, sub, buf, watch, lost, raced>>
  BY DEF Origin, ValidateToken, RpcFails, PutIfGen, Add, FlightEnds, Tick, ValidateBegin, CacheGet,
         SingleFlight, StaleGet, serverVars, hubVars
<1>1. OnItsWay' <=> OnItsWay
  BY <1>u DEF OnItsWay
<1>. SUFFICES flight' \in Flights /\ (Tainted' => Tainted \/ valid)
  BY <1>u, <1>t, <1>1 DEF PushInv, PathTypes, Covered
<1>2. CASE UNCHANGED flight /\ (entry' = entry \/ entry' = NoEntry)
  BY <1>2, <1>t DEF Tainted
<1>3. CASE Tick \/ \E c \in Callers : ValidateBegin(c) \/ CacheGet(c) \/ StaleGet(c)
  BY <1>2, <1>3 DEF Tick, ValidateBegin, CacheGet, StaleGet
<1>4. ASSUME NEW c \in Callers, SingleFlight(c)
      PROVE  flight' \in Flights /\ (Tainted' => Tainted \/ valid)
  <2>1. CASE UNCHANGED flight
    BY <1>2, <1>4, <2>1 DEF SingleFlight
  <2>2. CASE flight' = [NoFlight EXCEPT !.phase = "sent", !.sent = now]
    <3>1. flight' = [phase |-> "sent", sent |-> now, ttl |-> 0, overtaken |-> FALSE]
      BY <2>2 DEF NoFlight
    <3>2. \A t \in Nat : [phase |-> "sent", sent |-> t, ttl |-> 0, overtaken |-> FALSE] \in Flights
      BY DEF Flights, Phases
    <3>3. flight' \in Flights /\ flight'.phase = "sent" /\ entry' = entry
      BY <1>4, <3>1, <3>2 DEF SingleFlight, TypeInst
    <3>. QED
      BY <3>3 DEF Tainted
  <2>. QED
    BY <1>4, <2>1, <2>2 DEF SingleFlight
<1>5. CASE ValidateToken
  <2>1. PICK ttl \in {0, CacheTTL} :
           flight' = [flight EXCEPT !.phase = IF valid THEN "yes" ELSE "no",
                                    !.ttl = IF valid THEN ttl ELSE 0]
    BY <1>5 DEF ValidateToken
  <2>2. ttl \in Nat
    BY DEF TypeInst, CacheTTL
  <2>3. flight' \in Flights /\ (~valid => flight'.phase = "no")
    BY <2>1, <2>2, <1>t DEF Flights, Phases
  <2>. QED
    BY <1>5, <2>3 DEF ValidateToken, Tainted
<1>6. CASE RpcFails
  <2>1. flight' \in Flights /\ flight'.phase = "down" /\ entry' = entry
    BY <1>6, <1>t DEF RpcFails, Flights, Phases
  <2>. QED
    BY <2>1 DEF Tainted
<1>7. CASE PutIfGen
  <2>1. flight' \in Flights /\ flight'.phase \in {"add", "done"} /\ entry' = entry
    BY <1>7, <1>t DEF PutIfGen, Flights, Phases
  <2>2. flight'.phase = "add" => flight.overtaken = FALSE
    BY <1>7, <1>t DEF PutIfGen, Flights
  <2>. QED
    BY <1>7, <2>1, <2>2 DEF Tainted, PutIfGen
<1>8. CASE Add
  <2>1. flight' \in Flights
    BY <1>8, <1>t DEF Add, Flights, Phases
  <2>. QED
    BY <1>8, <2>1 DEF Tainted, Add
<1>9. CASE FlightEnds
  <2>1. flight' \in Flights /\ flight'.phase = "none" /\ entry' = entry
    BY <1>9 DEF FlightEnds, NoFlight, Flights, Phases
  <2>. QED
    BY <2>1 DEF Tainted
<1>. QED
  BY <1>3, <1>4, <1>5, <1>6, <1>7, <1>8, <1>9 DEF Origin

\* Every step preserves PushInv.
LEMMA PushStep ==
    ASSUME TypeInst, PushInv, [Next]_vars
    PROVE  PushInv'
<1>1. CASE UNCHANGED vars
  BY <1>1 DEF vars, serverVars, hubVars, PushInv, PathTypes, Covered, Tainted, OnItsWay
<1>2. CASE \/ Publish \/ Resubscribe \/ HubRun \/ ServeWhenReady \/ Exit \/ Revoke \/ RevokeOther
           \/ SubscriptionCut \/ Shutdown \/ ConnectionBreaks
  BY <1>2, ServerCovers
<1>3. CASE Watch \/ StreamEnds \/ RecvReady \/ StreamUp \/ Recv \/ LogoutRpc \/ LogoutDrop
  BY <1>3, ClientCovers
<1>4. CASE \/ Origin \/ Tick
           \/ \E c \in Callers : ValidateBegin(c) \/ CacheGet(c) \/ SingleFlight(c) \/ StaleGet(c)
  BY <1>4, ValidateCovers
<1>. QED
  BY <1>1, <1>2, <1>3, <1>4 DEF Next, Server, Client

\* The stream is still to be opened.
LEMMA PushInit == Init => PushInv
<1>. SUFFICES ASSUME Init PROVE PushInv
  OBVIOUS
<1>1. NoFlight \in Flights /\ \A S : <<>> \in Seq(S)
  BY DEF Flights, Phases, NoFlight
<1>2. PathTypes
  BY <1>1 DEF Init, PathTypes
<1>. QED
  BY <1>2 DEF Init, PushInv, Covered

\* RevokeHub and watchOnce: for any number of events, faults, restarts and callers and any
\* buffer, a revoked token is not in the cache when the push path is quiet, except for an
\* event dropped for good and putIfGen's window.
THEOREM QuietIsCoherent == Spec => []QuiescentCoherent
<1>1. PushInv => QuiescentCoherent
  BY DEF PushInv, Covered, Tainted, OnItsWay, Quiescent, QuiescentCoherent
<1>2. TypeInst /\ PushInv /\ [Next]_vars => TypeInst' /\ PushInv'
  BY PushStep, InstStep
<1>. QED
  BY <1>1, <1>2, PushInit, InstInit, PTL DEF Spec

-----------------------------------------------------------------------------
\* Without the push.
Entries == [at : Nat, ttl : Nat \ {0}]

ClockTypes ==
    /\ TypeInst /\ valid \in BOOLEAN /\ revAt \in Nat /\ revAt <= now
    /\ flight \in Flights
    /\ call \in [Callers -> Calls] /\ \A c \in Callers : call[c].at <= now
    /\ (entry = NoEntry \/ entry \in Entries)

\* A flight is within its timeout; one that was answered with yes was sent before the
\* revocation.
Flown ==
    /\ flight.ttl \in {0, CacheTTL} /\ (flight.phase = "add" => flight.ttl # 0)
    /\ (flight.phase # "none" => flight.sent <= now /\ now <= flight.sent + Timeout)
    /\ (~valid /\ flight.phase \in {"yes", "add", "done"} => flight.sent <= revAt)

\* So what is cached is not younger than the revocation by more than that timeout.
Kept ==
    entry # NoEntry => /\ entry.at <= now /\ entry.ttl <= CacheTTL
                       /\ (~valid => entry.at <= revAt + Timeout)

Answered ==
    ~valid => \A c \in Callers :
        /\ (Accepted(c) => AcceptedBy(c, Timeout + CacheTTL + MaxStale))
        /\ (call[c].pc = "fresh" /\ call[c].degraded = TRUE => AcceptedBy(c, Timeout + DegradedTTL))

\* After a Logout that found no flight nothing is cached or will be.
LoggedOut ==
    /\ (logout = "drop" => ~valid)
    /\ (logout = "quiet" => /\ ~valid /\ entry = NoEntry
                            /\ flight.phase \in {"none", "sent", "no", "down"})
    /\ \A c \in Callers : call[c].after = TRUE => logout = "quiet" /\ ~Accepted(c)

Dated == ClockTypes /\ Flown /\ Kept /\ Answered /\ LoggedOut

\* A step of the server or the stream: the entry may go, a flight may be overtaken or fail.
LEMMA DatedStays ==
    ASSUME Dated, TypeInst', UNCHANGED <<inst, now, valid, revAt, call, logout>>,
           entry' = entry \/ entry' = NoEntry,
           flight' \in Flights, flight'.sent = flight.sent, flight'.ttl = flight.ttl,
           flight'.phase = flight.phase \/ (flight.phase # "none" /\ flight'.phase \in {"down", "no"})
    PROVE  Dated'
<1>1. ClockTypes'
  BY DEF Dated, ClockTypes
<1>2. Flown'
  BY DEF Dated, Flown, CacheTTL
<1>3. Kept'
  BY DEF Dated, Kept, CacheTTL
<1>4. Answered' /\ LoggedOut'
  BY DEF Dated, Answered, LoggedOut, Accepted, AcceptedBy, CacheTTL, MaxStale
<1>. QED
  BY <1>1, <1>2, <1>3, <1>4 DEF Dated

\* Overtake changes nothing else of a flight.
LEMMA Overtakes ==
    ASSUME flight \in Flights
    PROVE  /\ Overtake(flight) \in Flights /\ Overtake(flight).phase = flight.phase
           /\ Overtake(flight).sent = flight.sent /\ Overtake(flight).ttl = flight.ttl
<1>1. /\ [flight EXCEPT !.overtaken = TRUE] \in Flights
      /\ [flight EXCEPT !.overtaken = TRUE].phase = flight.phase
      /\ [flight EXCEPT !.overtaken = TRUE].sent = flight.sent
      /\ [flight EXCEPT !.overtaken = TRUE].ttl = flight.ttl
  BY DEF Flights
<1>. QED
  BY <1>1 DEF Overtake

\* The server's and the stream's steps.
LEMMA PathDated ==
    ASSUME Dated, TypeInst', inst' = inst,
           \/ Publish \/ Resubscribe \/ HubRun \/ ServeWhenReady \/ Exit \/ RevokeOther
           \/ SubscriptionCut \/ Shutdown \/ ConnectionBreaks
           \/ Watch \/ StreamEnds \/ RecvReady \/ StreamUp \/ Recv
    PROVE  Dated'
<1>t. flight \in Flights
  BY DEF Dated, ClockTypes
<1>u. UNCHANGED <<now, valid, revAt, call, logout>>
  BY DEF Publish, Resubscribe, HubRun, ServeWhenReady, Exit, RevokeOther, SubscriptionCut, Shutdown,
         ConnectionBreaks, Watch, StreamEnds, RecvReady, StreamUp, Recv, serverVars
<1>1. CASE UNCHANGED <<entry, flight>>
  BY <1>t, <1>u, <1>1, DatedStays
<1>2. CASE RecvReady \/ Recv
  <2>1. (entry' = entry \/ entry' = NoEntry) /\ flight' = Overtake(flight)
    BY <1>2 DEF RecvReady, Recv, Forget, ForgetOther
  <2>. QED
    BY <1>t, <1>u, <2>1, Overtakes, DatedStays
<1>3. CASE Exit
  <2>1. entry' = entry
    BY <1>3 DEF Exit
  <2>2. CASE flight.phase \in {"sent", "yes", "no"} /\ flight' = [flight EXCEPT !.phase = "down"]
    <3>1. /\ flight' \in Flights /\ flight'.phase = "down" /\ flight'.sent = flight.sent
          /\ flight'.ttl = flight.ttl
      BY <1>t, <2>2 DEF Flights, Phases
    <3>. QED
      BY <1>u, <2>1, <2>2, <3>1, DatedStays
  <2>. QED
    BY <1>1, <1>3, <2>1, <2>2 DEF Exit
<1>. QED
  BY <1>1, <1>2, <1>3 DEF Publish, Resubscribe, HubRun, ServeWhenReady, RevokeOther, SubscriptionCut,
                          Shutdown, ConnectionBreaks, Watch, StreamEnds, StreamUp

\* The session is deleted now: everything that was answered or cached is from before.
LEMMA RevokeDated ==
    ASSUME Dated, TypeInst', valid, valid' = FALSE, revAt' = now, logout' # "quiet",
           UNCHANGED <<inst, now, entry, flight, call>>
    PROVE  Dated'
<1>t. /\ now \in Nat /\ Timeout \in Nat /\ \A c \in Callers : call[c].at <= now
      /\ (entry # NoEntry => entry.at \in Nat) /\ flight.sent \in Nat
      /\ valid' \in BOOLEAN
  BY OptionsAssumption DEF Dated, ClockTypes, TypeInst, Entries, Flights
<1>1. ClockTypes'
  BY <1>t DEF Dated, ClockTypes
<1>2. Flown'
  BY <1>t DEF Dated, Flown, CacheTTL
<1>3. Kept'
  BY <1>t DEF Dated, Kept, CacheTTL
<1>4. Answered'
  BY <1>t DEF Answered, Accepted, AcceptedBy
<1>5. LoggedOut'
  BY DEF Dated, LoggedOut
<1>. QED
  BY <1>1, <1>2, <1>3, <1>4, <1>5 DEF Dated

\* Revoke and Logout.
LEMMA LogoutDated ==
    ASSUME Dated, TypeInst', inst' = inst, Revoke \/ LogoutRpc \/ LogoutDrop
    PROVE  Dated'
<1>t. flight \in Flights /\ valid \in BOOLEAN
  BY DEF Dated, ClockTypes
<1>1. CASE Revoke
  <2>1. logout # "quiet"
    BY <1>1 DEF Revoke, Dated, LoggedOut
  <2>. QED
    BY <1>1, <2>1, RevokeDated DEF Revoke
<1>2. CASE LogoutRpc
  <2>0. UNCHANGED <<now, entry, flight, call>> /\ logout = "idle"
    BY <1>2 DEF LogoutRpc
  <2>1. CASE valid /\ logout' = "drop" /\ valid' = FALSE /\ revAt' = now
    BY <2>0, <2>1, RevokeDated
  <2>2. CASE UNCHANGED <<valid, revAt>> /\ (logout' = "dropFailed" \/ (logout' = "drop" /\ ~valid))
    <3>1. ClockTypes' /\ Flown' /\ Kept'
      BY <2>0, <2>2 DEF Dated, ClockTypes, Flown, Kept, CacheTTL
    <3>2. Answered' /\ LoggedOut'
      BY <2>0, <2>2 DEF Dated, Answered, LoggedOut, Accepted, AcceptedBy, CacheTTL, MaxStale
    <3>. QED
      BY <3>1, <3>2 DEF Dated
  <2>3. CASE ~valid /\ logout' = "drop" /\ valid' = FALSE /\ revAt' = revAt
    <3>1. valid = FALSE
      BY <1>t, <2>3
    <3>. QED
      BY <2>2, <2>3, <3>1
  <2>4. \/ (logout' = "drop" /\ valid' = FALSE /\ revAt' = IF valid THEN now ELSE revAt)
        \/ (logout' = "dropFailed" /\ UNCHANGED <<valid, revAt>>)
    BY <1>2 DEF LogoutRpc, serverVars
  <2>. QED
    BY <2>1, <2>2, <2>3, <2>4
<1>3. CASE LogoutDrop
  <2>1. /\ entry' = NoEntry /\ flight' = Overtake(flight) /\ UNCHANGED <<now, valid, revAt, call>>
        /\ logout \in {"drop", "dropFailed"} /\ logout' \notin {"drop", "idle"}
    BY <1>3 DEF LogoutDrop, Forget, serverVars
  <2>2. /\ flight' \in Flights /\ flight'.phase = flight.phase /\ flight'.sent = flight.sent
        /\ flight'.ttl = flight.ttl
    BY <1>t, <2>1, Overtakes
  <2>3. ClockTypes' /\ Flown' /\ Kept'
    BY <2>1, <2>2 DEF Dated, ClockTypes, Flown, Kept, CacheTTL
  <2>4. Answered'
    BY <2>1 DEF Dated, Answered, Accepted, AcceptedBy, CacheTTL, MaxStale
  <2>5. logout' = "quiet" => ~valid /\ flight.phase = "none"
    BY <1>3 DEF LogoutDrop, Dated, LoggedOut
  <2>6. LoggedOut'
    BY <2>1, <2>2, <2>5 DEF Dated, LoggedOut
  <2>. QED
    BY <2>3, <2>4, <2>6 DEF Dated
<1>. QED
  BY <1>1, <1>2, <1>3

\* The clock waits for a flight's deadline.
LEMMA TickDated ==
    ASSUME Dated, TypeInst', inst' = inst, Tick
    PROVE  Dated'
<1>t. /\ now \in Nat /\ Timeout \in Nat /\ revAt \in Nat /\ flight.sent \in Nat
      /\ \A c \in Callers : call[c].at \in Nat
      /\ (entry # NoEntry => entry.at \in Nat)
  BY OptionsAssumption DEF Dated, ClockTypes, TypeInst, Flights, Entries, Calls
<1>u. now' = now + 1 /\ UNCHANGED <<valid, revAt, entry, flight, call, logout>>
  BY DEF Tick, serverVars
<1>1. ClockTypes'
  BY <1>t, <1>u DEF Dated, ClockTypes
<1>2. Flown'
  <2>1. flight.phase # "none" => now + 1 <= flight.sent + Timeout
    BY <1>t DEF Tick
  <2>. QED
    BY <1>t, <1>u, <2>1 DEF Dated, Flown, CacheTTL
<1>3. Kept'
  BY <1>t, <1>u DEF Dated, Kept, CacheTTL
<1>4. Answered' /\ LoggedOut'
  BY <1>u DEF Dated, Answered, LoggedOut, Accepted, AcceptedBy, CacheTTL, MaxStale
<1>. QED
  BY <1>1, <1>2, <1>3, <1>4 DEF Dated

\* One caller goes on without an answer.
LEMMA CallGoesOn ==
    ASSUME Dated, TypeInst', NEW c \in Callers, NEW new \in Calls, call' = [call EXCEPT ![c] = new],
           new.pc \notin {"fresh", "origin", "stale"}, new.at <= now,
           new.after = TRUE => logout = "quiet",
           UNCHANGED <<inst, now, valid, revAt, flight, logout>>,
           entry' = entry \/ entry' = NoEntry
    PROVE  Dated'
<1>1. \A d \in Callers : call'[d] = IF d = c THEN new ELSE call[d]
  BY DEF Dated, ClockTypes
<1>2. ClockTypes'
  BY <1>1 DEF Dated, ClockTypes
<1>3. Flown' /\ Kept'
  BY DEF Dated, Flown, Kept, CacheTTL
<1>4. Answered'
  BY <1>1 DEF Dated, Answered, Accepted, AcceptedBy, CacheTTL, MaxStale
<1>5. LoggedOut'
  BY <1>1 DEF Dated, LoggedOut, Accepted
<1>. QED
  BY <1>2, <1>3, <1>4, <1>5 DEF Dated

\* cache.get: an entry answers within its window and no longer.
LEMMA EntryWindow ==
    ASSUME Dated, NEW d \in BOOLEAN, entry # NoEntry, ~valid
    PROVE  /\ (Fresh(entry, d) => now < revAt + (Timeout + CacheTTL + MaxStale))
           /\ (Fresh(entry, d) /\ d = TRUE => now < revAt + (Timeout + DegradedTTL))
           /\ (Stale(entry, d) => now < revAt + (Timeout + CacheTTL + MaxStale))
<1>t. /\ now \in Nat /\ Timeout \in Nat /\ revAt \in Nat /\ DegradedTTL \in Nat
      /\ CacheTTL \in Nat /\ MaxStale \in Nat /\ entry.at \in Nat /\ entry.ttl \in Nat
  BY OptionsAssumption DEF Dated, ClockTypes, TypeInst, Entries, CacheTTL, MaxStale
<1>1. entry.at <= revAt + Timeout /\ entry.ttl <= CacheTTL
  BY DEF Dated, Kept
<1>2. /\ Effective(entry, d) \in Nat /\ Effective(entry, d) <= CacheTTL
      /\ (d = TRUE => Effective(entry, d) <= DegradedTTL)
  BY <1>t, <1>1 DEF Effective
<1>3. Fresh(entry, d) => now - entry.at < Effective(entry, d)
  BY DEF Fresh
<1>4. Stale(entry, d) => now - entry.at < Effective(entry, d) + MaxStale
  BY DEF Stale
<1>. QED
  BY <1>t, <1>1, <1>2, <1>3, <1>4

\* A caller is answered from the cache.
LEMMA CallAnswered ==
    ASSUME Dated, TypeInst', NEW c \in Callers, NEW how \in {"fresh", "stale"}, Answer(c, how),
           entry # NoEntry,
           how = "fresh" => Fresh(entry, call[c].degraded),
           how = "stale" => Stale(entry, call[c].degraded),
           UNCHANGED <<inst, now, valid, revAt, flight, logout, entry>>
    PROVE  Dated'
<1>. DEFINE new == [call[c] EXCEPT !.pc = how, !.at = now]
<1>t. call \in [Callers -> Calls] /\ call[c] \in Calls /\ call[c].degraded \in BOOLEAN /\ now \in Nat
  BY DEF Dated, ClockTypes, TypeInst, Calls
<1>1. /\ new \in Calls /\ new.pc = how /\ new.at = now /\ new.degraded = call[c].degraded
      /\ new.after = call[c].after
  BY <1>t DEF Calls
<1>2. call' = [call EXCEPT ![c] = new]
  BY <1>t DEF Answer
<1>. HIDE DEF new
<1>3. call' \in [Callers -> Calls] /\ \A d \in Callers : call'[d] = IF d = c THEN new ELSE call[d]
  BY <1>t, <1>1, <1>2
<1>4. ClockTypes'
  BY <1>t, <1>1, <1>3 DEF Dated, ClockTypes
<1>5. Flown' /\ Kept'
  BY DEF Dated, Flown, Kept, CacheTTL
<1>6. Answered'
  <2>. SUFFICES ASSUME ~valid, NEW d \in Callers
                PROVE  /\ (Accepted(d)' => AcceptedBy(d, Timeout + CacheTTL + MaxStale)')
                       /\ (call'[d].pc = "fresh" /\ call'[d].degraded = TRUE
                             => AcceptedBy(d, Timeout + DegradedTTL)')
    BY DEF Answered
  <2>1. CASE d # c
    BY <1>3, <2>1 DEF Dated, Answered, Accepted, AcceptedBy, CacheTTL, MaxStale
  <2>2. CASE d = c
    <3>1. call'[d].at = now /\ call'[d].pc = how /\ call'[d].degraded = call[c].degraded
      BY <1>1, <1>3, <2>2
    <3>2. /\ now < revAt + (Timeout + CacheTTL + MaxStale)
          /\ (how = "fresh" /\ call[c].degraded = TRUE => now < revAt + (Timeout + DegradedTTL))
      BY <1>t, EntryWindow
    <3>. QED
      BY <3>1, <3>2 DEF AcceptedBy, CacheTTL, MaxStale
  <2>. QED
    BY <2>1, <2>2
<1>7. LoggedOut'
  BY <1>1, <1>3 DEF Dated, LoggedOut, Accepted
<1>. QED
  BY <1>4, <1>5, <1>6, <1>7 DEF Dated

\* Validate, up to the flight and after it.
LEMMA CallersDated ==
    ASSUME Dated, TypeInst', inst' = inst, NEW c \in Callers,
           ValidateBegin(c) \/ CacheGet(c) \/ SingleFlight(c) \/ StaleGet(c)
    PROVE  Dated'
<1>t. /\ call \in [Callers -> Calls] /\ call[c] \in Calls /\ call[c].at <= now /\ now \in Nat
      /\ (call[c].after = TRUE => logout = "quiet")
      /\ flight \in Flights
  BY DEF Dated, ClockTypes, TypeInst, LoggedOut
<1>u. UNCHANGED <<now, valid, revAt, logout>>
  BY DEF ValidateBegin, CacheGet, SingleFlight, StaleGet, serverVars
<1>g. ASSUME NEW x \in {"join", "wait"}
      PROVE  /\ [call[c] EXCEPT !.pc = x] \in Calls /\ [call[c] EXCEPT !.pc = x].pc = x
             /\ [call[c] EXCEPT !.pc = x].at = call[c].at
             /\ [call[c] EXCEPT !.pc = x].after = call[c].after
  BY <1>t DEF Calls
<1>1. CASE ValidateBegin(c)
  <2>. DEFINE new == [pc |-> "get", degraded |-> ~streamUp, at |-> 0, after |-> logout = "quiet"]
  <2>1. new \in Calls /\ new.pc = "get" /\ new.at = 0 /\ (new.after = TRUE => logout = "quiet")
    BY DEF Calls
  <2>2. call' = [call EXCEPT ![c] = new] /\ UNCHANGED <<entry, flight>>
    BY <1>1 DEF ValidateBegin
  <2>. HIDE DEF new
  <2>3. new.pc \notin {"fresh", "origin", "stale"} /\ new.at <= now
    BY <1>t, <2>1
  <2>. QED
    BY <1>u, <2>1, <2>2, <2>3, CallGoesOn
<1>2. CASE CacheGet(c)
  <2>0. UNCHANGED flight
    BY <1>2 DEF CacheGet
  <2>1. CASE Fresh(entry, call[c].degraded) /\ Answer(c, "fresh") /\ UNCHANGED entry
    <3>1. entry # NoEntry
      BY <2>1 DEF Fresh
    <3>. QED
      BY <1>u, <2>0, <2>1, <3>1, CallAnswered
  <2>2. CASE call' = [call EXCEPT ![c].pc = "join"] /\ (entry' = entry \/ entry' = NoEntry)
    <3>1. call' = [call EXCEPT ![c] = [call[c] EXCEPT !.pc = "join"]]
      BY <1>t, <2>2
    <3>. QED
      BY <1>t, <1>u, <1>g, <2>0, <2>2, <3>1, CallGoesOn
  <2>. QED
    BY <1>2, <2>1, <2>2 DEF CacheGet
<1>3. CASE SingleFlight(c)
  <2>0. call' = [call EXCEPT ![c] = [call[c] EXCEPT !.pc = "wait"]] /\ entry' = entry
    BY <1>3, <1>t DEF SingleFlight
  <2>1. CASE UNCHANGED flight
    BY <1>t, <1>u, <1>g, <2>0, <2>1, CallGoesOn
  <2>2. CASE flight.phase = "none" /\ flight' = [NoFlight EXCEPT !.phase = "sent", !.sent = now]
    <3>. DEFINE new == [call[c] EXCEPT !.pc = "wait"]
    <3>0. /\ new \in Calls /\ new.pc = "wait" /\ new.at = call[c].at /\ new.after = call[c].after
          /\ call' = [call EXCEPT ![c] = new]
      BY <1>g, <2>0
    <3>. HIDE DEF new
    <3>1. \A d \in Callers : call'[d] = IF d = c THEN new ELSE call[d]
      BY <1>t, <3>0
    <3>2. flight' = [phase |-> "sent", sent |-> now, ttl |-> 0, overtaken |-> FALSE]
      BY <2>2 DEF NoFlight
    <3>3. \A t \in Nat : [phase |-> "sent", sent |-> t, ttl |-> 0, overtaken |-> FALSE] \in Flights
      BY DEF Flights, Phases
    <3>4. flight' \in Flights /\ flight'.phase = "sent" /\ flight'.sent = now /\ flight'.ttl = 0
      BY <1>t, <3>2, <3>3
    <3>5. ClockTypes'
      BY <1>t, <1>u, <2>0, <3>0, <3>1, <3>4 DEF Dated, ClockTypes
    <3>6. Flown' /\ Kept'
      <4>1. Timeout \in Nat
        BY OptionsAssumption
      <4>. QED
        BY <1>t, <1>u, <2>0, <3>4, <4>1 DEF Dated, Flown, Kept, CacheTTL
    <3>7. Answered'
      BY <1>u, <3>0, <3>1 DEF Dated, Answered, Accepted, AcceptedBy, CacheTTL, MaxStale
    <3>8. LoggedOut'
      BY <1>u, <2>0, <3>0, <3>1, <3>4 DEF Dated, LoggedOut, Accepted
    <3>. QED
      BY <3>5, <3>6, <3>7, <3>8 DEF Dated
  <2>. QED
    BY <1>3, <2>1, <2>2 DEF SingleFlight
<1>4. CASE StaleGet(c)
  <2>0. UNCHANGED flight /\ (entry' = entry \/ entry' = NoEntry)
    BY <1>4 DEF StaleGet
  <2>1. CASE Stale(entry, call[c].degraded) /\ Answer(c, "stale")
    <3>1. entry # NoEntry /\ entry' = entry
      BY <1>4, <2>1 DEF StaleGet, Stale
    <3>. QED
      BY <1>u, <2>0, <2>1, <3>1, CallAnswered
  <2>2. CASE Answer(c, "refused")
    <3>. DEFINE new == [call[c] EXCEPT !.pc = "refused", !.at = now]
    <3>1. new \in Calls /\ new.pc = "refused" /\ new.at = now /\ new.after = call[c].after
      BY <1>t DEF Calls
    <3>2. call' = [call EXCEPT ![c] = new]
      BY <1>t, <2>2 DEF Answer
    <3>. HIDE DEF new
    <3>3. /\ new.pc \notin {"fresh", "origin", "stale"} /\ new.at <= now
          /\ (new.after = TRUE => logout = "quiet")
      BY <1>t, <3>1
    <3>. QED
      BY <1>u, <2>0, <3>1, <3>2, <3>3, CallGoesOn
  <2>. QED
    BY <1>4, <2>1, <2>2 DEF StaleGet
<1>. QED
  BY <1>1, <1>2, <1>3, <1>4

\* The flight: fp answers, the answer is added, the waiters are told.
LEMMA OriginDated ==
    ASSUME Dated, TypeInst', inst' = inst, Origin
    PROVE  Dated'
<1>t. /\ flight \in Flights /\ flight.phase \in Phases /\ flight.sent \in Nat /\ flight.ttl \in Nat
      /\ now \in Nat /\ revAt \in Nat /\ Timeout \in Nat /\ Timeout > 0
      /\ CacheTTL \in Nat /\ CacheTTL > 0 /\ MaxStale \in Nat
      /\ call \in [Callers -> Calls] /\ revAt <= now
  BY OptionsAssumption DEF Dated, ClockTypes, TypeInst, Flights, CacheTTL, MaxStale
<1>u. UNCHANGED <<now, valid, revAt, logout>>
  BY DEF Origin, ValidateToken, RpcFails, PutIfGen, Add, FlightEnds, serverVars
<1>1. CASE ValidateToken
  <2>1. PICK ttl \in {0, CacheTTL} :
           flight' = [flight EXCEPT !.phase = IF valid THEN "yes" ELSE "no",
                                    !.ttl = IF valid THEN ttl ELSE 0]
    BY <1>1 DEF ValidateToken
  <2>2. /\ flight' \in Flights /\ flight'.phase = (IF valid THEN "yes" ELSE "no")
        /\ flight'.sent = flight.sent /\ flight'.ttl \in {0, CacheTTL}
    <3>1. \A x \in {"yes", "no"}, n \in Nat :
             LET f == [flight EXCEPT !.phase = x, !.ttl = n] IN
             f \in Flights /\ f.phase = x /\ f.sent = flight.sent /\ f.ttl = n
      BY <1>t DEF Flights, Phases
    <3>2. CASE valid
      <4>1. flight' = [flight EXCEPT !.phase = "yes", !.ttl = ttl] /\ ttl \in Nat
        BY <1>t, <2>1, <3>2
      <4>. QED
        BY <3>1, <3>2, <4>1
    <3>3. CASE ~valid
      <4>1. flight' = [flight EXCEPT !.phase = "no", !.ttl = 0]
        BY <2>1, <3>3
      <4>. QED
        BY <3>1, <3>3, <4>1
    <3>. QED
      BY <3>2, <3>3
  <2>3. UNCHANGED <<entry, call>> /\ flight.phase = "sent"
    BY <1>1 DEF ValidateToken
  <2>4. ClockTypes'
    BY <1>u, <2>2, <2>3 DEF Dated, ClockTypes
  <2>5. Flown' /\ Kept'
    BY <1>u, <2>2, <2>3 DEF Dated, Flown, Kept, CacheTTL
  <2>6. Answered'
    BY <1>u, <2>3 DEF Dated, Answered, Accepted, AcceptedBy, CacheTTL, MaxStale
  <2>7. LoggedOut'
    BY <1>u, <2>2, <2>3 DEF Dated, LoggedOut, Accepted
  <2>. QED
    BY <2>4, <2>5, <2>6, <2>7 DEF Dated
<1>2. CASE RpcFails
  <2>1. /\ flight' \in Flights /\ flight'.phase = "down" /\ flight'.sent = flight.sent
        /\ flight'.ttl = flight.ttl
    BY <1>2, <1>t DEF RpcFails, Flights, Phases
  <2>2. UNCHANGED <<entry, call>> /\ flight.phase # "none"
    BY <1>2 DEF RpcFails
  <2>. QED
    BY <1>u, <2>1, <2>2, DatedStays
<1>3. CASE PutIfGen
  <2>1. /\ flight' \in Flights /\ flight'.phase \in {"add", "done"} /\ flight'.sent = flight.sent
        /\ flight'.ttl = flight.ttl
    BY <1>3, <1>t DEF PutIfGen, Flights, Phases
  <2>2. flight'.phase = "add" => flight.ttl # 0
    BY <1>3, <1>t DEF PutIfGen, Flights
  <2>3. UNCHANGED <<entry, call>> /\ flight.phase = "yes"
    BY <1>3 DEF PutIfGen
  <2>4. ClockTypes'
    BY <1>u, <2>1, <2>3 DEF Dated, ClockTypes
  <2>5. Flown' /\ Kept'
    BY <1>u, <2>1, <2>2, <2>3 DEF Dated, Flown, Kept, CacheTTL
  <2>6. Answered'
    BY <1>u, <2>3 DEF Dated, Answered, Accepted, AcceptedBy, CacheTTL, MaxStale
  <2>7. LoggedOut'
    BY <1>u, <2>1, <2>3 DEF Dated, LoggedOut, Accepted
  <2>. QED
    BY <2>4, <2>5, <2>6, <2>7 DEF Dated
<1>4. CASE Add
  <2>1. /\ flight' \in Flights /\ flight'.phase = "done" /\ flight'.sent = flight.sent
        /\ flight'.ttl = flight.ttl
    BY <1>4, <1>t DEF Add, Flights, Phases
  <2>2. UNCHANGED call /\ flight.phase = "add" /\ entry' = [at |-> now, ttl |-> flight.ttl]
    BY <1>4 DEF Add
  <2>3. flight.ttl # 0 /\ flight.ttl = CacheTTL /\ now <= flight.sent + Timeout
        /\ (~valid => flight.sent <= revAt)
    BY <2>2 DEF Dated, Flown
  <2>4. entry' \in Entries /\ entry'.at = now /\ entry'.ttl = CacheTTL
    BY <1>t, <2>2, <2>3 DEF Entries
  <2>5. ClockTypes'
    BY <1>u, <2>1, <2>2, <2>4 DEF Dated, ClockTypes
  <2>6. Flown'
    BY <1>u, <2>1, <2>2 DEF Dated, Flown, CacheTTL
  <2>7. Kept'
    BY <1>t, <1>u, <2>3, <2>4 DEF Kept, CacheTTL
  <2>8. Answered'
    BY <1>u, <2>2 DEF Dated, Answered, Accepted, AcceptedBy, CacheTTL, MaxStale
  <2>9. LoggedOut'
    BY <1>u, <2>2 DEF Dated, LoggedOut, Accepted
  <2>. QED
    BY <2>5, <2>6, <2>7, <2>8, <2>9 DEF Dated
<1>5. CASE FlightEnds
  <2>0. entry' = entry /\ flight' = NoFlight /\ flight.phase \in {"done", "no", "down"}
    BY <1>5 DEF FlightEnds
  <2>1. \A d \in Callers :
           \/ call[d].pc # "wait" /\ call'[d] = call[d]
           \/ /\ call'[d] \in Calls /\ call'[d].at = now /\ call'[d].after = call[d].after
              /\ call'[d].pc \in {"origin", "refused", "outage"}
              /\ (call'[d].pc = "origin" => flight.phase = "done")
    <3>. SUFFICES ASSUME NEW d \in Callers, call[d].pc = "wait"
                  PROVE  /\ call'[d] \in Calls /\ call'[d].at = now /\ call'[d].after = call[d].after
                         /\ call'[d].pc \in {"origin", "refused", "outage"}
                         /\ (call'[d].pc = "origin" => flight.phase = "done")
      BY <1>5 DEF FlightEnds
    <3>1. PICK x \in {"origin", "refused", "outage"} :
             /\ call'[d] = [call[d] EXCEPT !.at = now, !.pc = x]
             /\ (x = "origin" => flight.phase = "done")
      BY <1>5, <2>0 DEF FlightEnds
    <3>2. call[d] \in Calls
      BY <1>t
    <3>. QED
      BY <1>t, <3>1, <3>2 DEF Calls
  <2>2. call' \in [Callers -> Calls]
    <3>1. DOMAIN call' = Callers /\ \A d \in Callers : call'[d] \in Calls
      BY <1>5, <1>t, <2>1 DEF FlightEnds
    <3>2. call' = [d \in Callers |-> call'[d]]
      BY <1>5 DEF FlightEnds
    <3>. QED
      BY <3>1, <3>2
  <2>3. flight' \in Flights /\ flight'.phase = "none" /\ flight'.ttl = 0
    BY <2>0 DEF NoFlight, Flights, Phases
  <2>4. ClockTypes'
    BY <1>t, <1>u, <2>0, <2>1, <2>2, <2>3 DEF Dated, ClockTypes
  <2>5. Flown' /\ Kept'
    BY <1>u, <2>0, <2>3 DEF Dated, Flown, Kept, CacheTTL
  <2>6. Answered'
    <3>. SUFFICES ASSUME ~valid, NEW d \in Callers
                  PROVE  /\ (Accepted(d)' => AcceptedBy(d, Timeout + CacheTTL + MaxStale)')
                         /\ (call'[d].pc = "fresh" /\ call'[d].degraded = TRUE
                               => AcceptedBy(d, Timeout + DegradedTTL)')
      BY <1>u DEF Answered
    <3>1. CASE call'[d] = call[d]
      BY <1>u, <3>1 DEF Dated, Answered, Accepted, AcceptedBy, CacheTTL, MaxStale
    <3>2. CASE call'[d].at = now /\ call'[d].pc = "origin" /\ flight.phase = "done"
      <4>1. now <= flight.sent + Timeout /\ flight.sent <= revAt
        BY <3>2 DEF Dated, Flown
      <4>2. now < revAt + (Timeout + CacheTTL + MaxStale)
        BY <1>t, <4>1
      <4>. QED
        BY <1>u, <3>2, <4>2 DEF AcceptedBy, CacheTTL, MaxStale
    <3>3. CASE call'[d].pc \in {"refused", "outage"}
      BY <3>3 DEF Accepted
    <3>. QED
      BY <2>1, <3>1, <3>2, <3>3
  <2>7. LoggedOut'
    <3>1. \A d \in Callers : call'[d].after = TRUE => logout = "quiet" /\ ~Accepted(d)'
      BY <2>0, <2>1 DEF Dated, LoggedOut, Accepted
    <3>. QED
      BY <1>u, <2>0, <2>3, <3>1 DEF Dated, LoggedOut
  <2>. QED
    BY <2>4, <2>5, <2>6, <2>7 DEF Dated
<1>. QED
  BY <1>1, <1>2, <1>3, <1>4, <1>5 DEF Origin

\* Every step preserves Dated.
LEMMA DatedStep == Dated /\ [Next]_vars => Dated'
<1>. SUFFICES ASSUME Dated, [Next]_vars PROVE Dated'
  OBVIOUS
<1>0. TypeInst' /\ inst' = inst
  BY InstStep, InstStays DEF Dated, ClockTypes
<1>1. CASE UNCHANGED vars
  <2>1. UNCHANGED <<now, valid, revAt, call, logout, entry, flight>>
    BY <1>1 DEF vars, serverVars
  <2>. QED
    BY <1>0, <2>1, DatedStays DEF Dated, ClockTypes
<1>2. CASE \/ Publish \/ Resubscribe \/ HubRun \/ ServeWhenReady \/ Exit \/ RevokeOther
           \/ SubscriptionCut \/ Shutdown \/ ConnectionBreaks
           \/ Watch \/ StreamEnds \/ RecvReady \/ StreamUp \/ Recv
  BY <1>0, <1>2, PathDated
<1>3. CASE Revoke \/ LogoutRpc \/ LogoutDrop
  BY <1>0, <1>3, LogoutDated
<1>4. CASE Tick
  BY <1>0, <1>4, TickDated
<1>5. CASE Origin
  BY <1>0, <1>5, OriginDated
<1>6. CASE \E c \in Callers : ValidateBegin(c) \/ CacheGet(c) \/ SingleFlight(c) \/ StaleGet(c)
  BY <1>0, <1>6, CallersDated
<1>. QED
  BY <1>1, <1>2, <1>3, <1>4, <1>5, <1>6 DEF Next, Server, Client

\* Nothing is cached or under way to begin with.
LEMMA DatedInit == Init => Dated
<1>. SUFFICES ASSUME Init PROVE Dated
  OBVIOUS
<1>1. NoFlight \in Flights /\ NoFlight.phase = "none" /\ NoFlight.ttl = 0
  BY DEF Flights, Phases, NoFlight
<1>2. NoCall \in Calls /\ NoCall.pc = "idle" /\ NoCall.after = FALSE /\ NoCall.at = 0
  BY DEF Calls, NoCall
<1>3. ClockTypes
  BY <1>1, <1>2, InstInit DEF Init, ClockTypes
<1>4. Flown /\ Kept /\ Answered
  BY <1>1 DEF Init, Flown, Kept, Answered
<1>5. LoggedOut
  BY <1>2 DEF Init, LoggedOut
<1>. QED
  BY <1>3, <1>4, <1>5 DEF Dated

\* cache.get, Auth.Validate, Auth.Logout: for any number of callers, any windows and faults,
\* and without any help of the push, a revoked token is accepted at most one timeout and one
\* window longer (and the staleness allowed), one timeout and the shorter window where the
\* stream was known to be down, and not at all after a Logout that no validation overlapped.
THEOREM StalenessBounded == Spec => []BoundedStaleness
<1>1. Dated => BoundedStaleness
  <2>. SUFFICES ASSUME Dated, NEW c \in Callers
                PROVE  /\ (Accepted(c) /\ ~valid => AcceptedBy(c, Timeout + CacheTTL + MaxStale))
                       /\ (call[c].pc = "fresh" /\ call[c].degraded /\ ~valid
                             => AcceptedBy(c, Timeout + DegradedTTL))
                       /\ (call[c].after => ~Accepted(c))
    BY DEF BoundedStaleness
  <2>1. call[c].degraded \in BOOLEAN /\ call[c].after \in BOOLEAN
    BY DEF Dated, ClockTypes, Calls
  <2>. QED
    BY <2>1 DEF Dated, Answered, LoggedOut
<1>. QED
  BY <1>1, DatedStep, DatedInit, PTL DEF Spec
=============================================================================
