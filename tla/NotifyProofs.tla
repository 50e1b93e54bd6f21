--------------------------- MODULE NotifyProofs ---------------------------
(***************************************************************************)
(* Proofs, for any callers, attempts, providers, faults and operations of  *)
(* the console, that an idempotency key sends one message, that the record *)
(* of it stays, and that what is sent was built from settings no older     *)
(* than the request.                                                       *)
(*                                                                         *)
(* NoDuplicate is not inductive: that the second message is not sent is    *)
(* decided by who holds the lease, and that it is still held when its      *)
(* holder sends is a matter of how long ago it was renewed (LeaseInv).     *)
(***************************************************************************)
EXTENDS Notify, FiniteSetTheorems, TLAPS

Begun    == {"load", "acquire", "get", "candidates", "renew", "sending"}
Holding  == {"candidates", "renew", "sending", "settle"}
Checked  == {"acquire", "get", "candidates", "renew", "sending"}
Cand     == [p : Providers, ver : Nat]
Contents == [st : {"none", "on", "off"}, uses : SUBSET Vars, vars : SUBSET Vars]
Requests == [pc : Begun \cup Holding \cup {"none", "over", "busy", "crashed"}, round : {1, 2},
             cands : Seq(Cand), ver : Nat, tpl : Contents, params : SUBSET Vars,
             ok : BOOLEAN, gone : BOOLEAN, age : {0, 1}, since : [Providers -> Nat]]

ConsoleTypes ==
    /\ row \in [Providers -> [there : BOOLEAN, on : BOOLEAN, ver : Nat]]
    /\ link \in [Providers -> [there : BOOLEAN, on : BOOLEAN, priority : {0, 1}]]
    /\ tpl \in Contents
    /\ op \in [pc : {"none", "update", "link"}, p : Providers \cup {"none"}, seen : BOOLEAN]
    /\ op.pc # "none" => op.p \in Providers

Types ==
    /\ inst \in Instances
    /\ rq \in [Req -> Requests]
    /\ key \in [st : {"none", "processing", "done"}, by : Req \cup {<<>>}, ttl : 0..TTL]
    /\ key.st = "processing" => key.by \in Req /\ key.ttl > 0
    /\ cl \in [Clients -> [n : Nat, pc : {"ready", "waiting", "sent", "failed"}]]
    /\ delivered \in Nat /\ excused \in BOOLEAN

\* An attempt that is still to be made has left no trace; success is noted at its end; and
\* who turns to a provider has one.
Fresh ==
    /\ \A c \in Clients, k \in 1..Attempts : k > cl[c].n => rq[<<c, k>>].pc = "none"
    /\ \A r \in Req : /\ rq[r].pc \in Begun => ~rq[r].ok
                      /\ rq[r].pc \in {"renew", "sending"} => rq[r].cands # <<>>

\* Unless a fault is to blame: who sends holds the lease, which was renewed no longer ago
\* than its age says; and a message that was sent is recorded, or about to be by its sender.
Held == \A r \in Req : rq[r].pc \in Holding => Owns(r) /\ key.ttl + rq[r].age >= TTL
Recorded == key.st = "done" \/ \E r \in Req : rq[r].pc = "settle" /\ rq[r].ok
LeaseInv == excused \/ (Held /\ delivered <= 1 /\ (delivered = 1 => Recorded))

SendInv == Types /\ ConsoleTypes /\ Fresh /\ LeaseInv

-----------------------------------------------------------------------------
\* What the assumptions say of the instance.
LEMMA Constants ==
    /\ Attempts \in Nat /\ IsFiniteSet(Providers)
    /\ inst \in Instances => inst.params \subseteq SUBSET Vars
BY NotifyAssumption

\* An attempt that has not begun.
LEMMA NoReqTyped == NoReq \in Requests
<1>1. <<>> \in Seq(Cand) /\ [p \in Providers |-> 0] \in [Providers -> Nat]
  OBVIOUS
<1>2. NoTpl \in Contents
  BY DEF NoTpl, Contents
<1>. QED
  BY <1>1, <1>2 DEF NoReq, Requests, Begun, Holding

\* Nothing is sent to begin with.
LEMMA SendInit == Init => SendInv
<1>. SUFFICES ASSUME Init PROVE SendInv
  OBVIOUS
<1>1. Types
  <2>1. rq \in [Req -> Requests]
    BY NoReqTyped DEF Init
  <2>2. /\ key \in [st : {"none", "processing", "done"}, by : Req \cup {<<>>}, ttl : 0..TTL]
        /\ key.st = "none"
    BY DEF Init, NoKey, TTL
  <2>3. cl \in [Clients -> [n : Nat, pc : {"ready", "waiting", "sent", "failed"}]]
    BY DEF Init
  <2>. QED
    BY <2>1, <2>2, <2>3 DEF Init, Types
<1>2. ConsoleTypes
  <2>1. tpl \in Contents
    BY DEF Init, Contents
  <2>2. link \in [Providers -> [there : BOOLEAN, on : BOOLEAN, priority : {0, 1}]]
    BY DEF Init, NeedsRecipient
  <2>. QED
    BY <2>1, <2>2 DEF Init, ConsoleTypes, NoOp
<1>3. \A r \in Req : rq[r].pc = "none"
  BY DEF Init, NoReq
<1>. QED
  BY <1>1, <1>2, <1>3 DEF Init, SendInv, Fresh, LeaseInv, Held, Begun, Holding, Req

-----------------------------------------------------------------------------
\* A request that has begun goes on, and notes success only at its end.
LEMMA FreshMoves ==
    ASSUME Types, Fresh, NEW r \in Req, NEW new \in Requests, rq[r].pc # "none", Set(r, new),
           new.pc \in Begun => ~new.ok, new.pc \in {"renew", "sending"} => new.cands # <<>>,
           UNCHANGED cl
    PROVE  Fresh' /\ rq' \in [Req -> Requests]
BY DEF Types, Fresh, Set, Req

\* A request goes on without touching the lease, which it held if it holds it now.
LEMMA LeaseMoves ==
    ASSUME Types, LeaseInv, NEW r \in Req, NEW new \in Requests, Set(r, new),
           UNCHANGED key, delivered' = delivered, excused' = excused,
           new.pc \in Holding => rq[r].pc \in Holding /\ new.age = rq[r].age,
           rq[r].pc = "settle" /\ rq[r].ok => new.pc = "settle" /\ new.ok
    PROVE  LeaseInv'
<1>. SUFFICES ASSUME ~excused PROVE Held' /\ (Recorded => Recorded')
  BY DEF LeaseInv
<1>1. \A q \in Req : rq'[q] = IF q = r THEN new ELSE rq[q]
  BY DEF Types, Set
<1>2. Held'
  BY <1>1 DEF LeaseInv, Held, Owns
<1>3. Recorded => Recorded'
  BY <1>1 DEF Recorded
<1>. QED
  BY <1>2, <1>3

\* Records of requests.
LEMMA Fields ==
    ASSUME NEW q \in Requests
    PROVE  /\ \A x \in Begun \cup Holding : [q EXCEPT !.pc = x] \in Requests
           /\ [q EXCEPT !.gone = TRUE] \in Requests
           /\ \A x \in {"over", "busy", "crashed"}, b \in BOOLEAN :
                 [NoReq EXCEPT !.pc = x, !.ok = b] \in Requests
           /\ q.age \in {0, 1} /\ q.ok \in BOOLEAN /\ q.cands \in Seq(Cand)
BY NoReqTyped DEF Requests, Begun, Holding

-----------------------------------------------------------------------------
\* The SDK: a new attempt has a slot of its own.
LEMMA SendKeeps ==
    ASSUME SendInv, NEW c \in Clients, Send(c), UNCHANGED inst
    PROVE  SendInv'
<1>. DEFINE r == <<c, cl[c].n + 1>>
<1>1. PICK params \in inst.params :
         Set(r, [NoReq EXCEPT !.pc = "load", !.params = params,
                              !.since = [p \in Providers |-> row[p].ver]])
  BY DEF Send
<1>. DEFINE new == [NoReq EXCEPT !.pc = "load", !.params = params,
                                 !.since = [p \in Providers |-> row[p].ver]]
<1>2. params \in SUBSET Vars /\ [p \in Providers |-> row[p].ver] \in [Providers -> Nat]
  BY Constants DEF SendInv, Types, ConsoleTypes
<1>3. new \in Requests /\ new.pc = "load" /\ ~new.ok
  <2>1. /\ [NoReq EXCEPT !.pc = "load", !.params = params] \in Requests
        /\ ~NoReq.ok
    BY NoReqTyped, <1>2 DEF Requests, Begun, NoReq
  <2>. QED
    BY <2>1, <1>2, NoReqTyped DEF Requests
<1>4. Set(r, new)
  BY <1>1
<1>5. cl' = [cl EXCEPT ![c] = [n |-> cl[c].n + 1, pc |-> "waiting"]] /\ cl[c].n \in Nat
  BY DEF Send, SendInv, Types
<1>. HIDE DEF new
<1>6. r \in Req => rq[r].pc = "none"
  BY <1>5 DEF SendInv, Fresh, Req
<1>7. \A q \in Req : rq'[q] = IF q = r THEN new ELSE rq[q]
  BY <1>4 DEF SendInv, Types, Set
<1>8. UNCHANGED <<key, console, delivered, excused>>
  BY DEF Send, history
<1>9. Types'
  <2>1. rq' \in [Req -> Requests]
    BY <1>3, <1>4 DEF SendInv, Types, Set
  <2>2. cl' \in [Clients -> [n : Nat, pc : {"ready", "waiting", "sent", "failed"}]]
    BY <1>5 DEF SendInv, Types
  <2>. QED
    BY <2>1, <2>2, <1>8 DEF SendInv, Types
<1>10. ConsoleTypes'
  BY <1>8 DEF SendInv, ConsoleTypes, console
<1>11. Fresh'
  <2>1. \A d \in Clients, k \in 1..Attempts : k > cl'[d].n => k > cl[d].n /\ <<d, k>> # r
    BY <1>5, Constants DEF SendInv, Types
  <2>. QED
    BY <2>1, <1>3, <1>7 DEF SendInv, Fresh, Req
<1>12. LeaseInv'
  <2>1. Held => Held'
    BY <1>3, <1>7, <1>8 DEF Held, Owns, Holding
  <2>2. Recorded => Recorded'
    BY <1>6, <1>7, <1>8 DEF Recorded
  <2>. QED
    BY <2>1, <2>2, <1>8 DEF SendInv, LeaseInv
<1>. QED
  BY <1>9, <1>10, <1>11, <1>12 DEF SendInv

\* ... and a caller that gives up leaves the request to itself.
LEMMA SendOnceKeeps ==
    ASSUME SendInv, NEW c \in Clients, SendOnce(c), UNCHANGED inst
    PROVE  SendInv'
<1>. DEFINE r == <<c, cl[c].n>>
<1>1. UNCHANGED <<key, console, delivered, excused>>
  BY DEF SendOnce, history
<1>2. PICK x \in {"ready", "sent", "failed"} : cl' = [cl EXCEPT ![c].pc = x]
  <2>1. cl' = [cl EXCEPT ![c].pc = IF cl[c].n < inst.attempts THEN "ready" ELSE "failed"]
        \/ cl' = [cl EXCEPT ![c].pc = IF rq[r].ok THEN "sent" ELSE "failed"]
    BY DEF SendOnce, Retry
  <2>. QED
    BY <2>1
<1>3. /\ cl' \in [Clients -> [n : Nat, pc : {"ready", "waiting", "sent", "failed"}]]
      /\ \A d \in Clients : cl'[d].n = cl[d].n
  BY <1>2 DEF SendInv, Types
<1>4. CASE UNCHANGED rq
  BY <1>1, <1>3, <1>4 DEF SendInv, Types, ConsoleTypes, Fresh, LeaseInv, Held, Recorded, Owns, console
<1>5. CASE Set(r, [rq[r] EXCEPT !.gone = TRUE])
  <2>. DEFINE new == [rq[r] EXCEPT !.gone = TRUE]
  <2>1. \A q \in Req : /\ rq'[q].pc = rq[q].pc /\ rq'[q].ok = rq[q].ok
                        /\ rq'[q].age = rq[q].age /\ rq'[q].cands = rq[q].cands
                        /\ rq'[q] \in Requests
    <3>1. CASE r \in Req
      <4>1. /\ new \in Requests /\ new.pc = rq[r].pc /\ new.ok = rq[r].ok /\ new.age = rq[r].age
            /\ new.cands = rq[r].cands
        <5>1. rq[r] \in Requests
          BY <3>1 DEF SendInv, Types
        <5>. QED
          BY <5>1 DEF Requests
      <4>. HIDE DEF new
      <4>. QED
        BY <4>1, <1>5 DEF SendInv, Types, Set, new
    <3>2. CASE r \notin Req
      BY <3>2, <1>5 DEF SendInv, Types, Set
    <3>. QED
      BY <3>1, <3>2
  <2>2. Types' /\ ConsoleTypes'
    <3>1. rq' \in [Req -> Requests]
      BY <2>1, <1>5 DEF SendInv, Types, Set
    <3>. QED
      BY <3>1, <1>1, <1>3 DEF SendInv, Types, ConsoleTypes, console
  <2>3. Fresh'
    BY <2>1, <1>3, Constants DEF SendInv, Fresh, Req
  <2>4. LeaseInv'
    BY <2>1, <1>1 DEF SendInv, LeaseInv, Held, Recorded, Owns
  <2>. QED
    BY <2>2, <2>3, <2>4 DEF SendInv
<1>. QED
  BY <1>4, <1>5 DEF SendOnce

-----------------------------------------------------------------------------
\* NotifyService.Send up to the lease, and what it does without touching it.
LEMMA LoadKeeps ==
    ASSUME SendInv, NEW r \in Req, LoadTemplate(r) \/ AcquireGet(r), UNCHANGED inst
    PROVE  SendInv'
<1>1. UNCHANGED <<key, console, cl, delivered, excused>>
  BY DEF LoadTemplate, AcquireGet, history
<1>2. rq[r] \in Requests /\ tpl \in Contents /\ rq[r].pc \in {"load", "get"} /\ ~rq[r].ok
  BY DEF SendInv, Types, ConsoleTypes, Fresh, LoadTemplate, AcquireGet, Begun
<1>3. PICK new \in Requests : Set(r, new) /\ new.pc \notin Holding /\ (new.pc \in Begun => ~new.ok)
  <2>. DEFINE a == [rq[r] EXCEPT !.pc = "acquire", !.tpl = tpl]
              b == [rq[r] EXCEPT !.pc = "acquire", !.round = 2]
              c(x, ok) == [NoReq EXCEPT !.pc = x, !.ok = ok]
  <2>1. a \in Requests /\ a.pc = "acquire" /\ ~a.ok
    BY <1>2 DEF Requests, Begun
  <2>2. b \in Requests /\ b.pc = "acquire" /\ ~b.ok
    BY <1>2 DEF Requests, Begun
  <2>3. \A x \in {"over", "busy"}, ok \in BOOLEAN : c(x, ok) \in Requests /\ c(x, ok).pc = x
    <3>1. "pc" \in DOMAIN NoReq /\ "ok" \in DOMAIN NoReq
      BY DEF NoReq
    <3>. QED
      BY <3>1, <1>2, Fields
  <2>4. \/ Set(r, a) \/ Set(r, b)
        \/ \E x \in {"over", "busy"}, ok \in BOOLEAN : Set(r, c(x, ok))
    BY DEF LoadTemplate, AcquireGet, End
  <2>. HIDE DEF a, b, c
  <2>. QED
    BY <2>1, <2>2, <2>3, <2>4 DEF Holding, Begun
<1>4. Types' /\ ConsoleTypes' /\ Fresh'
  BY <1>1, <1>2, <1>3, FreshMoves DEF SendInv, Types, ConsoleTypes, console, Holding
<1>5. LeaseInv'
  BY <1>1, <1>2, <1>3, LeaseMoves DEF SendInv
<1>. QED
  BY <1>4, <1>5 DEF SendInv

\* SETNX: who finds no key finds no message sent and no other holder.
LEMMA AcquireKeeps ==
    ASSUME SendInv, NEW r \in Req, AcquireSet(r), UNCHANGED inst
    PROVE  SendInv'
<1>1. UNCHANGED <<console, cl, delivered, excused>> /\ rq[r].pc = "acquire"
  BY DEF AcquireSet, history
<1>2. rq[r] \in Requests /\ ~rq[r].ok
  BY <1>1 DEF SendInv, Types, Fresh, Begun
<1>3. CASE key.st # "none"
  <2>. DEFINE new == [rq[r] EXCEPT !.pc = "get"]
  <2>1. new \in Requests /\ new.pc = "get" /\ ~new.ok /\ Set(r, new) /\ UNCHANGED key
    BY <1>2, <1>3 DEF AcquireSet, Go, Requests, Begun
  <2>. HIDE DEF new
  <2>2. Types' /\ ConsoleTypes' /\ Fresh'
    BY <1>1, <1>2, <2>1, FreshMoves DEF SendInv, Types, ConsoleTypes, console
  <2>3. LeaseInv'
    BY <1>1, <1>2, <2>1, LeaseMoves DEF SendInv, Holding
  <2>. QED
    BY <2>2, <2>3 DEF SendInv
<1>4. CASE key.st = "none"
  <2>. DEFINE new == [rq[r] EXCEPT !.pc = "candidates", !.age = 0]
  <2>1. /\ new \in Requests /\ new.pc = "candidates" /\ ~new.ok /\ new.age = 0 /\ Set(r, new)
        /\ key' = [st |-> "processing", by |-> r, ttl |-> TTL]
    BY <1>2, <1>4 DEF AcquireSet, Requests, Begun
  <2>. HIDE DEF new
  <2>2. Types' /\ ConsoleTypes' /\ Fresh'
    <3>1. Fresh' /\ rq' \in [Req -> Requests]
      BY <1>1, <2>1, FreshMoves DEF SendInv
    <3>2. /\ key' \in [st : {"none", "processing", "done"}, by : Req \cup {<<>>}, ttl : 0..TTL]
          /\ key'.by \in Req /\ key'.ttl > 0
      BY <2>1 DEF TTL
    <3>. QED
      BY <1>1, <3>1, <3>2 DEF SendInv, Types, ConsoleTypes, console
  <2>3. \A q \in Req : rq'[q] = IF q = r THEN new ELSE rq[q]
    BY <2>1 DEF SendInv, Types, Set
  <2>4. LeaseInv'
    <3>. SUFFICES ASSUME ~excused PROVE Held' /\ delivered = 0
      BY <1>1 DEF LeaseInv
    <3>1. \A q \in Req : rq[q].pc \notin Holding
      BY <1>4 DEF SendInv, LeaseInv, Held, Owns
    <3>2. delivered = 0
      BY <3>1, <1>4 DEF SendInv, Types, LeaseInv, Recorded, Holding
    <3>3. Held'
      BY <2>1, <2>3, <3>1 DEF Held, Owns, TTL
    <3>. QED
      BY <3>2, <3>3
  <2>. QED
    BY <2>2, <2>4 DEF SendInv
<1>. QED
  BY <1>3, <1>4

-----------------------------------------------------------------------------
\* candidates returns one or more candidates, each with the version its row has.
LEMMA CandidatesFound ==
    ASSUME SendInv, NEW ps \in SUBSET Providers, ps # {}, NEW s \in Orders(ps),
           NEW cands, cands = [i \in DOMAIN s |-> [p |-> s[i], ver |-> row[s[i]].ver]]
    PROVE  /\ cands \in Seq(Cand) /\ cands # <<>> /\ <<cands[1]>> \in Seq(Cand) /\ <<cands[1]>> # <<>>
           /\ \A i \in DOMAIN cands : cands[i].ver = row[cands[i].p].ver
           /\ cands[1].ver = row[cands[1].p].ver
<1>1. IsFiniteSet(ps)
  BY Constants, FS_Subset
<1>2. Cardinality(ps) \in Nat /\ Cardinality(ps) # 0
  BY <1>1, FS_CardinalityType, FS_EmptySet
<1>. DEFINE n == Cardinality(ps)
<1>3. s \in [1..n -> ps]
  BY DEF Orders
<1>. HIDE DEF n
<1>4. n \in Nat /\ 1 \in 1..n
  BY <1>2 DEF n
<1>5. \A p \in ps : row[p].ver \in Nat
  BY DEF SendInv, ConsoleTypes
<1>6. cands \in [1..n -> Cand] /\ \A i \in 1..n : cands[i].ver = row[cands[i].p].ver
  BY <1>3, <1>5 DEF Cand
<1>. QED
  BY <1>4, <1>6

\* The holder of the lease looks for candidates.
LEMMA CandidatesKeep ==
    ASSUME SendInv, NEW r \in Req, Candidates(r), UNCHANGED inst
    PROVE  SendInv'
<1>1. UNCHANGED <<key, console, cl, delivered, excused>> /\ rq[r].pc = "candidates"
  BY DEF Candidates, history
<1>2. rq[r] \in Requests /\ ~rq[r].ok
  BY <1>1 DEF SendInv, Types, Fresh, Begun
<1>3. PICK new \in Requests : /\ Set(r, new) /\ new.pc \in {"renew", "settle"} /\ ~new.ok
                              /\ new.age = rq[r].age /\ (new.pc = "renew" => new.cands # <<>>)
  <2>. DEFINE ps == {p \in Providers : link[p].there /\ link[p].on /\ row[p].there /\ row[p].on}
              a == [rq[r] EXCEPT !.pc = "settle", !.ok = FALSE]
              b(cands) == [rq[r] EXCEPT !.pc = "renew", !.cands = cands]
  <2>1. a \in Requests /\ a.pc = "settle" /\ ~a.ok /\ a.age = rq[r].age
    BY <1>2 DEF Requests, Holding
  <2>2. \A cands \in Seq(Cand) : /\ b(cands) \in Requests /\ b(cands).pc = "renew" /\ ~b(cands).ok
                                /\ b(cands).age = rq[r].age /\ b(cands).cands = cands
    BY <1>2 DEF Requests, Holding
  <2>3. Set(r, a) \/ \E cands \in Seq(Cand) : cands # <<>> /\ Set(r, b(cands))
    <3>1. CASE ps = {}
      BY <3>1 DEF Candidates
    <3>2. CASE ps # {}
      <4>1. PICK s \in Orders(ps) :
               Set(r, b(IF NeedsRecipient THEN [i \in DOMAIN s |-> [p |-> s[i], ver |-> row[s[i]].ver]]
                        ELSE <<[i \in DOMAIN s |-> [p |-> s[i], ver |-> row[s[i]].ver]][1]>>))
        BY <3>2 DEF Candidates
      <4>. DEFINE cs == [i \in DOMAIN s |-> [p |-> s[i], ver |-> row[s[i]].ver]]
      <4>2. cs \in Seq(Cand) /\ cs # <<>> /\ <<cs[1]>> \in Seq(Cand) /\ <<cs[1]>> # <<>>
        BY <3>2, CandidatesFound
      <4>3. Set(r, b(IF NeedsRecipient THEN cs ELSE <<cs[1]>>))
        BY <4>1
      <4>. HIDE DEF cs, b
      <4>. QED
        BY <4>2, <4>3
    <3>. QED
      BY <3>1, <3>2
  <2>. HIDE DEF a, b
  <2>. QED
    BY <2>1, <2>2, <2>3
<1>4. Types' /\ ConsoleTypes' /\ Fresh'
  BY <1>1, <1>2, <1>3, FreshMoves DEF SendInv, Types, ConsoleTypes, console
<1>5. LeaseInv'
  BY <1>1, <1>2, <1>3, LeaseMoves DEF SendInv, Holding
<1>. QED
  BY <1>4, <1>5 DEF SendInv

\* A round of dispatch's loop begins: the lease is renewed, or a fault is noted.
LEMMA NextKeeps ==
    ASSUME SendInv, NEW r \in Req, NextCandidate(r), UNCHANGED inst
    PROVE  SendInv'
<1>1. UNCHANGED <<console, cl, delivered>> /\ RenewIdem(r) /\ rq[r].pc = "renew"
  BY DEF NextCandidate, RenewIdem
<1>2. rq[r] \in Requests /\ ~rq[r].ok /\ rq[r].cands # <<>>
  BY <1>1 DEF SendInv, Types, Fresh, Begun
<1>3. PICK new \in Requests : /\ Set(r, new) /\ new.pc \in {"sending", "settle"} /\ ~new.ok
                              /\ new.age = 0 /\ new.cands = rq[r].cands
  <2>. DEFINE a == [rq[r] EXCEPT !.age = 0, !.pc = "settle"]
              b(v) == [rq[r] EXCEPT !.age = 0, !.pc = "sending", !.ver = v]
  <2>1. a \in Requests /\ a.pc = "settle" /\ ~a.ok /\ a.age = 0 /\ a.cands = rq[r].cands
    BY <1>2 DEF Requests, Holding
  <2>2. \A v \in Nat : /\ b(v) \in Requests /\ b(v).pc = "sending" /\ ~b(v).ok /\ b(v).age = 0
                       /\ b(v).cands = rq[r].cands
    BY <1>2 DEF Requests, Holding
  <2>3. Set(r, a) \/ Set(r, b(Head(rq[r].cands).ver))
    BY DEF NextCandidate, ProviderFor
  <2>4. Head(rq[r].cands).ver \in Nat
    <3>1. rq[r].cands \in Seq(Cand)
      BY <1>2 DEF Requests
    <3>2. Head(rq[r].cands) \in Cand
      BY <1>2, <3>1
    <3>. QED
      BY <3>2 DEF Cand
  <2>. HIDE DEF a, b
  <2>. QED
    BY <2>1, <2>2, <2>3, <2>4
<1>4. \/ UNCHANGED <<key, excused>> /\ ~Owns(r)
      \/ key' = [key EXCEPT !.ttl = TTL] /\ excused' = excused /\ Owns(r)
      \/ UNCHANGED key /\ excused'
  BY <1>1 DEF RenewIdem
<1>5. Types' /\ ConsoleTypes' /\ Fresh'
  <2>1. Fresh' /\ rq' \in [Req -> Requests]
    BY <1>1, <1>2, <1>3, FreshMoves DEF SendInv
  <2>2. /\ key' \in [st : {"none", "processing", "done"}, by : Req \cup {<<>>}, ttl : 0..TTL]
        /\ key'.st = "processing" => key'.by \in Req /\ key'.ttl > 0
    BY <1>4 DEF SendInv, Types, TTL
  <2>. QED
    BY <1>1, <1>4, <2>1, <2>2 DEF SendInv, Types, ConsoleTypes, console
<1>6. LeaseInv'
  <2>. SUFFICES ASSUME ~excused' PROVE Held' /\ delivered = 0
    BY <1>1 DEF LeaseInv
  <2>1. Held /\ Owns(r) /\ delivered <= 1 /\ (delivered = 1 => Recorded)
    BY <1>1, <1>4 DEF SendInv, LeaseInv, Held, Holding, Types
  <2>2. key' = [key EXCEPT !.ttl = TTL]
    BY <2>1, <1>4
  <2>3. \A q \in Req : q # r => rq[q].pc \notin Holding
    BY <2>1 DEF Held, Owns
  <2>4. delivered = 0
    BY <2>1, <2>3, <1>1 DEF Recorded, Owns, Holding, SendInv, Types
  <2>5. \A q \in Req : rq'[q] = IF q = r THEN new ELSE rq[q]
    BY <1>3 DEF SendInv, Types, Set
  <2>6. key'.st = "processing" /\ key'.by = r /\ key'.ttl = TTL
    BY <2>1, <2>2 DEF SendInv, Types, Owns
  <2>7. Held'
    BY <2>3, <2>5, <2>6, <1>3 DEF Held, Owns, TTL
  <2>. QED
    BY <2>4, <2>7
<1>. QED
  BY <1>5, <1>6 DEF SendInv

\* An attempt at a provider: it holds the lease, so nothing was sent before.
LEMMA SendViaKeeps ==
    ASSUME SendInv, NEW r \in Req, SendVia(r), UNCHANGED inst
    PROVE  SendInv'
<1>1. UNCHANGED <<key, console, cl>> /\ rq[r].pc = "sending"
  BY DEF SendVia
<1>2. rq[r] \in Requests /\ ~rq[r].ok /\ rq[r].cands # <<>>
  BY <1>1 DEF SendInv, Types, Fresh, Begun
<1>. DEFINE left == Tail(rq[r].cands)
            new(ok) == [rq[r] EXCEPT !.pc = IF ok \/ left = <<>> THEN "settle" ELSE "renew",
                                     !.ok = ok, !.cands = left]
<1>3. \A ok \in BOOLEAN :
         /\ new(ok) \in Requests /\ new(ok).age = rq[r].age /\ new(ok).ok = ok
         /\ IF ok \/ left = <<>> THEN new(ok).pc = "settle" ELSE new(ok).pc = "renew"
         /\ new(ok).pc = "renew" => new(ok).cands # <<>>
  <2>1. left \in Seq(Cand)
    BY <1>2 DEF Requests
  <2>. HIDE DEF left
  <2>. QED
    BY <1>2, <2>1 DEF Requests, Holding
<1>4. \/ delivered' = delivered + 1 /\ excused' = excused /\ Set(r, new(TRUE))
      \/ delivered' = delivered /\ excused' = excused /\ Set(r, new(FALSE))
      \/ delivered' = delivered + 1 /\ excused' = TRUE /\ Set(r, new(FALSE))
  BY DEF SendVia
<1>. HIDE DEF left, new
<1>5. Types' /\ ConsoleTypes' /\ Fresh'
  <2>1. Fresh' /\ rq' \in [Req -> Requests]
    BY <1>1, <1>2, <1>3, <1>4, FreshMoves DEF SendInv, Begun
  <2>. QED
    <3>1. delivered' \in Nat /\ excused' \in BOOLEAN
      <4>1. delivered' = delivered \/ delivered' = delivered + 1
        BY <1>4
      <4>2. excused' = excused \/ excused' = TRUE
        BY <1>4
      <4>3. delivered \in Nat /\ excused \in BOOLEAN
        BY DEF SendInv, Types
      <4>4. delivered' \in Nat
        BY <4>1, <4>3
      <4>5. excused' \in BOOLEAN
        BY <4>2, <4>3, Zenon
      <4>. QED
        BY <4>4, <4>5
    <3>. QED
      BY <1>1, <2>1, <3>1 DEF SendInv, Types, ConsoleTypes, console
<1>6. LeaseInv'
  <2>1. CASE excused'
    BY <2>1 DEF LeaseInv
  <2>2. CASE delivered' = delivered /\ excused' = excused /\ Set(r, new(FALSE))
    BY <2>2, <1>1, <1>2, <1>3, LeaseMoves DEF SendInv, Holding
  <2>3. CASE ~excused /\ delivered' = delivered + 1 /\ excused' = excused /\ Set(r, new(TRUE))
    <3>1. Held /\ Owns(r) /\ delivered <= 1 /\ (delivered = 1 => Recorded)
      BY <2>3, <1>1 DEF SendInv, LeaseInv, Held, Holding
    <3>2. delivered = 0
      BY <3>1, <1>1 DEF Recorded, Held, Owns, Holding, SendInv, Types
    <3>3. \A q \in Req : rq'[q] = IF q = r THEN new(TRUE) ELSE rq[q]
      BY <2>3 DEF SendInv, Types, Set
    <3>4. new(TRUE).pc = "settle" /\ new(TRUE).ok = TRUE /\ new(TRUE).age = rq[r].age
      BY <1>3
    <3>5. Held'
      BY <3>1, <3>3, <3>4, <1>1 DEF Held, Owns, Holding
    <3>6. Recorded'
      BY <3>3, <3>4 DEF Recorded
    <3>. QED
      BY <3>2, <3>5, <3>6, <2>3 DEF LeaseInv
  <2>4. CASE delivered' = delivered + 1 /\ excused' = excused /\ Set(r, new(TRUE))
    <3>1. CASE excused
      BY <3>1, <2>4, <2>1
    <3>. QED
      BY <3>1, <2>3, <2>4
  <2>5. CASE delivered' = delivered + 1 /\ excused' = TRUE /\ Set(r, new(FALSE))
    BY <2>5, <2>1
  <2>. QED
    BY <1>4, <2>2, <2>4, <2>5
<1>. QED
  BY <1>5, <1>6 DEF SendInv

\* settleIdem: success is recorded, failure gives back only one's own lease.
LEMMA SettleKeeps ==
    ASSUME SendInv, NEW r \in Req, SettleIdem(r), UNCHANGED inst
    PROVE  SendInv'
<1>1. UNCHANGED <<console, cl, delivered>> /\ rq[r].pc = "settle"
  BY DEF SettleIdem
<1>2. rq[r] \in Requests /\ rq[r].ok \in BOOLEAN
  BY DEF SendInv, Types, Requests
<1>. DEFINE new == [NoReq EXCEPT !.pc = "over", !.ok = rq[r].ok]
<1>3. new \in Requests /\ new.pc = "over" /\ Set(r, new)
  <2>1. "pc" \in DOMAIN NoReq
    BY DEF NoReq
  <2>. QED
    BY <1>2, <2>1, Fields DEF SettleIdem, End
<1>. HIDE DEF new
<1>4. \/ rq[r].ok /\ key' = [st |-> "done", by |-> <<>>, ttl |-> 0] /\ excused' = excused
      \/ ~rq[r].ok /\ Owns(r) /\ key' = NoKey /\ excused' = excused
      \/ ~rq[r].ok /\ key' = key /\ excused' = excused
      \/ rq[r].ok /\ key' = key /\ excused' = TRUE
  BY <1>2 DEF SettleIdem, SendInv, Types
<1>5. Types' /\ ConsoleTypes' /\ Fresh'
  <2>1. Fresh' /\ rq' \in [Req -> Requests]
    BY <1>1, <1>3, FreshMoves DEF SendInv, Begun
  <2>2. /\ key' \in [st : {"none", "processing", "done"}, by : Req \cup {<<>>}, ttl : 0..TTL]
        /\ key'.st = "processing" => key'.by \in Req /\ key'.ttl > 0
    BY <1>4 DEF SendInv, Types, TTL, NoKey
  <2>. QED
    BY <1>1, <1>4, <2>1, <2>2 DEF SendInv, Types, ConsoleTypes, console
<1>6. LeaseInv'
  <2>. SUFFICES ASSUME ~excused'
                PROVE  Held' /\ delivered <= 1 /\ (delivered = 1 => Recorded')
    BY <1>1 DEF LeaseInv
  <2>1. Held /\ Owns(r) /\ delivered <= 1 /\ (delivered = 1 => Recorded)
    BY <1>1, <1>4 DEF SendInv, LeaseInv, Held, Holding
  <2>2. \A q \in Req : q # r => rq[q].pc \notin Holding
    BY <2>1 DEF Held, Owns
  <2>3. \A q \in Req : rq'[q] = IF q = r THEN new ELSE rq[q]
    BY <1>3 DEF SendInv, Types, Set
  <2>4. Held'
    BY <2>2, <2>3, <1>3 DEF Held, Holding
  <2>5. CASE rq[r].ok
    BY <2>5, <1>4, <2>1, <2>4 DEF Recorded
  <2>6. CASE ~rq[r].ok
    <3>1. ~Recorded
      BY <2>1, <2>2, <2>6 DEF Recorded, Owns, Holding
    <3>. QED
      BY <3>1, <2>1, <2>4
  <2>. QED
    BY <2>5, <2>6
<1>. QED
  BY <1>5, <1>6 DEF SendInv

-----------------------------------------------------------------------------
\* A crash leaves the lease to expire; a message without a record is noted.
LEMMA CrashKeeps ==
    ASSUME SendInv, Crash, UNCHANGED inst
    PROVE  SendInv'
<1>1. UNCHANGED <<key, console, cl, delivered>>
  BY DEF Crash
<1>. DEFINE new == [NoReq EXCEPT !.pc = "crashed"]
<1>2. new \in Requests /\ new.pc = "crashed"
  BY NoReqTyped DEF Requests
<1>3. rq' = [q \in Req |-> IF Running(q) THEN new ELSE rq[q]]
  BY DEF Crash
<1>. HIDE DEF new
<1>4. \A q \in Req : rq'[q].pc # "crashed" => rq'[q] = rq[q] /\ ~Running(q)
  BY <1>2, <1>3 DEF Running
<1>5. excused' \in BOOLEAN
      /\ (~excused' => ~excused /\ \A q \in Req : ~(rq[q].pc = "settle" /\ rq[q].ok))
  BY DEF Crash, SendInv, Types
<1>6. Types' /\ ConsoleTypes'
  <2>1. rq' \in [Req -> Requests]
    BY <1>2, <1>3 DEF SendInv, Types
  <2>. QED
    BY <1>1, <1>5, <2>1 DEF SendInv, Types, ConsoleTypes, console
<1>7. Fresh'
  <2>1. \A q \in Req : rq[q].pc = "none" => rq'[q].pc = "none"
    BY <1>3 DEF Running
  <2>. QED
    BY <2>1, <1>1, <1>4 DEF SendInv, Fresh, Req, Begun
<1>8. LeaseInv'
  <2>. SUFFICES ASSUME ~excused'
                PROVE  Held' /\ delivered <= 1 /\ (delivered = 1 => key.st = "done")
    BY <1>1 DEF LeaseInv, Recorded
  <2>1. Held'
    BY <1>4 DEF Held, Holding, Running
  <2>. QED
    BY <2>1, <1>5 DEF SendInv, LeaseInv, Recorded
<1>. QED
  BY <1>6, <1>7, <1>8 DEF SendInv

\* Time: a lease that expires has no holder, for its holder would have renewed it.
LEMMA TickKeeps ==
    ASSUME SendInv, Tick, UNCHANGED inst
    PROVE  SendInv'
<1>1. UNCHANGED <<console, cl, delivered, excused>> /\ key.st = "processing"
  BY DEF Tick, history
<1>2. \A q \in Req : Running(q) => rq[q].age = 0
  BY DEF Tick
<1>3. \A q \in Req : rq[q] \in Requests
  BY DEF SendInv, Types
<1>4. \A q \in Req : /\ rq'[q] \in Requests /\ rq'[q].pc = rq[q].pc /\ rq'[q].ok = rq[q].ok
                      /\ rq'[q].cands = rq[q].cands
                      /\ (Running(q) => rq'[q].age = 1)
  <2>. SUFFICES ASSUME NEW q \in Req
                PROVE  /\ rq'[q] \in Requests /\ rq'[q].pc = rq[q].pc /\ rq'[q].ok = rq[q].ok
                       /\ rq'[q].cands = rq[q].cands
                       /\ (Running(q) => rq'[q].age = 1)
    OBVIOUS
  <2>1. rq'[q] = IF Running(q) THEN [rq[q] EXCEPT !.age = 1] ELSE rq[q]
    BY DEF Tick
  <2>. QED
    BY <1>3, <2>1 DEF Requests
<1>5. \/ key.ttl = 1 /\ key' = NoKey
      \/ key.ttl # 1 /\ key' = [key EXCEPT !.ttl = key.ttl - 1]
  BY DEF Tick
<1>6. Types' /\ ConsoleTypes'
  <2>1. rq' \in [Req -> Requests]
    BY <1>4 DEF Tick
  <2>2. /\ key' \in [st : {"none", "processing", "done"}, by : Req \cup {<<>>}, ttl : 0..TTL]
        /\ key'.st = "processing" => key'.by \in Req /\ key'.ttl > 0
    BY <1>1, <1>5 DEF SendInv, Types, TTL, NoKey
  <2>. QED
    BY <1>1, <2>1, <2>2 DEF SendInv, Types, ConsoleTypes, console
<1>7. Fresh'
  BY <1>1, <1>4 DEF SendInv, Fresh, Req
<1>8. LeaseInv'
  <2>. SUFFICES ASSUME ~excused
                PROVE  Held' /\ delivered <= 1 /\ (delivered = 1 => Recorded')
    BY <1>1 DEF LeaseInv
  <2>1. Held /\ delivered <= 1 /\ (delivered = 1 => Recorded)
    BY DEF SendInv, LeaseInv
  <2>2. Held'
    <3>. SUFFICES ASSUME NEW q \in Req, rq'[q].pc \in Holding
                  PROVE  Owns(q)' /\ key'.ttl + rq'[q].age >= TTL
      BY DEF Held
    <3>1. Running(q) /\ rq[q].age = 0 /\ rq'[q].age = 1
      BY <1>2, <1>4 DEF Running, Holding
    <3>2. Owns(q) /\ key.ttl + 0 >= TTL /\ key.ttl \in 0..2
      BY <2>1, <3>1, <1>4 DEF Held, SendInv, Types, TTL
    <3>3. key' = [key EXCEPT !.ttl = key.ttl - 1]
      BY <1>5, <3>2 DEF TTL
    <3>4. key'.st = key.st /\ key'.by = key.by /\ key'.ttl = key.ttl - 1
      BY <3>3 DEF SendInv, Types
    <3>. QED
      BY <3>1, <3>2, <3>4 DEF Owns, TTL
  <2>3. Recorded => Recorded'
    BY <1>1, <1>4 DEF Recorded
  <2>. QED
    BY <2>1, <2>2, <2>3
<1>. QED
  BY <1>6, <1>7, <1>8 DEF SendInv

\* The console keeps the types of its tables, and the versions of providers only grow.
LEMMA ConsoleKeeps ==
    ASSUME ConsoleTypes, ProviderHandlers \/ TemplateHandlers, UNCHANGED inst
    PROVE  /\ ConsoleTypes' /\ Others
           /\ \A p \in Providers : row'[p].ver >= row[p].ver
           /\ tpl.uses = tpl.vars => tpl'.uses = tpl'.vars
<1>t. /\ row \in [Providers -> [there : BOOLEAN, on : BOOLEAN, ver : Nat]]
      /\ link \in [Providers -> [there : BOOLEAN, on : BOOLEAN, priority : {0, 1}]]
      /\ tpl \in Contents
      /\ op \in [pc : {"none", "update", "link"}, p : Providers \cup {"none"}, seen : BOOLEAN]
      /\ op.pc # "none" => op.p \in Providers
  BY DEF ConsoleTypes
<1>. DEFINE NewOp == /\ op' \in [pc : {"none", "update", "link"}, p : Providers \cup {"none"}, seen : BOOLEAN]
                     /\ op'.pc # "none" => op'.p \in Providers
            NewRow == /\ row' \in [Providers -> [there : BOOLEAN, on : BOOLEAN, ver : Nat]]
                      /\ \A p \in Providers : row'[p].ver >= row[p].ver
            NewLink == link' \in [Providers -> [there : BOOLEAN, on : BOOLEAN, priority : {0, 1}]]
            NewTpl == tpl' \in Contents /\ (tpl.uses = tpl.vars => tpl'.uses = tpl'.vars)
<1>s. /\ (op' = op => NewOp) /\ (op' = NoOp => NewOp) /\ (row' = row => NewRow)
      /\ (link' = link => NewLink) /\ (tpl' = tpl => NewTpl)
  <2>1. op' = NoOp => NewOp
    BY DEF NoOp
  <2>2. row' = row => NewRow
    BY <1>t
  <2>3. (op' = op => NewOp) /\ (link' = link => NewLink) /\ (tpl' = tpl => NewTpl)
    BY <1>t
  <2>. QED
    BY <2>1, <2>2, <2>3
<1>touch. ASSUME NEW p \in Providers, NEW on \in BOOLEAN, Touch(p, on) PROVE NewRow
  BY <1>t, <1>touch DEF Touch
<1>1. CASE \E p \in Providers : CreateProvider(p)
  BY <1>1, <1>s, <1>touch DEF CreateProvider, ConsoleTypes
<1>2. CASE \E p \in Providers : GetProvider(p)
  <2>1. NewOp
    BY <1>2, <1>t DEF GetProvider
  <2>. QED
    BY <1>2, <1>s, <2>1 DEF GetProvider, ConsoleTypes
<1>3. CASE \E p \in Providers : DeleteProvider(p)
  <2>1. NewRow
    <3>1. PICK p \in Providers : row' = [row EXCEPT ![p].there = FALSE]
      BY <1>3 DEF DeleteProvider
    <3>2. [row[p] EXCEPT !.there = FALSE] \in [there : BOOLEAN, on : BOOLEAN, ver : Nat]
          /\ [row[p] EXCEPT !.there = FALSE].ver = row[p].ver
      BY <1>t
    <3>. QED
      BY <1>t, <3>1, <3>2
  <2>. QED
    BY <1>3, <1>s, <2>1 DEF DeleteProvider, ConsoleTypes
<1>4. CASE UpdateProvider
  <2>1. NewRow
    BY <1>4, <1>t, <1>s, <1>touch DEF UpdateProvider
  <2>. QED
    BY <1>4, <1>s, <2>1 DEF UpdateProvider, ConsoleTypes
<1>5. CASE CreateTemplate \/ UpdateTemplate
  <2>1. NewTpl
    BY <1>5 DEF CreateTemplate, UpdateTemplate, PutTemplate, ValidateContent, Contents
  <2>. QED
    BY <1>5, <1>s, <2>1 DEF CreateTemplate, UpdateTemplate, PutTemplate, ConsoleTypes
<1>6. CASE DeleteTemplate
  <2>1. NewTpl
    BY <1>6 DEF DeleteTemplate, NoTpl, Contents
  <2>2. NewLink
    BY <1>6, <1>t DEF DeleteTemplate
  <2>. QED
    BY <1>6, <1>s, <2>1, <2>2 DEF DeleteTemplate, ConsoleTypes
<1>7. CASE \E p \in Providers : CheckLink(p)
  <2>1. NewOp
    BY <1>7, <1>t DEF CheckLink
  <2>. QED
    BY <1>7, <1>s, <2>1 DEF CheckLink, ConsoleTypes
<1>8. CASE \E p \in Providers : RemoveTemplateProvider(p)
  <2>1. NewLink
    <3>1. PICK p \in Providers : link' = [link EXCEPT ![p].there = FALSE]
      BY <1>8 DEF RemoveTemplateProvider
    <3>2. [link[p] EXCEPT !.there = FALSE] \in [there : BOOLEAN, on : BOOLEAN, priority : {0, 1}]
      BY <1>t
    <3>. QED
      BY <1>t, <3>1, <3>2
  <2>. QED
    BY <1>8, <1>s, <2>1 DEF RemoveTemplateProvider, ConsoleTypes
<1>9. CASE SetTemplateProvider
  <2>1. NewLink
    <3>1. link' = link \/ \E on \in BOOLEAN, pr \in {0, 1} :
             link' = [link EXCEPT ![op.p] = [there |-> TRUE, on |-> on, priority |-> pr]]
      BY <1>9 DEF SetTemplateProvider
    <3>2. \A on \in BOOLEAN, pr \in {0, 1} :
             [there |-> TRUE, on |-> on, priority |-> pr]
               \in [there : BOOLEAN, on : BOOLEAN, priority : {0, 1}]
      OBVIOUS
    <3>3. \A x \in [there : BOOLEAN, on : BOOLEAN, priority : {0, 1}] :
             link' = [link EXCEPT ![op.p] = x] => NewLink
      BY <1>t
    <3>. QED
      BY <1>s, <3>1, <3>2, <3>3
  <2>. QED
    BY <1>9, <1>s, <2>1 DEF SetTemplateProvider, ConsoleTypes
<1>. QED
  BY <1>1, <1>2, <1>3, <1>4, <1>5, <1>6, <1>7, <1>8, <1>9 DEF ProviderHandlers, TemplateHandlers

-----------------------------------------------------------------------------
\* Every step preserves SendInv.
LEMMA SendStep == SendInv /\ [Next]_vars => SendInv'
<1>. SUFFICES ASSUME SendInv, [Next]_vars PROVE SendInv'
  OBVIOUS
<1>1. CASE UNCHANGED vars
  BY <1>1 DEF vars, console, history, SendInv, Types, ConsoleTypes, Fresh, LeaseInv, Held, Recorded, Owns
<1>. SUFFICES ASSUME Step, UNCHANGED inst PROVE SendInv'
  BY <1>1 DEF Next
<1>2. CASE \E c \in Clients : Send(c) \/ SendOnce(c)
  BY <1>2, SendKeeps, SendOnceKeeps
<1>3. CASE \E r \in Req :
              LoadTemplate(r) \/ AcquireSet(r) \/ AcquireGet(r) \/ Dispatch(r) \/ SettleIdem(r)
  BY <1>3, LoadKeeps, AcquireKeeps, CandidatesKeep, NextKeeps, SendViaKeeps, SettleKeeps DEF Dispatch
<1>4. CASE Crash \/ Tick
  BY <1>4, CrashKeeps, TickKeeps
<1>5. CASE ProviderHandlers \/ TemplateHandlers
  <2>1. ConsoleTypes' /\ Others
    BY <1>5, ConsoleKeeps DEF SendInv
  <2>. QED
    BY <2>1 DEF Others, history, SendInv, Types, Fresh, LeaseInv, Held, Recorded, Owns
<1>. QED
  BY <1>2, <1>3, <1>4, <1>5 DEF Step

\* SendInv holds in every reachable state.
LEMMA SendHolds == Spec => []SendInv
BY SendInit, SendStep, PTL DEF Spec

\* acquireIdem, renewIdem and settleIdem: however many callers, attempts, providers and
\* faults there are, one idempotency key sends one message, unless a fault left the
\* service without a record of the first.
THEOREM OneMessage == Spec => []NoDuplicate
<1>1. SendInv => NoDuplicate
  BY DEF SendInv, LeaseInv, NoDuplicate
<1>. QED
  BY <1>1, SendHolds, PTL

\* idemReleaseScript: no request, crash or expiry takes away the record of a message.
THEOREM RecordStays == Spec => DoneSticks
<1>1. SendInv /\ [Next]_vars => [key.st = "done" => key'.st = "done"]_key
  <2>. SUFFICES ASSUME SendInv, Step, key.st = "done", key' # key PROVE key'.st = "done"
    BY DEF Next, vars
  <2>1. PICK r \in Req : AcquireSet(r) \/ NextCandidate(r) \/ SettleIdem(r)
    <3>1. ~(Crash \/ Tick)
      BY DEF Crash, Tick
    <3>2. ~(ProviderHandlers \/ TemplateHandlers)
      BY DEF ProviderHandlers, TemplateHandlers, CreateProvider, GetProvider, UpdateProvider,
             DeleteProvider, CreateTemplate, UpdateTemplate, PutTemplate, DeleteTemplate, CheckLink,
             SetTemplateProvider, RemoveTemplateProvider, Others
    <3>3. \A c \in Clients : ~(Send(c) \/ SendOnce(c))
      BY DEF Send, SendOnce
    <3>4. \A r \in Req : ~(LoadTemplate(r) \/ AcquireGet(r) \/ Candidates(r) \/ SendVia(r))
      BY DEF LoadTemplate, AcquireGet, Candidates, SendVia
    <3>. QED
      BY <3>1, <3>2, <3>3, <3>4 DEF Step, Dispatch
  <2>2. CASE AcquireSet(r)
    BY <2>2 DEF AcquireSet
  <2>3. CASE NextCandidate(r)
    BY <2>3 DEF NextCandidate, RenewIdem, Owns
  <2>4. CASE SettleIdem(r)
    BY <2>4 DEF SettleIdem, Owns
  <2>. QED
    BY <2>1, <2>2, <2>3, <2>4
<1>. QED
  BY <1>1, SendHolds, PTL DEF Spec, DoneSticks

-----------------------------------------------------------------------------
\* A request was checked against a template whose placeholders are its variables, and turns
\* to candidates read after it began, in the versions it read.
Sound(x) ==
    /\ \A i \in DOMAIN x.cands : x.cands[i].ver >= x.since[x.cands[i].p]
    /\ (x.pc = "sending" => x.ver = Head(x.cands).ver)
    /\ (x.pc \in Checked => x.tpl.uses = x.tpl.vars /\ x.params = x.tpl.vars)
Before(x) == \A p \in Providers : x.since[p] <= row[p].ver

SettingsInv == /\ tpl.uses = tpl.vars
               /\ \A r \in Req : Sound(rq[r]) /\ Before(rq[r])

\* A request goes on soundly while the tables stay.
LEMMA SettingsMoves ==
    ASSUME SendInv, SettingsInv, NEW r, NEW new, Set(r, new), Sound(new), Before(new),
           UNCHANGED <<row, tpl>>
    PROVE  SettingsInv'
<1>1. \A q \in Req : rq'[q] = rq[q] \/ rq'[q] = new
  BY DEF SendInv, Types, Set
<1>2. \A q \in Req : Sound(rq'[q])
  BY <1>1 DEF SettingsInv
<1>3. \A q \in Req : Before(rq'[q])
  BY <1>1 DEF SettingsInv
<1>. QED
  BY <1>2, <1>3 DEF SettingsInv, Sound, Before

\* The end of a request.
LEMMA EndSound ==
    ASSUME SendInv, NEW x \in {"over", "busy", "crashed", "none"}, NEW y,
           y.cands = <<>>, y.pc = x, y.since = [p \in Providers |-> 0]
    PROVE  Sound(y) /\ Before(y)
<1>1. \A p \in Providers : row[p].ver \in Nat
  BY DEF SendInv, ConsoleTypes
<1>. QED
  BY <1>1 DEF Sound, Before, Checked

\* A request that ends.
LEMMA EndKeeps ==
    ASSUME SendInv, SettingsInv, NEW r, NEW x \in {"over", "busy"}, NEW ok, End(r, x, ok),
           UNCHANGED <<row, tpl>>
    PROVE  SettingsInv'
<1>. DEFINE new == [NoReq EXCEPT !.pc = x, !.ok = ok]
<1>1. new.cands = <<>> /\ new.pc = x /\ new.since = [p \in Providers |-> 0]
  BY DEF NoReq
<1>2. Set(r, new)
  BY DEF End
<1>. HIDE DEF new
<1>. QED
  BY <1>1, <1>2, EndSound, SettingsMoves

\* Steps of the SDK.
LEMMA SendSettings ==
    ASSUME SendInv, SettingsInv, NEW c \in Clients, Send(c) \/ SendOnce(c)
    PROVE  SettingsInv'
<1>u. UNCHANGED <<row, tpl>>
  BY DEF Send, SendOnce, console
<1>1. CASE Send(c)
  <2>1. PICK params \in inst.params :
         Set(<<c, cl[c].n + 1>>, [NoReq EXCEPT !.pc = "load", !.params = params,
                              !.since = [p \in Providers |-> row[p].ver]])
    BY <1>1 DEF Send
  <2>. DEFINE new == [NoReq EXCEPT !.pc = "load", !.params = params,
                                   !.since = [p \in Providers |-> row[p].ver]]
  <2>2. new.pc = "load" /\ new.cands = <<>> /\ new.since = [p \in Providers |-> row[p].ver]
    BY DEF NoReq
  <2>3. Set(<<c, cl[c].n + 1>>, new)
    BY <2>1
  <2>. HIDE DEF new
  <2>4. Sound(new)
    BY <2>2 DEF Sound, Checked
  <2>5. Before(new)
    <3>1. \A p \in Providers : row[p].ver \in Nat
      BY DEF SendInv, ConsoleTypes
    <3>. QED
      BY <3>1, <2>2 DEF Before
  <2>. QED
    BY <2>3, <2>4, <2>5, <1>u, SettingsMoves
<1>2. CASE SendOnce(c)
  <2>. DEFINE r == <<c, cl[c].n>>
              new == [rq[r] EXCEPT !.gone = TRUE]
  <2>1. CASE UNCHANGED rq
    BY <2>1, <1>u DEF SettingsInv, Before, Sound
  <2>2. CASE Set(r, new) /\ r \notin Req
    <3>1. UNCHANGED rq
      BY <2>2 DEF Set, SendInv, Types
    <3>. QED
      BY <3>1, <2>1
  <2>3. CASE Set(r, new) /\ r \in Req
    <3>1. rq[r] \in Requests /\ Sound(rq[r]) /\ Before(rq[r])
      BY <2>3 DEF SendInv, Types, SettingsInv
    <3>2. /\ new.pc = rq[r].pc /\ new.cands = rq[r].cands /\ new.since = rq[r].since
          /\ new.ver = rq[r].ver /\ new.tpl = rq[r].tpl /\ new.params = rq[r].params
      BY <3>1 DEF Requests
    <3>. HIDE DEF new
    <3>3. Sound(new) /\ Before(new)
      BY <3>1, <3>2 DEF Sound, Before
    <3>. QED
      BY <2>3, <3>3, <1>u, SettingsMoves
  <2>. QED
    BY <1>2, <2>1, <2>2, <2>3 DEF SendOnce
<1>. QED
  BY <1>1, <1>2

\* Load, acquire: the template is checked when it is read.
LEMMA LoadSettings ==
    ASSUME SendInv, SettingsInv, NEW r \in Req, LoadTemplate(r) \/ AcquireSet(r) \/ AcquireGet(r)
    PROVE  SettingsInv'
<1>u. UNCHANGED <<row, tpl>>
  BY DEF LoadTemplate, AcquireSet, AcquireGet, console
<1>t. rq[r] \in Requests /\ Sound(rq[r]) /\ Before(rq[r])
  BY DEF SendInv, Types, SettingsInv
<1>1. CASE \E x \in {"over", "busy"}, ok \in BOOLEAN : End(r, x, ok)
  BY <1>1, <1>u, EndKeeps
<1>2. CASE /\ ValidateParams(tpl, rq[r].params) /\ rq[r].pc = "load"
           /\ Set(r, [rq[r] EXCEPT !.pc = "acquire", !.tpl = tpl])
  <2>. DEFINE new == [rq[r] EXCEPT !.pc = "acquire", !.tpl = tpl]
  <2>1. /\ new.pc = "acquire" /\ new.cands = rq[r].cands /\ new.since = rq[r].since
        /\ new.tpl = tpl /\ new.params = rq[r].params
    BY <1>t DEF Requests
  <2>. HIDE DEF new
  <2>2. Sound(new) /\ Before(new)
    BY <1>t, <1>2, <2>1 DEF Sound, Before, ValidateParams, SettingsInv
  <2>. QED
    BY <1>2, <2>2, <1>u, SettingsMoves DEF new
<1>3. CASE /\ rq[r].pc \in {"acquire", "get"}
           /\ \/ Set(r, [rq[r] EXCEPT !.pc = "candidates", !.age = 0])
              \/ Set(r, [rq[r] EXCEPT !.pc = "get"])
              \/ Set(r, [rq[r] EXCEPT !.pc = "acquire", !.round = 2])
  <2>1. PICK new : /\ Set(r, new) /\ new.pc \in {"candidates", "get", "acquire"}
                   /\ new.cands = rq[r].cands /\ new.since = rq[r].since
                   /\ new.tpl = rq[r].tpl /\ new.params = rq[r].params
    <3>. DEFINE a == [rq[r] EXCEPT !.pc = "candidates", !.age = 0]
                b == [rq[r] EXCEPT !.pc = "get"]
                d == [rq[r] EXCEPT !.pc = "acquire", !.round = 2]
    <3>1. /\ a.pc = "candidates" /\ a.cands = rq[r].cands /\ a.since = rq[r].since
          /\ a.tpl = rq[r].tpl /\ a.params = rq[r].params
      BY <1>t DEF Requests
    <3>2. /\ b.pc = "get" /\ b.cands = rq[r].cands /\ b.since = rq[r].since
          /\ b.tpl = rq[r].tpl /\ b.params = rq[r].params
      BY <1>t DEF Requests
    <3>3. /\ d.pc = "acquire" /\ d.cands = rq[r].cands /\ d.since = rq[r].since
          /\ d.tpl = rq[r].tpl /\ d.params = rq[r].params
      BY <1>t DEF Requests
    <3>4. Set(r, a) \/ Set(r, b) \/ Set(r, d)
      BY <1>3
    <3>. HIDE DEF a, b, d
    <3>. QED
      BY <3>1, <3>2, <3>3, <3>4
  <2>2. Sound(new) /\ Before(new)
    BY <1>t, <1>3, <2>1 DEF Sound, Before, Checked
  <2>. QED
    BY <2>1, <2>2, <1>u, SettingsMoves
<1>4. CASE LoadTemplate(r)
  BY <1>4, <1>1, <1>2 DEF LoadTemplate
<1>5. CASE AcquireSet(r)
  BY <1>5, <1>3 DEF AcquireSet, Go
<1>6. CASE AcquireGet(r)
  BY <1>6, <1>1, <1>3 DEF AcquireGet
<1>. QED
  BY <1>4, <1>5, <1>6

\* The loop of dispatch.
LEMMA DispatchSettings ==
    ASSUME SendInv, SettingsInv, NEW r \in Req, Dispatch(r)
    PROVE  SettingsInv'
<1>u. UNCHANGED <<row, tpl>>
  BY DEF Dispatch, Candidates, NextCandidate, SendVia, console
<1>t. rq[r] \in Requests /\ Sound(rq[r]) /\ Before(rq[r])
  BY DEF SendInv, Types, SettingsInv
<1>v. \A p \in Providers : row[p].ver \in Nat /\ rq[r].since[p] \in Nat
  BY <1>t DEF SendInv, ConsoleTypes, Requests
<1>f. rq[r].pc \in {"renew", "sending"} => rq[r].cands # <<>>
  BY DEF SendInv, Fresh
<1>1. CASE Candidates(r)
  <2>. DEFINE ps == {p \in Providers : link[p].there /\ link[p].on /\ row[p].there /\ row[p].on}
              a == [rq[r] EXCEPT !.pc = "settle", !.ok = FALSE]
              b(cands) == [rq[r] EXCEPT !.pc = "renew", !.cands = cands]
  <2>1. CASE ps = {}
    <3>1. Set(r, a)
      BY <1>1, <2>1 DEF Candidates
    <3>2. a.pc = "settle" /\ a.cands = rq[r].cands /\ a.since = rq[r].since
      BY <1>t DEF Requests
    <3>. HIDE DEF a
    <3>3. Sound(a) /\ Before(a)
      BY <1>t, <3>2 DEF Sound, Before, Checked
    <3>. QED
      BY <3>1, <3>3, <1>u, SettingsMoves
  <2>2. CASE ps # {}
    <3>1. PICK s \in Orders(ps) :
             Set(r, b(IF NeedsRecipient THEN [i \in DOMAIN s |-> [p |-> s[i], ver |-> row[s[i]].ver]]
                      ELSE <<[i \in DOMAIN s |-> [p |-> s[i], ver |-> row[s[i]].ver]][1]>>))
      BY <1>1, <2>2 DEF Candidates
    <3>. DEFINE cs == [i \in DOMAIN s |-> [p |-> s[i], ver |-> row[s[i]].ver]]
    <3>2. /\ cs \in Seq(Cand) /\ cs # <<>> /\ <<cs[1]>> \in Seq(Cand)
          /\ \A i \in DOMAIN cs : cs[i].ver = row[cs[i].p].ver
          /\ cs[1].ver = row[cs[1].p].ver
      BY <2>2, CandidatesFound
    <3>3. Set(r, b(IF NeedsRecipient THEN cs ELSE <<cs[1]>>))
      BY <3>1
    <3>. HIDE DEF cs, b
    <3>4. PICK cands \in Seq(Cand) : /\ Set(r, b(cands))
                                     /\ \A i \in DOMAIN cands : cands[i].ver = row[cands[i].p].ver
      <4>1. CASE NeedsRecipient
        BY <3>2, <3>3, <4>1
      <4>2. CASE ~NeedsRecipient
        <5>1. \A x : \A i \in DOMAIN <<x>> : <<x>>[i] = x
          OBVIOUS
        <5>2. \A i \in DOMAIN <<cs[1]>> : <<cs[1]>>[i].ver = row[<<cs[1]>>[i].p].ver
          BY <3>2, <5>1
        <5>. QED
          BY <3>2, <3>3, <4>2, <5>2
      <4>. QED
        BY <4>1, <4>2
    <3>5. /\ b(cands).pc = "renew" /\ b(cands).cands = cands /\ b(cands).since = rq[r].since
          /\ b(cands).tpl = rq[r].tpl /\ b(cands).params = rq[r].params
      BY <1>t DEF Requests, b
    <3>6. \A i \in DOMAIN cands : cands[i].p \in Providers
      <4>1. \A i \in DOMAIN cands : cands[i] \in Cand
        OBVIOUS
      <4>. QED
        BY <4>1 DEF Cand
    <3>7. Before(b(cands))
      BY <1>t, <3>5 DEF Before
    <3>8. Sound(b(cands))
      <4>1. \A i \in DOMAIN cands : cands[i].ver >= rq[r].since[cands[i].p]
        BY <1>t, <1>v, <3>4, <3>6 DEF Before
      <4>2. rq[r].pc = "candidates"
        BY <1>1 DEF Candidates
      <4>. QED
        BY <1>t, <4>1, <4>2, <3>5 DEF Sound, Checked
    <3>. QED
      BY <3>4, <3>7, <3>8, <1>u, SettingsMoves
  <2>. QED
    BY <2>1, <2>2
<1>2. CASE NextCandidate(r)
  <2>. DEFINE v == Head(rq[r].cands).ver
              a == [rq[r] EXCEPT !.age = 0, !.pc = "settle"]
              b == [rq[r] EXCEPT !.age = 0, !.pc = "sending", !.ver = v]
  <2>1. rq[r].pc = "renew" /\ (Set(r, a) \/ Set(r, b))
    BY <1>2 DEF NextCandidate, RenewIdem, ProviderFor
  <2>2. a.pc = "settle" /\ a.cands = rq[r].cands /\ a.since = rq[r].since
    BY <1>t DEF Requests
  <2>3. /\ b.pc = "sending" /\ b.cands = rq[r].cands /\ b.since = rq[r].since
        /\ b.tpl = rq[r].tpl /\ b.params = rq[r].params /\ b.ver = v
    BY <1>t DEF Requests
  <2>. HIDE DEF a, b
  <2>4. Sound(a) /\ Before(a)
    BY <1>t, <2>2 DEF Sound, Before, Checked
  <2>5. Sound(b) /\ Before(b)
    BY <1>t, <2>1, <2>3 DEF Sound, Before, Checked
  <2>. QED
    BY <2>1, <2>4, <2>5, <1>u, SettingsMoves
<1>3. CASE SendVia(r)
  <2>. DEFINE left == Tail(rq[r].cands)
              new(ok) == [rq[r] EXCEPT !.pc = IF ok \/ left = <<>> THEN "settle" ELSE "renew",
                                       !.ok = ok, !.cands = left]
  <2>1. rq[r].pc = "sending" /\ (Set(r, new(TRUE)) \/ Set(r, new(FALSE)))
    BY <1>3 DEF SendVia
  <2>2. \A ok \in BOOLEAN : /\ new(ok).pc \in {"settle", "renew"} /\ new(ok).cands = left
                            /\ new(ok).since = rq[r].since /\ new(ok).tpl = rq[r].tpl
                            /\ new(ok).params = rq[r].params
    BY <1>t DEF Requests
  <2>3. \A i \in DOMAIN left : left[i].ver >= rq[r].since[left[i].p]
    <3>1. rq[r].cands \in Seq(Cand) /\ rq[r].cands # <<>>
      BY <1>t, <1>f, <2>1 DEF Requests
    <3>2. \A i \in DOMAIN left : i + 1 \in DOMAIN rq[r].cands /\ left[i] = rq[r].cands[i + 1]
      BY <3>1
    <3>. QED
      BY <3>2, <1>t DEF Sound
  <2>. HIDE DEF left, new
  <2>4. \A ok \in BOOLEAN : Sound(new(ok)) /\ Before(new(ok))
    BY <1>t, <2>1, <2>2, <2>3 DEF Sound, Before, Checked
  <2>. QED
    BY <2>1, <2>4, <1>u, SettingsMoves
<1>. QED
  BY <1>1, <1>2, <1>3 DEF Dispatch

\* Every step preserves SettingsInv.
LEMMA SettingsStep == SendInv /\ SettingsInv /\ [Next]_vars => SettingsInv'
<1>. SUFFICES ASSUME SendInv, SettingsInv, [Next]_vars PROVE SettingsInv'
  OBVIOUS
<1>1. CASE UNCHANGED vars
  BY <1>1 DEF vars, console, SettingsInv, Sound, Before
<1>. SUFFICES ASSUME Step, UNCHANGED inst PROVE SettingsInv'
  BY <1>1 DEF Next
<1>2. CASE \E c \in Clients : Send(c) \/ SendOnce(c)
  BY <1>2, SendSettings
<1>3. CASE \E r \in Req : LoadTemplate(r) \/ AcquireSet(r) \/ AcquireGet(r) \/ Dispatch(r)
  BY <1>3, LoadSettings, DispatchSettings
<1>4. CASE \E r \in Req : SettleIdem(r)
  BY <1>4, EndKeeps DEF SettleIdem, console
<1>5. CASE Crash
  <2>. DEFINE new == [NoReq EXCEPT !.pc = "crashed"]
  <2>1. new.cands = <<>> /\ new.pc = "crashed" /\ new.since = [p \in Providers |-> 0]
    BY DEF NoReq
  <2>2. rq' = [q \in Req |-> IF Running(q) THEN new ELSE rq[q]]
    BY <1>5 DEF Crash
  <2>. HIDE DEF new
  <2>3. Sound(new) /\ Before(new)
    BY <2>1, EndSound
  <2>4. UNCHANGED <<row, tpl>>
    BY <1>5 DEF Crash, console
  <2>5. \A q \in Req : Sound(rq'[q])
    BY <2>2, <2>3 DEF SettingsInv
  <2>6. \A q \in Req : Before(rq'[q])
    BY <2>2, <2>3 DEF SettingsInv
  <2>. QED
    BY <2>4, <2>5, <2>6 DEF SettingsInv, Sound, Before
<1>6. CASE Tick
  <2>1. UNCHANGED <<row, tpl>>
    BY <1>6 DEF Tick, console
  <2>2. \A q \in Req : /\ rq'[q].pc = rq[q].pc /\ rq'[q].cands = rq[q].cands
                        /\ rq'[q].since = rq[q].since /\ rq'[q].tpl = rq[q].tpl
                        /\ rq'[q].params = rq[q].params /\ rq'[q].ver = rq[q].ver
    <3>1. \A q \in Req : rq[q] \in Requests
      BY DEF SendInv, Types
    <3>2. \A q \in Req : rq'[q] = [rq[q] EXCEPT !.age = 1] \/ rq'[q] = rq[q]
      BY <1>6 DEF Tick
    <3>. QED
      BY <3>1, <3>2 DEF Requests
  <2>. QED
    BY <2>1, <2>2 DEF SettingsInv, Sound, Before
<1>7. CASE ProviderHandlers \/ TemplateHandlers
  <2>1. /\ UNCHANGED rq /\ tpl'.uses = tpl'.vars
        /\ \A p \in Providers : row'[p].ver >= row[p].ver
    BY <1>7, ConsoleKeeps DEF SendInv, SettingsInv, Others
  <2>2. \A p \in Providers : row[p].ver \in Nat /\ row'[p].ver \in Nat
    BY <1>7, ConsoleKeeps DEF SendInv, ConsoleTypes
  <2>3. \A r \in Req, p \in Providers : rq[r].since[p] \in Nat
    BY DEF SendInv, Types, Requests
  <2>. QED
    BY <2>1, <2>2, <2>3 DEF SettingsInv, Sound, Before
<1>. QED
  BY <1>2, <1>3, <1>4, <1>5, <1>6, <1>7 DEF Step

\* candidates, providerFor, ValidateContent and ValidateParams, whatever the console does in
\* the meantime: no request sends with settings of a provider older than those acknowledged
\* when it began, nor a text with a placeholder left in it.
THEOREM SettingsTaken == Spec => []SettingsApplied
<1>1. Init => SettingsInv
  <2>. SUFFICES ASSUME Init PROVE SettingsInv
    OBVIOUS
  <2>1. \A r \in Req : rq[r] = NoReq
    BY DEF Init
  <2>2. NoReq.cands = <<>> /\ NoReq.pc = "none" /\ NoReq.since = [p \in Providers |-> 0]
    BY DEF NoReq
  <2>3. Sound(NoReq) /\ Before(NoReq)
    BY <2>2, EndSound, SendInit
  <2>. QED
    BY <2>1, <2>3 DEF Init, SettingsInv
<1>2. SendInv /\ SettingsInv => SettingsApplied
  <2>. SUFFICES ASSUME SendInv, SettingsInv, NEW r \in Req, rq[r].pc = "sending"
                PROVE  /\ rq[r].ver >= rq[r].since[Head(rq[r].cands).p]
                       /\ Render(rq[r].tpl, rq[r].params) = {}
    BY DEF SettingsApplied
  <2>1. rq[r] \in Requests /\ rq[r].cands # <<>> /\ Sound(rq[r])
    BY DEF SendInv, Types, Fresh, SettingsInv
  <2>2. rq[r].cands \in Seq(Cand)
    BY <2>1 DEF Requests
  <2>3. 1 \in DOMAIN rq[r].cands /\ Head(rq[r].cands) = rq[r].cands[1]
    BY <2>1, <2>2
  <2>. QED
    BY <2>1, <2>3 DEF Sound, Render, Checked
<1>. QED
  BY <1>1, <1>2, SendHolds, SettingsStep, PTL DEF Spec
=============================================================================
