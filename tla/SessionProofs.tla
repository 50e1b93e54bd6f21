--------------------------- MODULE SessionProofs ---------------------------
(***************************************************************************)
(* Proofs about SessionLifecycle, for any policy, any number of requests   *)
(* and revocations and any length of time.                                 *)
(***************************************************************************)
EXTENDS SessionLifecycle, FiniteSetTheorems, TLAPS

\* The places at which a validator stands.
ValPc == {"idle", "epoch", "extLock", "extPut", "rotLock", "rotRead", "rotNew", "rotMap",
          "rotOld"}

\* The requests of the validators and the answers to them.
Requests == [pc : ValPc, tok : 0..minted, s : Sessions, at : Nat, new : 0..minted, began : Nat]
Answers == [tok : 0..minted, at : Nat, ttl : Nat, new : 0..minted, began : Nat]

\* A request that has begun holds a token, and a rotation its successor.
Holds ==
    \A v \in Validators :
        /\ val[v].pc # "idle" => val[v].tok \in Tokens
        /\ val[v].pc \in {"rotNew", "rotMap", "rotOld"} => val[v].new \in Tokens

Typed == TypeOK /\ Holds /\ inst \in Instances

-----------------------------------------------------------------------------
\* What the policy promises of the durations (SessionPolicy.Validate).
LEMMA PolicyFacts ==
    /\ Idle \in Nat /\ Rotate \in Nat /\ Extend \in Nat /\ CacheTTL \in Nat
    /\ MinGrace \in Nat /\ ExtLockTTL \in Nat /\ IndexFloor \in Nat
    /\ Idle > 0 /\ Rotate > 0 /\ CacheTTL > 0 /\ MinGrace > 0
    /\ MaxTokens \in Nat /\ MaxTokens > 0
    /\ Grace \in Nat /\ Grace > 0
    /\ inst \in Instances => MaxLife \in Nat
BY PolicyAssumption DEF Grace, Larger, MaxLife

\* Session.RemainingAt is a duration; it is positive only before both limits.
LEMMA RemainingFacts ==
    ASSUME NEW s \in Sessions, NEW t \in Nat, inst \in Instances
    PROVE  /\ RemainingAt(s, t) \in Nat
           /\ RemainingAt(s, t) > 0 => /\ t + RemainingAt(s, t) <= s.idle
                                       /\ t + RemainingAt(s, t) <= s.first + MaxLife
           /\ s.idle <= t => RemainingAt(s, t) = 0
           /\ cacheTTL(RemainingAt(s, t)) \in Nat
           /\ cacheTTL(RemainingAt(s, t)) <= RemainingAt(s, t)
BY PolicyFacts DEF RemainingAt, cacheTTL, Larger, Smaller, MaxExpiresAt, Sessions

-----------------------------------------------------------------------------
\* Accepting or refusing a request keeps the types.
LEMMA AnswerTyped ==
    ASSUME Typed, NEW v \in Validators, NEW s \in Sessions, NEW new \in 0..minted,
           Accept(v, s, new) \/ Refuse(v)
    PROVE  /\ val' = [val EXCEPT ![v] = Idling]
           /\ val' \in [Validators -> Requests]
           /\ ans' \in [Validators -> Answers]
<1>1. cacheTTL(RemainingAt(s, now)) \in Nat
  BY RemainingFacts DEF Typed, TypeOK
<1>2. Idling \in Requests /\ NoAnswer \in Answers
  BY DEF Typed, TypeOK, Idling, NoAnswer, NoSess, NoToken, Sessions, Tokens, ValPc, Requests,
         Answers
<1>3. val \in [Validators -> Requests] /\ ans \in [Validators -> Answers]
  BY DEF Typed, TypeOK, Requests, Answers, ValPc
<1>4. [tok |-> val[v].tok, at |-> now, ttl |-> cacheTTL(RemainingAt(s, now)), new |-> new,
       began |-> val[v].began] \in Answers
  BY <1>1, <1>3 DEF Typed, TypeOK, Requests, Answers
<1>5. val' = [val EXCEPT ![v] = Idling]
  BY DEF Accept, Refuse
<1>. QED
  BY <1>2, <1>3, <1>4, <1>5 DEF Accept, Refuse

\* SessionStore.Put and Delete keep the types of the keys.
LEMMA KeysTyped ==
    ASSUME Typed, NEW t \in Tokens, NEW s \in Sessions, NEW ttl \in Nat,
           Put(t, s, ttl) \/ Delete(t)
    PROVE  sess' \in [Tokens -> Sessions] /\ index' \subseteq Tokens /\ indexExp' \in Nat
<1>0. /\ now \in Nat /\ sess \in [Tokens -> Sessions]
      /\ index \subseteq Tokens /\ indexExp \in Nat
  BY DEF Typed, TypeOK
<1>1. [s EXCEPT !.exp = now + ttl] \in Sessions /\ NoSess \in Sessions
  BY <1>0 DEF Sessions, NoSess
<1>2. now + Larger(ttl, IndexFloor) \in Nat
  BY <1>0, PolicyFacts DEF Larger
<1>3. CASE Put(t, s, ttl)
  BY <1>0, <1>1, <1>2, <1>3 DEF Put
<1>4. CASE Delete(t)
  BY <1>0, <1>1, <1>4 DEF Delete
<1>. QED
  BY <1>3, <1>4

\* What a validator writes is a session.
LEMMA WrittenTyped ==
    ASSUME Typed, NEW v \in Validators
    PROVE  /\ val[v] \in Requests
           /\ val[v].s \in Sessions /\ Rotated(v) \in Sessions
           /\ [val[v].s EXCEPT !.ext = val[v].at, !.idle = val[v].at + Idle] \in Sessions
           /\ [val[v].s EXCEPT !.idle = val[v].at + Grace] \in Sessions
<1>1. val[v] \in Requests
  BY DEF Typed, TypeOK, Requests, ValPc
<1>2. val[v].s \in Sessions /\ val[v].at \in Nat
  BY <1>1 DEF Requests
<1>3. val[v].at + Idle \in Nat /\ val[v].at + Grace \in Nat
  BY <1>2, PolicyFacts
<1>4. Rotated(v) \in Sessions
  BY <1>2, <1>3 DEF Sessions, Rotated
<1>5. [val[v].s EXCEPT !.ext = val[v].at, !.idle = val[v].at + Idle] \in Sessions
  BY <1>2, <1>3 DEF Sessions
<1>6. [val[v].s EXCEPT !.idle = val[v].at + Grace] \in Sessions
  BY <1>2, <1>3 DEF Sessions
<1>. QED
  BY <1>1, <1>2, <1>4, <1>5, <1>6

-----------------------------------------------------------------------------
\* A step of a request keeps the types.
LEMMA ValidateTyped ==
    ASSUME Typed, NEW v \in Validators, Validate(v), UNCHANGED inst
    PROVE  Typed'
<1>. USE DEF Typed, Holds, Validators, Revokers, keyVars, lockVars, history, Noted, CutShort
<1>t. /\ val \in [Validators -> Requests] /\ ans \in [Validators -> Answers]
      /\ minted \in Tokens /\ now \in Nat
  BY DEF TypeOK, Requests, Answers, ValPc
<1>n. minted \in Nat /\ 1 <= minted /\ minted <= MaxTokens /\ NoToken \in 0..minted
  BY <1>t, PolicyFacts DEF Tokens, NoToken
<1>w. /\ val[v].s \in Sessions /\ Rotated(v) \in Sessions
      /\ [val[v].s EXCEPT !.ext = val[v].at, !.idle = val[v].at + Idle] \in Sessions
      /\ [val[v].s EXCEPT !.idle = val[v].at + Grace] \in Sessions
      /\ val[v].at \in Nat /\ val[v].new \in 0..minted /\ val[v].tok \in 0..minted
  BY WrittenTyped DEF Requests
<1>1. CASE ValidateGet(v)
  <2>1. PICK t \in 1..minted :
            val' = [val EXCEPT ![v] = [Idling EXCEPT !.pc = "epoch", !.tok = t,
                                          !.s = [sess[t] EXCEPT !.exp = 0],
                                          !.began = epoch]]
    BY <1>1 DEF ValidateGet
  <2>2. t \in Tokens /\ t \in 0..minted
    BY <1>t, <1>n, PolicyFacts DEF Tokens
  <2>3. sess[t] \in Sessions
    BY <2>2 DEF TypeOK
  <2>3a. [sess[t] EXCEPT !.exp = 0] \in Sessions
    BY <2>3 DEF Sessions
  <2>4. [Idling EXCEPT !.pc = "epoch", !.tok = t, !.s = [sess[t] EXCEPT !.exp = 0],
                       !.began = epoch] \in Requests
    BY <2>2, <2>3a, <1>t, <1>n DEF Idling, Requests, ValPc, TypeOK
  <2>5. val' \in [Validators -> Requests] /\ Holds'
    BY <2>1, <2>2, <2>4, <1>t, <1>n DEF Idling
  <2>6. ans' \in [Validators -> Answers]
    BY <1>1, <1>t, <1>n DEF ValidateGet, NoAnswer, Answers
  <2>7. rev' \in [Revokers -> [pc : {"idle", "list", "srem", "sweep", "gone", "done",
                                       "failed"},
                                todo : SUBSET Tokens, dangling : SUBSET Tokens,
                                blind : BOOLEAN]]
    <3>1. rev \in [Revokers -> [pc : {"idle", "list", "srem", "sweep", "gone", "done",
                                       "failed"},
                                todo : SUBSET Tokens, dangling : SUBSET Tokens,
                                blind : BOOLEAN]]
      BY DEF TypeOK
    <3>. QED
      BY <1>1, <3>1 DEF ValidateGet
  <2>. QED
    BY <1>1, <2>5, <2>6, <2>7 DEF ValidateGet, TypeOK, Requests, Answers, ValPc
<1>2. CASE ValidateEpoch(v)
  <2>. DEFINE s == val[v].s
  <2>1. /\ Accept(v, s, NoToken) \/ Refuse(v)
           \/ \E pc \in {"rotLock", "extLock"} :
                 UNCHANGED ans /\ val' = [val EXCEPT ![v].pc = pc, ![v].at = now]
        /\ Delete(val[v].tok) \/ UNCHANGED keyVars
        /\ val[v].pc # "idle"
    BY <1>2 DEF ValidateEpoch
  <2>2. val' \in [Validators -> Requests] /\ ans' \in [Validators -> Answers] /\ Holds'
    <3>1. CASE Accept(v, s, NoToken) \/ Refuse(v)
      BY <3>1, <1>t, <1>n, <1>w, AnswerTyped DEF Idling
    <3>2. CASE \E pc \in {"rotLock", "extLock"} :
                 UNCHANGED ans /\ val' = [val EXCEPT ![v].pc = pc, ![v].at = now]
      BY <3>2, <2>1, <1>t, <1>n DEF Requests, ValPc
    <3>. QED
      BY <2>1, <3>1, <3>2
  <2>3. sess' \in [Tokens -> Sessions] /\ index' \subseteq Tokens /\ indexExp' \in Nat
    BY <2>1, <1>w, KeysTyped DEF TypeOK
  <2>. QED
    BY <1>2, <2>2, <2>3 DEF ValidateEpoch, TypeOK, Requests, Answers, ValPc
<1>3. CASE ExtendLock(v)
  <2>1. val' \in [Validators -> Requests] /\ ans' \in [Validators -> Answers] /\ Holds'
    <3>1. CASE Accept(v, val[v].s, NoToken)
      BY <3>1, <1>t, <1>n, <1>w, AnswerTyped DEF Idling
    <3>2. CASE UNCHANGED ans /\ val' = [val EXCEPT ![v].pc = "extPut"]
      BY <3>2, <1>3, <1>t, <1>n DEF Requests, ValPc, ExtendLock
    <3>. QED
      BY <1>3, <3>1, <3>2 DEF ExtendLock
  <2>2. extLock' \in [Tokens -> Nat]
    BY <1>3, <1>t, <1>n, PolicyFacts DEF ExtendLock, TypeOK
  <2>. QED
    BY <1>3, <2>1, <2>2 DEF ExtendLock, TypeOK, Requests, Answers, ValPc
<1>4. CASE ExtendPut(v)
  <2>. DEFINE s == [val[v].s EXCEPT !.ext = val[v].at, !.idle = val[v].at + Idle]
  <2>1. Put(val[v].tok, s, RemainingAt(s, val[v].at)) /\ Accept(v, s, NoToken)
    BY <1>4 DEF ExtendPut
  <2>2. val[v].tok \in Tokens
    BY <1>4 DEF ExtendPut
  <2>3. s \in Sessions /\ RemainingAt(s, val[v].at) \in Nat
    BY <1>w, RemainingFacts
  <2>. HIDE DEF s
  <2>4. val' \in [Validators -> Requests] /\ ans' \in [Validators -> Answers] /\ Holds'
    BY <2>1, <2>3, <1>t, <1>n, AnswerTyped DEF Idling
  <2>5. sess' \in [Tokens -> Sessions] /\ index' \subseteq Tokens /\ indexExp' \in Nat
    BY <2>1, <2>2, <2>3, KeysTyped
  <2>. QED
    BY <1>4, <2>4, <2>5 DEF ExtendPut, TypeOK, Requests, Answers, ValPc
<1>5. CASE RotateLock(v)
  <2>1. minted' \in Tokens /\ minted <= minted' /\ rotLock' \in Nat
    <3>1. rotLock \in Nat
      BY DEF TypeOK
    <3>. QED
      BY <1>5, <1>t, <1>n, <3>1, PolicyFacts DEF RotateLock, Tokens
  <2>2. rotTo' \in [Tokens -> [new : 0..minted', exp : Nat]]
    <3>1. rotTo \in [Tokens -> [new : 0..minted, exp : Nat]] /\ UNCHANGED rotTo
      BY <1>5 DEF TypeOK, RotateLock
    <3>2. 0..minted \subseteq 0..minted'
      BY <2>1, <1>n DEF Tokens
    <3>. QED
      BY <3>1, <3>2
  <2>3. ans' \in [Validators -> [tok : 0..minted', at : Nat, ttl : Nat, new : 0..minted',
                                  began : Nat]]
    BY <1>5, <2>1, <1>t, <1>n DEF RotateLock, Answers
  <2>4. val' \in [Validators -> [pc : ValPc, tok : 0..minted', s : Sessions, at : Nat,
                                  new : 0..minted', began : Nat]]
    BY <1>5, <2>1, <1>t, <1>n DEF RotateLock, Requests, ValPc
  <2>5. Holds'
    BY <1>5, <2>1, <1>t, <1>n DEF RotateLock, Requests
  <2>. QED
    BY <1>5, <2>1, <2>2, <2>3, <2>4, <2>5 DEF RotateLock, TypeOK, ValPc
<1>6. CASE RotatedTo(v)
  <2>1. rotTo[val[v].tok].new \in 0..minted
    BY <1>6 DEF RotatedTo, TypeOK
  <2>2. val' \in [Validators -> Requests] /\ ans' \in [Validators -> Answers] /\ Holds'
    BY <1>6, <2>1, <1>t, <1>n, <1>w, AnswerTyped DEF RotatedTo, Idling
  <2>. QED
    BY <1>6, <2>2 DEF RotatedTo, TypeOK, Requests, Answers, ValPc
<1>7. CASE RotateNew(v)
  <2>1. sess' \in [Tokens -> Sessions] /\ index' \subseteq Tokens /\ indexExp' \in Nat
    BY <1>7, <1>w, RemainingFacts, KeysTyped DEF RotateNew
  <2>2. val' \in [Validators -> Requests] /\ Holds'
    BY <1>7, <1>t, <1>n DEF RotateNew, Requests, ValPc
  <2>. QED
    BY <1>7, <2>1, <2>2 DEF RotateNew, TypeOK, Requests, ValPc
<1>8. CASE RotateMap(v)
  <2>1. val' \in [Validators -> Requests] /\ Holds'
    BY <1>8, <1>t, <1>n DEF RotateMap, Requests, ValPc
  <2>2. rotTo' \in [Tokens -> [new : 0..minted, exp : Nat]]
    BY <1>8, <1>t, <1>n, <1>w, PolicyFacts DEF RotateMap, TypeOK
  <2>. QED
    BY <1>8, <2>1, <2>2 DEF RotateMap, TypeOK, Requests, ValPc
<1>9. CASE RotateOld(v)
  <2>. DEFINE s == [val[v].s EXCEPT !.idle = val[v].at + Grace]
  <2>1. sess' \in [Tokens -> Sessions] /\ index' \subseteq Tokens /\ indexExp' \in Nat
    BY <1>9, <1>w, PolicyFacts, KeysTyped DEF RotateOld
  <2>2. val' \in [Validators -> Requests] /\ ans' \in [Validators -> Answers] /\ Holds'
    BY <1>9, <1>t, <1>n, <1>w, AnswerTyped DEF RotateOld, Idling
  <2>3. cut' \in [Tokens -> Nat]
    BY <1>9, <1>t, <1>n, PolicyFacts DEF RotateOld, TypeOK
  <2>. QED
    BY <1>9, <2>1, <2>2, <2>3 DEF RotateOld, TypeOK, Requests, Answers, ValPc
<1>10. CASE ValidateDies(v)
  <2>1. val' \in [Validators -> Requests] /\ ans' \in [Validators -> Answers] /\ Holds'
    BY <1>10, <1>t, <1>n, <1>w, AnswerTyped DEF ValidateDies, Idling
  <2>. QED
    BY <1>10, <2>1 DEF ValidateDies, TypeOK, Requests, Answers, ValPc
<1>. QED
  BY <1>1, <1>2, <1>3, <1>4, <1>5, <1>6, <1>7, <1>8, <1>9, <1>10 DEF Validate

\* A step of a revocation keeps the types.
LEMMA RevokeTyped ==
    ASSUME Typed, NEW r \in Revokers, Revoke(r), UNCHANGED inst
    PROVE  Typed'
<1>. DEFINE Sweeps == [pc : {"idle", "list", "srem", "sweep", "gone", "done", "failed"},
                       todo : SUBSET Tokens, dangling : SUBSET Tokens, blind : BOOLEAN]
<1>t. /\ rev \in [Revokers -> Sweeps] /\ index \subseteq Tokens
      /\ sess \in [Tokens -> Sessions] /\ indexExp \in Nat /\ inst \in Instances
  BY DEF Typed, TypeOK
<1>u. /\ UNCHANGED <<now, epoch, lockVars, rotTo, minted, val, ans, inst>>
      /\ UNCHANGED <<cut, late, undone, lastPut, lost>>
      /\ UNCHANGED overtaken \/ RevokeBegin(r)
      /\ Validators' = Validators /\ Revokers' = Revokers
  BY DEF Revoke, RevokeBegin, RevokeGone, RevokeList, RevokeSrem, RevokeToken, RevokeDone,
         RevokeFails, Validators, Revokers, history
<1>s. NoSess \in Sessions
  BY DEF NoSess, Sessions
<1>1. rev' \in [Revokers -> Sweeps]
  <2>1. CASE RevokeBegin(r) \/ RevokeGone(r)
    BY <1>t, <2>1 DEF RevokeBegin, RevokeGone
  <2>2. CASE RevokeList(r)
    <3>. DEFINE live == {t \in index : Live(t)}
                dead == {t \in index : ~Live(t)}
                missed == \E t \in lost : Usable(t)
                new == [rev[r] EXCEPT !.pc = "srem", !.todo = live, !.dangling = dead,
                                      !.blind = missed]
    <3>1. rev' = [rev EXCEPT ![r] = new]
      BY <2>2 DEF RevokeList
    <3>2. /\ live \in SUBSET Tokens /\ dead \in SUBSET Tokens /\ missed \in BOOLEAN
          /\ rev[r] \in Sweeps
      BY <1>t
    <3>. HIDE DEF live, dead, missed
    <3>3. new \in Sweeps
      BY <3>2
    <3>. HIDE DEF new, Sweeps
    <3>. QED
      BY <1>t, <3>1, <3>3
  <2>3. CASE RevokeSrem(r)
    BY <1>t, <2>3 DEF RevokeSrem
  <2>4. CASE RevokeToken(r)
    BY <1>t, <2>4 DEF RevokeToken
  <2>5. CASE RevokeDone(r) \/ RevokeFails(r)
    BY <1>t, <2>5 DEF RevokeDone, RevokeFails
  <2>. QED
    BY <2>1, <2>2, <2>3, <2>4, <2>5 DEF Revoke
<1>2. /\ sess' \in [Tokens -> Sessions] /\ index' \subseteq Tokens /\ indexExp' \in Nat
  <2>1. CASE RevokeToken(r)
    BY <1>t, <1>s, <2>1 DEF RevokeToken, Delete, keyVars
  <2>2. CASE RevokeSrem(r)
    BY <1>t, <2>2 DEF RevokeSrem
  <2>3. CASE UNCHANGED keyVars
    BY <1>t, <2>3 DEF keyVars
  <2>. QED
    BY <2>1, <2>2, <2>3 DEF Revoke, RevokeBegin, RevokeGone, RevokeList, RevokeDone, RevokeFails
<1>4. overtaken' \subseteq Validators
  BY <1>u DEF Typed, TypeOK, RevokeBegin
<1>3. TypeOK'
  BY <1>u, <1>1, <1>2, <1>4 DEF Typed, TypeOK, lockVars
<1>. QED
  BY <1>u, <1>3 DEF Typed, Holds

\* A bump of the epoch and the passing of time keep the types.
LEMMA ClockTyped ==
    ASSUME Typed, Bump \/ Tick, UNCHANGED inst
    PROVE  Typed'
<1>. USE DEF Validators, Revokers
<1>1. CASE Bump
  BY <1>1 DEF Typed, TypeOK, Holds, Bump, keyVars, lockVars, history
<1>2. CASE Tick
  <2>1. NoSess \in Sessions /\ NoMapping \in [new : 0..minted, exp : Nat]
    BY PolicyFacts DEF Typed, TypeOK, NoSess, Sessions, NoMapping, NoToken, Tokens
  <2>. QED
    BY <1>2, <2>1 DEF Typed, TypeOK, Holds, Tick
<1>. QED
  BY <1>1, <1>2

\* Every variable keeps its type (the types SessionLifecycle.TypeOK states).
LEMMA TypedStep == Typed /\ [Next]_vars => Typed'
<1>. SUFFICES ASSUME Typed, [Next]_vars PROVE Typed'
  OBVIOUS
<1>1. CASE UNCHANGED vars
  BY <1>1 DEF vars, history, Typed, TypeOK, Holds, Validators, Revokers
<1>. QED
  BY <1>1, ValidateTyped, RevokeTyped, ClockTyped DEF Next

\* In the initial state one session of one login exists.
LEMMA TypedInit == Init => Typed
<1>. SUFFICES ASSUME Init PROVE Typed
  OBVIOUS
<1>1. /\ 1 \in Tokens /\ Tokens \subseteq Nat /\ NoSess \in Sessions
      /\ [first |-> 0, issued |-> 0, ext |-> 0, idle |-> Idle, epoch |-> 0, exp |-> Idle]
           \in Sessions
      /\ Larger(Idle, IndexFloor) \in Nat
  BY PolicyFacts DEF Tokens, NoSess, Sessions, Larger
<1>. QED
  BY <1>1 DEF Init, Typed, TypeOK, Holds, NoMapping, Idling, NoAnswer, RevIdle, NoToken

\* SessionLifecycle.TypeOK holds in every reachable state.
THEOREM TypeCorrect == Spec => []TypeOK
BY TypedInit, TypedStep, PTL DEF Spec, Typed

-----------------------------------------------------------------------------
\* tryExtend and tryRotate copy the session they were given: every copy, stored or
\* held by a request, is of the one login, with its time and its epoch.
Origin ==
    /\ \A t \in Tokens : sess[t].first = 0 /\ sess[t].epoch = 0
    /\ \A v \in Validators : val[v].s.first = 0 /\ val[v].s.epoch = 0

\* A request past the comparison of the epochs began before the first bump.
Compared ==
    \A v \in Validators : /\ val[v].began <= epoch
                          /\ val[v].pc \notin {"idle", "epoch"} => val[v].began = 0

AnswerInv == Typed /\ Origin /\ Compared /\ CachedWithinMaxLifetime /\ EpochNotLaundered

\* An answer about a copy of the session of the login, to a request that began before
\* any bump, may be given.
LEMMA AcceptSound ==
    ASSUME AnswerInv, UNCHANGED inst, NEW v \in Validators, NEW s \in Sessions, NEW new,
           Accept(v, s, new), s.first = 0, val[v].began = 0
    PROVE  CachedWithinMaxLifetime' /\ EpochNotLaundered'
<1>. DEFINE a == [tok |-> val[v].tok, at |-> now, ttl |-> cacheTTL(RemainingAt(s, now)),
                  new |-> new, began |-> val[v].began]
<1>1. /\ Validators' = Validators /\ MaxLife' = MaxLife /\ MaxLife \in Nat
      /\ ans \in [Validators -> Answers] /\ now \in Nat /\ inst \in Instances
  BY PolicyFacts DEF AnswerInv, Typed, TypeOK, Answers, Validators, MaxLife
<1>2. ans' = [ans EXCEPT ![v] = a]
  BY DEF Accept
<1>3. a.began = 0 /\ (a.ttl > 0 => a.at + a.ttl <= MaxLife)
  BY <1>1, RemainingFacts
<1>. HIDE DEF a
<1>. QED
  BY <1>1, <1>2, <1>3 DEF AnswerInv, CachedWithinMaxLifetime, EpochNotLaundered, Accepted

\* A refusal leaves no answer behind.
LEMMA RefuseSound ==
    ASSUME AnswerInv, UNCHANGED inst, NEW v \in Validators,
           ans' = [ans EXCEPT ![v] = NoAnswer]
    PROVE  CachedWithinMaxLifetime' /\ EpochNotLaundered'
<1>1. /\ Validators' = Validators /\ MaxLife' = MaxLife
      /\ ans \in [Validators -> Answers]
  BY DEF AnswerInv, Typed, TypeOK, Answers, Validators, MaxLife
<1>. QED
  BY <1>1 DEF AnswerInv, CachedWithinMaxLifetime, EpochNotLaundered, NoAnswer, Accepted, NoToken

\* A step of a request preserves the invariant.  The comparison of the epochs is the
\* only way past "epoch"; what is written afterwards keeps FirstLoginAt and Epoch.
LEMMA ValidateAnswers ==
    ASSUME AnswerInv, NEW v \in Validators, Validate(v), UNCHANGED inst
    PROVE  Origin' /\ Compared' /\ CachedWithinMaxLifetime' /\ EpochNotLaundered'
<1>t. /\ val \in [Validators -> Requests] /\ sess \in [Tokens -> Sessions]
      /\ epoch \in Nat /\ minted \in Tokens /\ Validators' = Validators
      /\ inst \in Instances /\ MaxLife' = MaxLife
  BY DEF AnswerInv, Typed, TypeOK, Requests, ValPc, Validators, MaxLife
<1>i. Origin /\ Compared
  BY DEF AnswerInv
<1>n. minted \in Nat /\ 1..minted \subseteq Tokens /\ NoToken \in 0..minted
  BY <1>t, PolicyFacts DEF Tokens, NoToken
<1>w. /\ val[v].s \in Sessions /\ Rotated(v) \in Sessions
      /\ [val[v].s EXCEPT !.ext = val[v].at, !.idle = val[v].at + Idle] \in Sessions
      /\ [val[v].s EXCEPT !.idle = val[v].at + Grace] \in Sessions
      /\ val[v].new \in 0..minted
  BY WrittenTyped DEF Requests, AnswerInv
<1>o. /\ val[v].s.first = 0 /\ val[v].s.epoch = 0
      /\ Rotated(v).first = 0 /\ Rotated(v).epoch = 0
  BY <1>w, <1>i DEF Origin, Rotated, Sessions
<1>h. val[v].pc # "idle" => val[v].tok \in Tokens
  BY DEF AnswerInv, Typed, Holds
<1>1. CASE ValidateGet(v)
  <2>1. PICK t \in 1..minted :
            val' = [val EXCEPT ![v] = [Idling EXCEPT !.pc = "epoch", !.tok = t,
                                          !.s = [sess[t] EXCEPT !.exp = 0],
                                          !.began = epoch]]
    BY <1>1 DEF ValidateGet
  <2>. DEFINE q == [Idling EXCEPT !.pc = "epoch", !.tok = t,
                                  !.s = [sess[t] EXCEPT !.exp = 0], !.began = epoch]
  <2>2. /\ [sess[t] EXCEPT !.exp = 0].first = 0 /\ [sess[t] EXCEPT !.exp = 0].epoch = 0
    BY <1>t, <1>n, <1>i DEF Origin, Sessions
  <2>3. q.s.first = 0 /\ q.s.epoch = 0 /\ q.began = epoch /\ q.pc = "epoch"
    BY <2>2 DEF Idling
  <2>k. UNCHANGED <<sess, epoch>> /\ val' = [val EXCEPT ![v] = q]
    BY <1>1, <2>1 DEF ValidateGet, keyVars
  <2>. HIDE DEF q
  <2>4. Origin' /\ Compared'
    BY <1>t, <1>i, <2>k, <2>3 DEF Origin, Compared
  <2>. QED
    BY <1>1, <2>4, RefuseSound DEF ValidateGet
<1>2. CASE ValidateEpoch(v)
  <2>1. CASE val[v].s.epoch # epoch /\ Delete(val[v].tok) /\ Refuse(v)
    <3>1. Origin' /\ Compared'
      BY <1>2, <1>t, <1>i, <1>h, <2>1 DEF ValidateEpoch, Origin, Compared, Delete, Refuse,
                                          Idling, NoSess
    <3>. QED
      BY <3>1, <2>1, RefuseSound DEF Refuse
  <2>2. CASE UNCHANGED keyVars /\ Refuse(v)
    <3>1. Origin' /\ Compared'
      BY <1>2, <1>t, <1>i, <2>2 DEF ValidateEpoch, Origin, Compared, Refuse, Idling, NoSess,
                                    keyVars
    <3>. QED
      BY <3>1, <2>2, RefuseSound DEF Refuse
  <2>3. CASE /\ val[v].s.epoch = epoch /\ UNCHANGED keyVars
             /\ Accept(v, val[v].s, NoToken)
    <3>1. val[v].began = 0
      BY <1>t, <1>i, <1>o, <2>3 DEF Compared, Requests
    <3>2. Origin' /\ Compared'
      BY <1>2, <1>t, <1>i, <2>3 DEF ValidateEpoch, Origin, Compared, Accept, Idling, NoSess,
                                    keyVars
    <3>. QED
      BY <3>1, <3>2, <2>3, <1>w, <1>o, AcceptSound
  <2>4. CASE /\ val[v].s.epoch = epoch /\ UNCHANGED keyVars /\ UNCHANGED ans
             /\ \E pc \in {"rotLock", "extLock"} :
                   val' = [val EXCEPT ![v].pc = pc, ![v].at = now]
    <3>1. val[v].began = 0
      BY <1>t, <1>i, <1>o, <2>4 DEF Compared, Requests
    <3>2. Origin' /\ Compared'
      BY <1>2, <1>t, <1>i, <2>4, <3>1 DEF ValidateEpoch, Origin, Compared, keyVars, Requests
    <3>. QED
      BY <3>2, <2>4, <1>t DEF AnswerInv, CachedWithinMaxLifetime, EpochNotLaundered, Accepted
  <2>. QED
    BY <1>2, <2>1, <2>2, <2>3, <2>4 DEF ValidateEpoch
<1>3. CASE ExtendLock(v)
  <2>1. CASE Accept(v, val[v].s, NoToken)
    <3>1. Origin' /\ Compared'
      BY <1>3, <1>t, <1>i, <2>1 DEF ExtendLock, Origin, Compared, Accept, Idling, NoSess, keyVars
    <3>. QED
      BY <1>3, <1>w, <1>o, <1>i, <2>1, <3>1, AcceptSound DEF ExtendLock, Compared
  <2>2. CASE UNCHANGED ans /\ val' = [val EXCEPT ![v].pc = "extPut"]
    BY <1>3, <1>t, <1>i, <2>2 DEF ExtendLock, Origin, Compared, keyVars, Requests, AnswerInv,
                                  CachedWithinMaxLifetime, EpochNotLaundered, Accepted
  <2>. QED
    BY <1>3, <2>1, <2>2 DEF ExtendLock
<1>4. CASE ExtendPut(v)
  <2>. DEFINE s == [val[v].s EXCEPT !.ext = val[v].at, !.idle = val[v].at + Idle]
              u == [s EXCEPT !.exp = now + RemainingAt(s, val[v].at)]
  <2>1. sess' = [sess EXCEPT ![val[v].tok] = u] /\ Accept(v, s, NoToken)
    BY <1>4 DEF ExtendPut, Put
  <2>2. s \in Sessions /\ s.first = 0 /\ s.epoch = 0
    BY <1>w, <1>o DEF Sessions
  <2>. HIDE DEF s
  <2>3. u.first = 0 /\ u.epoch = 0
    BY <2>2 DEF Sessions
  <2>. HIDE DEF u
  <2>4. Origin' /\ Compared'
    BY <1>4, <1>t, <1>h, <1>i, <2>1, <2>3 DEF ExtendPut, Origin, Compared, Accept, Idling, NoSess
  <2>. QED
    BY <1>4, <1>i, <2>1, <2>2, <2>4, AcceptSound DEF ExtendPut, Compared
<1>5. CASE RotateLock(v)
  BY <1>5, <1>t, <1>i DEF RotateLock, Origin, Compared, keyVars, Requests, AnswerInv,
                          CachedWithinMaxLifetime, EpochNotLaundered, Accepted
<1>6. CASE RotatedTo(v)
  <2>1. Origin' /\ Compared'
    BY <1>6, <1>t, <1>i DEF RotatedTo, Origin, Compared, Accept, Idling, NoSess, keyVars
  <2>. QED
    BY <1>6, <1>w, <1>o, <1>i, <2>1, AcceptSound DEF RotatedTo, Compared
<1>7. CASE RotateNew(v)
  <2>. DEFINE s == Rotated(v)
              u == [s EXCEPT !.exp = now + RemainingAt(s, val[v].at)]
  <2>1. sess' = [sess EXCEPT ![val[v].new] = u] /\ val' = [val EXCEPT ![v].pc = "rotMap"]
    BY <1>7 DEF RotateNew, Put
  <2>2. u.first = 0 /\ u.epoch = 0
    BY <1>w, <1>o DEF Sessions
  <2>. HIDE DEF u
  <2>. QED
    BY <1>7, <1>t, <1>i, <2>1, <2>2 DEF RotateNew, Origin, Compared, Requests, AnswerInv,
                          CachedWithinMaxLifetime, EpochNotLaundered, Accepted
<1>8. CASE RotateMap(v)
  BY <1>8, <1>t, <1>i DEF RotateMap, Origin, Compared, keyVars, Requests, AnswerInv,
                          CachedWithinMaxLifetime, EpochNotLaundered, Accepted
<1>9. CASE RotateOld(v)
  <2>. DEFINE s == [val[v].s EXCEPT !.idle = val[v].at + Grace]
              u == [s EXCEPT !.exp = now + Grace]
  <2>1. sess' = [sess EXCEPT ![val[v].tok] = u] /\ Accept(v, Rotated(v), val[v].new)
    BY <1>9 DEF RotateOld, Put
  <2>2. s \in Sessions /\ s.first = 0 /\ s.epoch = 0
    BY <1>w, <1>o DEF Sessions
  <2>. HIDE DEF s
  <2>3. u.first = 0 /\ u.epoch = 0
    BY <2>2 DEF Sessions
  <2>. HIDE DEF u
  <2>4. Origin' /\ Compared'
    BY <1>9, <1>t, <1>h, <1>i, <2>1, <2>3 DEF RotateOld, Origin, Compared, Accept, Idling, NoSess
  <2>. QED
    BY <1>9, <1>w, <1>o, <1>i, <2>1, <2>4, AcceptSound DEF RotateOld, Compared
<1>10. CASE ValidateDies(v)
  <2>1. Origin' /\ Compared'
    BY <1>10, <1>t, <1>i DEF ValidateDies, Origin, Compared, Refuse, Idling, NoSess, keyVars
  <2>. QED
    BY <1>10, <2>1, RefuseSound DEF ValidateDies, Refuse
<1>. QED
  BY <1>1, <1>2, <1>3, <1>4, <1>5, <1>6, <1>7, <1>8, <1>9, <1>10 DEF Validate

\* Nothing but a request gives answers; the others only remove sessions, and a bump
\* comes after whatever began before it.
LEMMA OthersAnswer ==
    ASSUME AnswerInv, UNCHANGED inst, (\E r \in Revokers : Revoke(r)) \/ Bump \/ Tick
    PROVE  Origin' /\ Compared' /\ CachedWithinMaxLifetime' /\ EpochNotLaundered'
<1>t. /\ val \in [Validators -> Requests] /\ sess \in [Tokens -> Sessions] /\ epoch \in Nat
      /\ Validators' = Validators /\ MaxLife' = MaxLife
      /\ rev \in [Revokers -> [pc : {"idle", "list", "srem", "sweep", "gone", "done",
                                       "failed"},
                                todo : SUBSET Tokens, dangling : SUBSET Tokens,
                                blind : BOOLEAN]]
  BY DEF AnswerInv, Typed, TypeOK, Requests, ValPc, Validators, MaxLife
<1>1. UNCHANGED <<val, ans>> /\ epoch' >= epoch /\ epoch' \in Nat
  <2>1. CASE \E r \in Revokers : Revoke(r)
    <3>1. UNCHANGED <<val, ans, epoch>>
      BY <2>1 DEF Revoke, RevokeBegin, RevokeGone, RevokeList, RevokeSrem, RevokeToken,
                  RevokeDone, RevokeFails
    <3>. QED
      BY <1>t, <3>1
  <2>2. CASE Bump \/ Tick
    BY <1>t, <2>2 DEF Bump, Tick
  <2>. QED
    BY <2>1, <2>2
<1>2. \A t \in Tokens : sess'[t] = sess[t] \/ sess'[t] = NoSess
  <2>1. CASE Tick
    BY <1>t, <2>1 DEF Tick
  <2>2. CASE \E r \in Revokers : RevokeToken(r)
    BY <1>t, <2>2 DEF RevokeToken, Delete, keyVars
  <2>3. CASE UNCHANGED sess
    BY <2>3
  <2>. QED
    BY <2>1, <2>2, <2>3 DEF Revoke, RevokeBegin, RevokeGone, RevokeList, RevokeSrem, RevokeDone,
                            RevokeFails, Bump, keyVars
<1>3. Origin'
  BY <1>t, <1>1, <1>2 DEF AnswerInv, Origin, NoSess
<1>4. Compared'
  BY <1>t, <1>1 DEF AnswerInv, Compared, Requests
<1>. QED
  BY <1>t, <1>1, <1>3, <1>4 DEF AnswerInv, CachedWithinMaxLifetime, EpochNotLaundered, Accepted

\* However sessions are rotated, extended, logged out and revoked, the invariant stays.
LEMMA AnswerStep == AnswerInv /\ [Next]_vars => AnswerInv'
<1>. SUFFICES ASSUME AnswerInv, [Next]_vars PROVE AnswerInv'
  OBVIOUS
<1>1. Typed'
  BY TypedStep DEF AnswerInv
<1>2. CASE UNCHANGED vars
  BY <1>1, <1>2 DEF vars, AnswerInv, Origin, Compared, CachedWithinMaxLifetime,
                    EpochNotLaundered, Accepted, Validators, MaxLife
<1>. QED
  BY <1>1, <1>2, ValidateAnswers, OthersAnswer DEF Next, AnswerInv

\* At the login nothing was answered.
LEMMA AnswerInit == Init => AnswerInv
<1>. SUFFICES ASSUME Init PROVE AnswerInv
  OBVIOUS
<1>1. Typed
  BY TypedInit
<1>. QED
  BY <1>1 DEF AnswerInv, Init, Origin, Compared, CachedWithinMaxLifetime, EpochNotLaundered,
              Accepted, NoAnswer, NoToken, Idling, NoSess

\* SessionService.Validate with cacheTTL: for every policy and however requests rotate,
\* extend and die, no answer may be cached past max_lifetime after the login.
THEOREM CacheBounded == Spec => []CachedWithinMaxLifetime
BY AnswerInit, AnswerStep, PTL DEF Spec, AnswerInv

\* Session.Epoch: for any number of requests, one that begins after a bump of the
\* revocation epoch is not accepted, under whichever token.
THEOREM EpochKept == Spec => []EpochNotLaundered
BY AnswerInit, AnswerStep, PTL DEF Spec, AnswerInv


-----------------------------------------------------------------------------
(* The index and the revocations.                                          *)

\* A session is accepted until its idle window or the life of the login ends.
LEMMA UsableMeans ==
    Typed /\ Origin =>
        \A t \in Tokens : Usable(t) <=> now < sess[t].idle /\ now < MaxLife
BY PolicyFacts DEF Typed, TypeOK, Origin, Usable, RemainingAt, MaxExpiresAt, Larger, Smaller,
                   Sessions

\* No window is longer than the idle timeout from now, but one cut to the grace period; an
\* accepted session has its key.
Clocked ==
    /\ \A t \in Tokens : cut[t] = 0 => sess[t].idle <= now + Idle
    /\ \A t \in Tokens : Usable(t) => sess[t].exp > 0
    /\ \A v \in Validators : val[v].at <= now

\* Every session is in the index, and outlives it only if the index was last renewed by a
\* grace write or the session is in its grace period.
Covering ==
    /\ index # {} => indexExp >= lastPut.at + IndexFloor
    /\ \A t \in Tokens : Usable(t) /\ t \notin undone \cup lost =>
         /\ t \in index
         /\ \/ lastPut.grace
            \/ cut[t] # 0
            \/ sess[t].idle <= indexExp
            \/ MaxLife <= indexExp

\* While a revocation goes through the tokens it overlaps whatever request is under way.
Overlapping ==
    \A r \in Revokers :
        /\ rev[r].pc \in {"list", "srem", "sweep"} =>
             \A v \in Validators : val[v].pc # "idle" => v \in overtaken
        /\ rev[r].pc = "srem" => \A t \in rev[r].dangling : Usable(t) => t \in undone

\* What a revocation that was not blind has not deleted yet is on its list, and afterwards
\* nothing is left but what was written back: whoever came later holds a dead copy.
Swept ==
    \A r \in Revokers : ~rev[r].blind =>
        /\ rev[r].pc \in {"srem", "sweep"} =>
             \A t \in Tokens : Usable(t) => t \in undone \/ t \in rev[r].todo
        /\ rev[r].pc = "done" =>
             /\ \A t \in Tokens : Usable(t) => t \in undone
             /\ \A v \in Validators : val[v].pc # "idle" /\ v \notin overtaken =>
                  val[v].pc = "epoch" /\ RemainingAt(val[v].s, now) = 0

IndexInv == AnswerInv /\ Clocked /\ Covering /\ Overlapping /\ Swept

\* How far a revocation can be.
Sweeps == [pc : {"idle", "list", "srem", "sweep", "gone", "done", "failed"},
           todo : SUBSET Tokens, dangling : SUBSET Tokens, blind : BOOLEAN]

-----------------------------------------------------------------------------
\* What a step of a request does to the keys: nothing,
Quiet == UNCHANGED <<keyVars, cut, undone, lastPut, lost>>

\* one deletion,
Removes == (\E t \in Tokens : Delete(t)) /\ UNCHANGED <<cut, undone, lastPut, lost>>

\* the grace write of a rotation,
Cuts(v) ==
    \E t \in Tokens, s \in Sessions :
        /\ Put(t, s, Grace) /\ Noted(v, t, TRUE)
        /\ cut' = [cut EXCEPT ![t] = now + Grace]

\* or a write with a whole idle window or what is left of the login's life.
Fills(v) ==
    \E t \in Tokens, s \in Sessions, ttl \in Nat :
        /\ Put(t, s, ttl) /\ Noted(v, t, FALSE)
        /\ cut' = cut \/ cut' = [cut EXCEPT ![t] = 0]
        /\ s.idle <= now + Idle
        /\ Idle <= ttl \/ MaxLife <= now + ttl
        /\ now < s.idle /\ now < MaxLife => ttl > 0

\* A session with a new window is written for as long as the window or the life lasts.
LEMMA WindowFacts ==
    ASSUME Typed, NEW s \in Sessions, NEW at \in Nat, at <= now,
           s.idle = at + Idle, s.first = 0
    PROVE  /\ RemainingAt(s, at) \in Nat
           /\ s.idle <= now + Idle
           /\ Idle <= RemainingAt(s, at) \/ MaxLife <= now + RemainingAt(s, at)
           /\ now < s.idle /\ now < MaxLife => RemainingAt(s, at) > 0
BY PolicyFacts DEF Typed, TypeOK, RemainingAt, MaxExpiresAt, Larger, Smaller

\* The four kinds of a request's steps; only one past the comparison of the epochs writes.
LEMMA ValidateKeys ==
    ASSUME AnswerInv, Clocked, NEW v \in Validators, Validate(v), UNCHANGED inst
    PROVE  /\ UNCHANGED <<now, rev>>
           /\ \/ Quiet
              \/ Removes
              \/ /\ val[v].pc \notin {"idle", "epoch"} /\ UNCHANGED overtaken
                 /\ Cuts(v) \/ Fills(v)
           /\ UNCHANGED overtaken \/ ValidateGet(v)
<1>. USE DEF history, keyVars, Quiet
<1>t. Typed /\ inst \in Instances /\ now \in Nat
  BY DEF AnswerInv, Typed, TypeOK
<1>w. /\ Rotated(v) \in Sessions
      /\ [val[v].s EXCEPT !.ext = val[v].at, !.idle = val[v].at + Idle] \in Sessions
      /\ [val[v].s EXCEPT !.idle = val[v].at + Grace] \in Sessions
      /\ val[v].at \in Nat /\ val[v].s \in Sessions /\ val[v].at <= now
      /\ val[v].s.first = 0
  BY <1>t, WrittenTyped DEF Requests, AnswerInv, Origin, Clocked
<1>h. /\ val[v].pc # "idle" => val[v].tok \in Tokens
      /\ val[v].pc \in {"rotNew", "rotMap", "rotOld"} => val[v].new \in Tokens
  BY <1>t DEF Typed, Holds
<1>1. CASE ExtendPut(v)
  <2>. DEFINE s == [val[v].s EXCEPT !.ext = val[v].at, !.idle = val[v].at + Idle]
  <2>1. s \in Sessions /\ s.idle = val[v].at + Idle /\ s.first = 0
    BY <1>w DEF Sessions
  <2>2. /\ Put(val[v].tok, s, RemainingAt(s, val[v].at)) /\ Noted(v, val[v].tok, FALSE)
        /\ cut' = cut \/ cut' = [cut EXCEPT ![val[v].tok] = 0]
        /\ UNCHANGED <<now, rev, overtaken>> /\ val[v].pc = "extPut"
    BY <1>1 DEF ExtendPut
  <2>. HIDE DEF s
  <2>3. Fills(v)
    BY <1>t, <1>w, <1>h, <2>1, <2>2, WindowFacts DEF Fills
  <2>. QED
    BY <2>2, <2>3
<1>2. CASE RotateNew(v)
  <2>1. Rotated(v).idle = val[v].at + Idle /\ Rotated(v).first = 0
    BY <1>w DEF Sessions, Rotated
  <2>2. /\ Put(val[v].new, Rotated(v), RemainingAt(Rotated(v), val[v].at))
        /\ Noted(v, val[v].new, FALSE)
        /\ UNCHANGED <<now, rev, overtaken, cut>> /\ val[v].pc = "rotNew"
    BY <1>2 DEF RotateNew
  <2>3. Fills(v)
    BY <1>t, <1>w, <1>h, <2>1, <2>2, WindowFacts DEF Fills
  <2>. QED
    BY <2>2, <2>3
<1>3. CASE RotateOld(v)
  BY <1>3, <1>h, <1>w DEF RotateOld, CutShort, Cuts
<1>4. CASE ValidateEpoch(v)
  BY <1>4, <1>h DEF ValidateEpoch, Removes
<1>5. CASE ValidateGet(v)
  BY <1>5 DEF ValidateGet
<1>. QED
  BY <1>1, <1>2, <1>3, <1>4, <1>5 DEF Validate, ExtendLock, RotateLock, RotatedTo, RotateMap,
                                      ValidateDies

-----------------------------------------------------------------------------
\* A request's step keeps the clocks: it moves none but its own.
LEMMA ValidateClocked ==
    ASSUME IndexInv, NEW v \in Validators, Validate(v), UNCHANGED inst
    PROVE  Clocked' /\ Covering'
<1>t. /\ sess \in [Tokens -> Sessions] /\ cut \in [Tokens -> Nat] /\ now \in Nat
      /\ indexExp \in Nat /\ index \subseteq Tokens /\ lastPut \in [at : Nat, grace : BOOLEAN]
      /\ val \in [Validators -> Requests] /\ inst \in Instances
      /\ MaxLife' = MaxLife /\ MaxLife \in Nat /\ Validators' = Validators
      /\ \A t \in Tokens : sess[t].idle \in Nat /\ sess[t].exp \in Nat
  BY PolicyFacts DEF IndexInv, AnswerInv, Typed, TypeOK, Requests, ValPc, MaxLife, Validators,
                     Sessions
<1>k. /\ UNCHANGED now
      /\ Quiet \/ Removes \/ Cuts(v) \/ Fills(v)
  BY ValidateKeys DEF IndexInv
<1>u. \A t \in Tokens : Usable(t) <=> now < sess[t].idle /\ now < MaxLife
  BY UsableMeans DEF IndexInv, AnswerInv
<1>p. AnswerInv'
  BY AnswerStep DEF IndexInv, Next
<1>m. (Typed /\ Origin => \A t \in Tokens : Usable(t) <=> now < sess[t].idle /\ now < MaxLife)'
  BY UsableMeans, PTL
<1>q. \A t \in Tokens : Usable(t)' <=> now < sess'[t].idle /\ now < MaxLife
  BY <1>m, <1>p, <1>k, <1>t DEF AnswerInv
<1>c. Clocked /\ Covering
  BY DEF IndexInv
<1>g. Grace \in Nat /\ Grace > 0 /\ Idle \in Nat /\ IndexFloor \in Nat
  BY PolicyFacts
<1>1. \A x \in Validators : val'[x].at <= now'
  <2>1. \A x \in Validators : val[x].at \in Nat /\ val[x].at <= now
    BY <1>t, <1>c DEF Clocked, Requests
  <2>2. CASE ValidateGet(v)
    <3>1. PICK t \in 1..minted :
              val' = [val EXCEPT ![v] = [Idling EXCEPT !.pc = "epoch", !.tok = t,
                                              !.s = [sess[t] EXCEPT !.exp = 0],
                                              !.began = epoch]]
      BY <2>2 DEF ValidateGet
    <3>. DEFINE new == [Idling EXCEPT !.pc = "epoch", !.tok = t,
                                      !.s = [sess[t] EXCEPT !.exp = 0], !.began = epoch]
    <3>2. new.at = 0 /\ val' = [val EXCEPT ![v] = new]
      BY <3>1 DEF Idling
    <3>. HIDE DEF new
    <3>. QED
      BY <3>2, <2>1, <1>t, <1>k
  <2>3. CASE ~ValidateGet(v)
    <3>1. CASE val' = [val EXCEPT ![v] = Idling]
      BY <3>1, <2>1, <1>t, <1>k DEF Idling
    <3>2. CASE \E p \in ValPc : \/ val' = [val EXCEPT ![v].pc = p]
                               \/ val' = [val EXCEPT ![v].pc = p, ![v].at = now]
                               \/ val' = [val EXCEPT ![v].pc = p, ![v].new = minted + 1]
      BY <3>2, <2>1, <1>t, <1>k DEF Requests
    <3>3. QED
      <4>1. "rotMap" \in ValPc /\ "rotOld" \in ValPc /\ "extPut" \in ValPc
            /\ "rotRead" \in ValPc /\ "rotNew" \in ValPc /\ "rotLock" \in ValPc
            /\ "extLock" \in ValPc
        BY DEF ValPc
      <4>. QED
        BY <2>3, <3>1, <3>2, <4>1 DEF Validate, ValidateEpoch, ExtendLock, ExtendPut, RotateLock,
             RotatedTo, RotateNew, RotateMap, RotateOld, ValidateDies, Accept, Refuse
  <2>. QED
    BY <2>2, <2>3
<1>2. CASE Quiet
  <2>1. /\ \A t \in Tokens : cut'[t] = 0 => sess'[t].idle <= now + Idle
        /\ \A t \in Tokens : Usable(t)' => sess'[t].exp > 0
    BY <1>2, <1>t, <1>c, <1>u, <1>q DEF Clocked, Quiet, keyVars
  <2>2. Covering'
    BY <1>2, <1>t, <1>c, <1>u, <1>q DEF Covering, Quiet, keyVars
  <2>. QED
    BY <2>1, <2>2, <1>1, <1>k, <1>t DEF Clocked
<1>3. CASE Removes
  <2>1. PICK d \in Tokens : Delete(d)
    BY <1>3 DEF Removes
  <2>2. UNCHANGED <<cut, undone, lastPut, lost, indexExp>>
    BY <1>3, <2>1 DEF Removes, Delete
  <2>3. /\ \A t \in Tokens : t # d => sess'[t] = sess[t]
        /\ sess'[d].idle = 0
        /\ index' = index \/ index' = index \ {d}
    BY <2>1, <1>t DEF Delete, NoSess
  <2>4. /\ \A t \in Tokens : cut'[t] = 0 => sess'[t].idle <= now + Idle
        /\ \A t \in Tokens : Usable(t)' => sess'[t].exp > 0
    BY <2>2, <2>3, <1>t, <1>c, <1>u, <1>q, <1>g DEF Clocked
  <2>5. Covering'
    BY <2>2, <2>3, <1>t, <1>c, <1>u, <1>q DEF Covering
  <2>. QED
    BY <2>4, <2>5, <1>1, <1>k, <1>t DEF Clocked
<1>4. ASSUME Cuts(v) PROVE Clocked' /\ Covering'
  <2>1. PICK d \in Tokens, s \in Sessions :
            /\ Put(d, s, Grace) /\ Noted(v, d, TRUE)
            /\ cut' = [cut EXCEPT ![d] = now + Grace]
    BY <1>4 DEF Cuts
  <2>. DEFINE w == [s EXCEPT !.exp = now + Grace]
  <2>2. w.exp = now + Grace
    BY DEF Sessions
  <2>3. sess' = [sess EXCEPT ![d] = w] /\ index' = index \cup {d}
    BY <2>1 DEF Put
  <2>. HIDE DEF w
  <2>4. /\ indexExp' = now + Larger(Grace, IndexFloor)
        /\ lastPut' = [at |-> now, grace |-> TRUE]
        /\ \A t \in Tokens : t \notin undone' \cup lost' /\ t # d => t \notin undone \cup lost
    BY <2>1 DEF Put, Noted
  <2>5. /\ \A t \in Tokens : cut'[t] = 0 => sess'[t].idle <= now + Idle
        /\ \A t \in Tokens : Usable(t)' => sess'[t].exp > 0
    BY <2>1, <2>2, <2>3, <1>t, <1>c, <1>u, <1>q, <1>g DEF Clocked
  <2>6. Covering'
    BY <2>3, <2>4, <1>t, <1>c, <1>u, <1>q, <1>g DEF Covering, Larger
  <2>. QED
    BY <2>5, <2>6, <1>1, <1>k, <1>t DEF Clocked
<1>5. ASSUME Fills(v) PROVE Clocked' /\ Covering'
  <2>1. PICK d \in Tokens, s \in Sessions, ttl \in Nat :
            /\ Put(d, s, ttl) /\ Noted(v, d, FALSE)
            /\ cut' = cut \/ cut' = [cut EXCEPT ![d] = 0]
            /\ s.idle <= now + Idle
            /\ Idle <= ttl \/ MaxLife <= now + ttl
            /\ now < s.idle /\ now < MaxLife => ttl > 0
    BY <1>5 DEF Fills
  <2>. DEFINE w == [s EXCEPT !.exp = now + ttl]
  <2>2. w.exp = now + ttl /\ w.idle = s.idle
    BY DEF Sessions
  <2>3. sess' = [sess EXCEPT ![d] = w] /\ index' = index \cup {d}
    BY <2>1 DEF Put
  <2>. HIDE DEF w
  <2>4. /\ indexExp' = now + Larger(ttl, IndexFloor)
        /\ lastPut' = [at |-> now, grace |-> FALSE]
        /\ \A t \in Tokens : t \notin undone' \cup lost' /\ t # d => t \notin undone \cup lost
    BY <2>1 DEF Put, Noted
  <2>5. /\ \A t \in Tokens : cut'[t] = 0 => sess'[t].idle <= now + Idle
        /\ \A t \in Tokens : Usable(t)' => sess'[t].exp > 0
    BY <2>1, <2>2, <2>3, <1>t, <1>c, <1>u, <1>q, <1>g DEF Clocked
  <2>7. now + Idle <= indexExp' \/ MaxLife <= indexExp'
    BY <2>1, <2>4, <1>t, <1>g DEF Larger
  <2>8. now + IndexFloor <= indexExp'
    BY <2>4, <1>t, <1>g DEF Larger
  <2>9. \A t \in Tokens : cut'[t] = 0 => sess'[t].idle <= indexExp' \/ MaxLife <= indexExp'
    <3>1. indexExp' \in Nat /\ \A t \in Tokens : sess'[t].idle \in Nat
      BY <1>p DEF AnswerInv, Typed, TypeOK, Sessions
    <3>. QED
      BY <2>5, <2>7, <3>1, <1>t, <1>g
  <2>6. Covering'
    BY <2>3, <2>4, <2>8, <2>9, <1>t, <1>c, <1>u, <1>q, <1>g DEF Covering
  <2>. QED
    BY <2>5, <2>6, <1>1, <1>k, <1>t DEF Clocked
<1>. QED
  BY <1>k, <1>2, <1>3, <1>4, <1>5

\* A request's step leaves the lists of the revocations alone, and what it writes
\* under one of them is noted as undone.
LEMMA ValidateSwept ==
    ASSUME IndexInv, NEW v \in Validators, Validate(v), UNCHANGED inst
    PROVE  Overlapping' /\ Swept'
<1>t. /\ sess \in [Tokens -> Sessions] /\ now \in Nat
      /\ val \in [Validators -> Requests] /\ inst \in Instances
      /\ rev \in [Revokers -> Sweeps]
      /\ MaxLife' = MaxLife /\ MaxLife \in Nat
      /\ Validators' = Validators /\ Revokers' = Revokers
  BY PolicyFacts DEF IndexInv, AnswerInv, Typed, TypeOK, Requests, ValPc, Sweeps, MaxLife,
                     Validators, Revokers
<1>i. Overlapping /\ Swept /\ minted \in Nat /\ 1..minted \subseteq Tokens
  BY PolicyFacts DEF IndexInv, AnswerInv, Typed, TypeOK, Tokens
<1>k. /\ UNCHANGED <<now, rev>>
      /\ \/ Quiet
         \/ Removes
         \/ /\ val[v].pc \notin {"idle", "epoch"} /\ UNCHANGED overtaken
            /\ Cuts(v) \/ Fills(v)
      /\ UNCHANGED overtaken \/ ValidateGet(v)
  BY ValidateKeys DEF IndexInv
<1>u. \A t \in Tokens : Usable(t) <=> now < sess[t].idle /\ now < MaxLife
  BY UsableMeans DEF IndexInv, AnswerInv
<1>p. AnswerInv'
  BY AnswerStep DEF IndexInv, Next
<1>m. (Typed /\ Origin => \A t \in Tokens : Usable(t) <=> now < sess[t].idle /\ now < MaxLife)'
  BY UsableMeans, PTL
<1>q. \A t \in Tokens : Usable(t)' <=> now < sess'[t].idle /\ now < MaxLife
  BY <1>m, <1>p, <1>k, <1>t DEF AnswerInv
<1>1. \A t \in Tokens : Usable(t)' =>
         \/ Usable(t) /\ (t \in undone => t \in undone')
         \/ v \in overtaken /\ t \in undone'
         \/ v \notin overtaken /\ val[v].pc \notin {"idle", "epoch"}
  <2>1. CASE Quiet
    BY <2>1, <1>u, <1>q DEF Quiet, keyVars
  <2>2. CASE Removes
    <3>1. PICK d \in Tokens : Delete(d)
      BY <2>2 DEF Removes
    <3>2. (\A t \in Tokens : t # d => sess'[t] = sess[t]) /\ sess'[d].idle = 0
      BY <3>1, <1>t DEF Delete, NoSess
    <3>. QED
      BY <2>2, <3>2, <1>t, <1>u, <1>q DEF Removes
  <2>3. CASE val[v].pc \notin {"idle", "epoch"} /\ (Cuts(v) \/ Fills(v))
    <3>1. PICK d \in Tokens : /\ \A t \in Tokens : t # d => sess'[t] = sess[t]
                              /\ undone' = IF v \in overtaken THEN undone \cup {d}
                                                              ELSE undone \ {d}
      BY <2>3, <1>t DEF Cuts, Fills, Put, Noted
    <3>. QED
      BY <2>3, <3>1, <1>u, <1>q
  <2>. QED
    BY <1>k, <2>1, <2>2, <2>3
<1>2. ASSUME NEW r \in Revokers, rev[r].pc \in {"list", "srem", "sweep"},
             NEW x \in Validators, val'[x].pc # "idle"
      PROVE  x \in overtaken'
  <2>1. CASE ValidateGet(v)
    BY <2>1, <1>2, <1>i, <1>t DEF ValidateGet, RevocationUnderWay, Overlapping
  <2>2. CASE val[v].pc # "idle"
    <3>1. UNCHANGED overtaken /\ val[x].pc # "idle"
      BY <2>2, <1>2, <1>t DEF Validate, ValidateGet, ValidateEpoch, ExtendLock, ExtendPut,
           RotateLock, RotatedTo, RotateNew, RotateMap, RotateOld, ValidateDies, Accept, Refuse,
           history
    <3>. QED
      BY <3>1, <1>2, <1>i DEF Overlapping
  <2>. QED
    BY <2>1, <2>2 DEF Validate, ValidateEpoch, ExtendLock, ExtendPut, RotateLock, RotatedTo,
         RotateNew, RotateMap, RotateOld, ValidateDies
<1>3. \A r \in Revokers : rev[r].pc \in {"list", "srem", "sweep"} =>
         val[v].pc = "idle" \/ v \in overtaken
  BY <1>i DEF Overlapping
<1>4. Overlapping'
  <2>1. \A r \in Revokers : rev[r].pc = "srem" =>
           \A t \in rev[r].dangling : Usable(t)' => t \in undone'
    BY <1>1, <1>3, <1>i, <1>t DEF Overlapping, Sweeps
  <2>. QED
    BY <1>2, <1>k, <1>t, <2>1 DEF Overlapping
<1>5. Swept'
  <2>. SUFFICES ASSUME NEW r \in Revokers, ~rev[r].blind
                PROVE  /\ rev[r].pc \in {"srem", "sweep"} =>
                            \A t \in Tokens : Usable(t)' => t \in undone' \/ t \in rev[r].todo
                       /\ rev[r].pc = "done" =>
                            /\ \A t \in Tokens : Usable(t)' => t \in undone'
                            /\ \A x \in Validators : val'[x].pc # "idle" /\ x \notin overtaken' =>
                                 val'[x].pc = "epoch" /\ RemainingAt(val[x].s, now)' = 0
    BY <1>k, <1>t DEF Swept
  <2>1. CASE rev[r].pc \in {"srem", "sweep"}
    BY <2>1, <1>1, <1>3, <1>i DEF Swept
  <2>2. CASE rev[r].pc = "done"
    <3>1. \A t \in Tokens : Usable(t)' => t \in undone'
      BY <2>2, <1>1, <1>i DEF Swept
    <3>2. ASSUME NEW x \in Validators, val'[x].pc # "idle", x \notin overtaken'
          PROVE  val'[x].pc = "epoch" /\ RemainingAt(val[x].s, now)' = 0
      <4>r. \A s \in Sessions : RemainingAt(s, now)' = RemainingAt(s, now)
        BY <1>k, <1>t DEF RemainingAt, MaxExpiresAt
      <4>1. CASE x # v
        <5>1. val'[x] = val[x] /\ x \notin overtaken
          BY <4>1, <1>k, <1>t, <3>2 DEF Validate, ValidateGet, ValidateEpoch, ExtendLock,
               ExtendPut, RotateLock, RotatedTo, RotateNew, RotateMap, RotateOld, ValidateDies,
               Accept, Refuse
        <5>. QED
          BY <5>1, <2>2, <3>2, <1>i, <1>t, <4>r DEF Swept, Requests
      <4>2. CASE x = v /\ ValidateGet(v)
        <5>1. PICK t \in 1..minted :
                  /\ val' = [val EXCEPT ![v] = [Idling EXCEPT !.pc = "epoch", !.tok = t,
                                                  !.s = [sess[t] EXCEPT !.exp = 0],
                                                  !.began = epoch]]
                  /\ t \notin undone
          BY <4>2, <3>2 DEF ValidateGet
        <5>. DEFINE s == [sess[t] EXCEPT !.exp = 0]
        <5>2. t \in Tokens /\ val'[v].pc = "epoch" /\ val'[v].s = s
          BY <5>1, <1>t, <1>i DEF Idling
        <5>3. s \in Sessions /\ s.idle = sess[t].idle /\ s.first = sess[t].first
          BY <5>2, <1>t DEF Sessions
        <5>4. ~Usable(t)
          BY <5>1, <5>2, <2>2, <1>i DEF Swept
        <5>. HIDE DEF s
        <5>5. RemainingAt(s, now) = RemainingAt(sess[t], now)
          BY <5>3 DEF RemainingAt, MaxExpiresAt
        <5>6. RemainingAt(sess[t], now) \in Nat
          BY <5>2, <1>t, RemainingFacts
        <5>. QED
          BY <4>2, <5>2, <5>3, <5>4, <5>5, <5>6, <4>r DEF Usable
      <4>3. CASE x = v /\ val[v].pc # "idle"
        <5>1. v \notin overtaken
          BY <4>3, <3>2, <1>k DEF ValidateGet
        <5>2. val[v].pc = "epoch" /\ RemainingAt(val[v].s, now) = 0
          BY <4>3, <5>1, <2>2, <1>i DEF Swept
        <5>3. val'[v].pc = "idle"
          BY <5>2, <1>t DEF Validate, ValidateGet, ValidateEpoch, ExtendLock, ExtendPut,
               RotateLock, RotatedTo, RotateNew, RotateMap, RotateOld, ValidateDies, Refuse,
               Idling
        <5>. QED
          BY <4>3, <5>3, <3>2
      <4>. QED
        BY <4>1, <4>2, <4>3 DEF Validate, ValidateEpoch, ExtendLock, ExtendPut, RotateLock,
             RotatedTo, RotateNew, RotateMap, RotateOld, ValidateDies
    <3>. QED
      BY <2>2, <3>1, <3>2
  <2>. QED
    BY <2>1, <2>2
<1>. QED
  BY <1>4, <1>5

\* A step of a revocation lists every session that Validate accepts, takes from the index
\* what was written back at most, and deletes what it listed.
LEMMA RevokeIndex ==
    ASSUME IndexInv, NEW r \in Revokers, Revoke(r), UNCHANGED inst
    PROVE  Clocked' /\ Covering' /\ Overlapping' /\ Swept'
<1>. USE DEF history, keyVars
<1>t. /\ sess \in [Tokens -> Sessions] /\ cut \in [Tokens -> Nat] /\ now \in Nat
      /\ val \in [Validators -> Requests] /\ inst \in Instances
      /\ rev \in [Revokers -> Sweeps] /\ index \subseteq Tokens
      /\ MaxLife' = MaxLife /\ MaxLife \in Nat /\ Idle \in Nat
      /\ Validators' = Validators /\ Revokers' = Revokers
  BY PolicyFacts DEF IndexInv, AnswerInv, Typed, TypeOK, Requests, ValPc, Sweeps, MaxLife,
                     Validators, Revokers
<1>i. Clocked /\ Covering /\ Overlapping /\ Swept
  BY DEF IndexInv
<1>u. \A t \in Tokens : Usable(t) <=> now < sess[t].idle /\ now < MaxLife
  BY UsableMeans DEF IndexInv, AnswerInv
<1>p. AnswerInv'
  BY AnswerStep DEF IndexInv, Next
<1>m. (Typed /\ Origin => \A t \in Tokens : Usable(t) <=> now < sess[t].idle /\ now < MaxLife)'
  BY UsableMeans, PTL
<1>k. UNCHANGED <<now, val, cut, undone, lastPut, lost, indexExp>>
  BY DEF Revoke, RevokeBegin, RevokeGone, RevokeList, RevokeSrem, RevokeToken, RevokeDone,
         RevokeFails, Delete
<1>q. \A t \in Tokens : Usable(t)' <=> now < sess'[t].idle /\ now < MaxLife
  BY <1>m, <1>p, <1>k, <1>t DEF AnswerInv
<1>r. \A s \in Sessions : RemainingAt(s, now)' = RemainingAt(s, now)
  BY <1>k, <1>t DEF RemainingAt, MaxExpiresAt
<1>s. \A x \in Validators : val[x].s \in Sessions
  BY <1>t DEF Requests
<1>1. CASE RevokeBegin(r) \/ RevokeGone(r)
  <2>1. /\ UNCHANGED <<sess, index>>
        /\ \A q \in Revokers : q # r => rev'[q] = rev[q]
        /\ rev'[r].pc \in {"list", "gone"}
        /\ overtaken \subseteq overtaken'
        /\ rev'[r].pc = "list" => \A x \in Validators : val[x].pc # "idle" => x \in overtaken'
    BY <1>1, <1>t DEF RevokeBegin, RevokeGone, Sweeps
  <2>2. Clocked' /\ Covering'
    BY <2>1, <1>k, <1>t, <1>i, <1>u, <1>q DEF Clocked, Covering
  <2>3. Overlapping'
    BY <2>1, <1>k, <1>t, <1>i, <1>u, <1>q DEF Overlapping, Sweeps
  <2>4. Swept'
    BY <2>1, <1>k, <1>t, <1>i, <1>u, <1>q, <1>r, <1>s DEF Swept
  <2>. QED
    BY <2>2, <2>3, <2>4
<1>2. CASE RevokeList(r)
  <2>1. /\ UNCHANGED <<sess, index, overtaken>> /\ rev[r].pc = "list"
        /\ \A q \in Revokers : q # r => rev'[q] = rev[q]
        /\ rev'[r].pc = "srem"
        /\ rev'[r].todo = {t \in index : Live(t)}
        /\ rev'[r].dangling = {t \in index : ~Live(t)}
        /\ rev'[r].blind = \E t \in lost : Usable(t)
    BY <1>2, <1>t DEF RevokeList, Sweeps
  <2>2. Clocked' /\ Covering'
    BY <2>1, <1>k, <1>t, <1>i, <1>u, <1>q DEF Clocked, Covering
  <2>l. \A t \in Tokens : Usable(t) => Live(t)
    BY <1>i DEF Clocked, Live
  <2>3. Overlapping'
    BY <2>1, <2>l, <1>k, <1>t, <1>i, <1>u, <1>q DEF Overlapping, Sweeps
  <2>5. ~rev'[r].blind => \A t \in Tokens : Usable(t) => t \in undone \/ t \in rev'[r].todo
    BY <2>1, <2>l, <1>i DEF Covering
  <2>6. \A q \in Revokers : rev'[q].blind = rev[q].blind \/ q = r
    BY <2>1
  <2>7. \A t \in Tokens : Usable(t)' <=> Usable(t)
    BY <2>1, <1>u, <1>q
  <2>4. Swept'
    <3>1. ASSUME NEW q \in Revokers, q # r, ~rev'[q].blind
          PROVE  /\ rev'[q].pc \in {"srem", "sweep"} =>
                      \A t \in Tokens : Usable(t)' => t \in undone' \/ t \in rev'[q].todo
                 /\ rev'[q].pc = "done" =>
                      /\ \A t \in Tokens : Usable(t)' => t \in undone'
                      /\ \A x \in Validators' : val'[x].pc # "idle" /\ x \notin overtaken' =>
                           val'[x].pc = "epoch" /\ RemainingAt(val[x].s, now)' = 0
      BY <3>1, <2>1, <2>7, <1>k, <1>t, <1>i, <1>r, <1>s DEF Swept
    <3>. QED
      BY <3>1, <2>1, <2>5, <2>7, <1>k, <1>t DEF Swept
  <2>. QED
    BY <2>2, <2>3, <2>4
<1>3. CASE RevokeSrem(r)
  <2>1. /\ UNCHANGED <<sess, overtaken>> /\ rev[r].pc = "srem"
        /\ \A q \in Revokers : q # r => rev'[q] = rev[q]
        /\ rev'[r].pc = "sweep" /\ rev'[r].todo = rev[r].todo /\ rev'[r].blind = rev[r].blind
        /\ index' = index \/ index' = index \ rev[r].dangling
    BY <1>3, <1>t DEF RevokeSrem, Sweeps
  <2>2. \A t \in rev[r].dangling : Usable(t) => t \in undone
    BY <2>1, <1>i DEF Overlapping
  <2>3. Clocked' /\ Covering'
    BY <2>1, <2>2, <1>k, <1>t, <1>i, <1>u, <1>q DEF Clocked, Covering
  <2>4. Overlapping'
    BY <2>1, <1>k, <1>t, <1>i, <1>u, <1>q DEF Overlapping, Sweeps
  <2>5. Swept'
    BY <2>1, <1>k, <1>t, <1>i, <1>u, <1>q, <1>r, <1>s DEF Swept
  <2>. QED
    BY <2>3, <2>4, <2>5
<1>4. CASE RevokeToken(r)
  <2>1. PICK d \in rev[r].todo :
            /\ \/ Live(d) /\ Delete(d)
               \/ ~Live(d) /\ UNCHANGED keyVars
            /\ rev' = [rev EXCEPT ![r].todo = @ \ {d}]
    BY <1>4 DEF RevokeToken
  <2>2. d \in Tokens /\ rev[r].pc = "sweep" /\ UNCHANGED overtaken
    BY <2>1, <1>4, <1>t DEF RevokeToken, Sweeps
  <2>3. /\ \A q \in Revokers : q # r => rev'[q] = rev[q]
        /\ rev'[r].pc = "sweep" /\ rev'[r].todo = rev[r].todo \ {d}
        /\ rev'[r].blind = rev[r].blind
    BY <2>1, <2>2, <1>t DEF Sweeps
  <2>4. /\ \A t \in Tokens : t # d => sess'[t] = sess[t]
        /\ sess'[d] = sess[d] \/ sess'[d] = NoSess
        /\ index' = index \/ (sess'[d] = NoSess /\ index' = index \ {d})
        /\ Live(d) => sess'[d] = NoSess
    <3>1. CASE Live(d)
      BY <3>1, <2>1, <2>2, <1>t DEF Delete
    <3>2. CASE ~Live(d)
      <4>1. sess' = sess /\ index' = index
        BY <3>2, <2>1
      <4>. QED
        BY <4>1, <3>2
    <3>. QED
      BY <3>1, <3>2
  <2>n. NoSess.idle = 0 /\ NoSess.exp = 0
    BY DEF NoSess
  <2>5. \A t \in Tokens : Usable(t)' => Usable(t) /\ sess'[t] = sess[t] /\ t # d
    <3>1. Usable(d) => Live(d)
      BY <2>2, <1>i DEF Clocked, Live
    <3>. QED
      BY <3>1, <2>2, <2>4, <2>n, <1>t, <1>u, <1>q
  <2>6. Clocked'
    BY <2>4, <2>5, <2>n, <1>k, <1>t, <1>i DEF Clocked
  <2>7. Covering'
    BY <2>4, <2>5, <2>n, <1>k, <1>t, <1>i DEF Covering
  <2>8. Overlapping'
    BY <2>2, <2>3, <2>5, <1>k, <1>t, <1>i DEF Overlapping, Sweeps
  <2>9. Swept'
    BY <2>2, <2>3, <2>5, <1>k, <1>t, <1>i, <1>r, <1>s DEF Swept
  <2>. QED
    BY <2>6, <2>7, <2>8, <2>9
<1>5. CASE RevokeDone(r) \/ RevokeFails(r)
  <2>1. /\ UNCHANGED <<sess, index, overtaken>>
        /\ \A q \in Revokers : q # r => rev'[q] = rev[q]
        /\ rev'[r].blind = rev[r].blind
        /\ \/ rev'[r].pc = "failed"
           \/ rev[r].pc = "sweep" /\ rev[r].todo = {} /\ rev'[r].pc = "done"
    BY <1>5, <1>t DEF RevokeDone, RevokeFails, Sweeps
  <2>2. Clocked' /\ Covering'
    BY <2>1, <1>k, <1>t, <1>i, <1>u, <1>q DEF Clocked, Covering
  <2>3. Overlapping'
    BY <2>1, <1>k, <1>t, <1>i, <1>u, <1>q DEF Overlapping, Sweeps
  <2>4. Swept'
    <3>1. rev'[r].pc = "done" => \A x \in Validators : val[x].pc # "idle" => x \in overtaken
      BY <2>1, <1>i DEF Overlapping
    <3>. QED
      BY <2>1, <3>1, <1>k, <1>t, <1>i, <1>u, <1>q, <1>r, <1>s DEF Swept
  <2>. QED
    BY <2>2, <2>3, <2>4
<1>. QED
  BY <1>1, <1>2, <1>3, <1>4, <1>5 DEF Revoke

\* When time passes, what the index loses was lost to a grace write.
LEMMA ClockIndex ==
    ASSUME IndexInv, Bump \/ Tick, UNCHANGED inst
    PROVE  Clocked' /\ Covering' /\ Overlapping' /\ Swept'
<1>. USE DEF history, keyVars
<1>t. /\ sess \in [Tokens -> Sessions] /\ cut \in [Tokens -> Nat] /\ now \in Nat
      /\ val \in [Validators -> Requests] /\ inst \in Instances
      /\ rev \in [Revokers -> Sweeps] /\ index \subseteq Tokens
      /\ indexExp \in Nat /\ lastPut \in [at : Nat, grace : BOOLEAN]
      /\ MaxLife' = MaxLife /\ MaxLife \in Nat /\ Idle \in Nat /\ IndexFloor \in Nat
      /\ Validators' = Validators /\ Revokers' = Revokers
      /\ \A t \in Tokens : sess[t].idle \in Nat /\ sess[t].exp \in Nat
      /\ \A x \in Validators : val[x].at \in Nat /\ val[x].s \in Sessions
  BY PolicyFacts DEF IndexInv, AnswerInv, Typed, TypeOK, Requests, ValPc, Sweeps, MaxLife,
                     Validators, Revokers, Sessions
<1>i. Clocked /\ Covering /\ Overlapping /\ Swept
  BY DEF IndexInv
<1>u. \A t \in Tokens : Usable(t) <=> now < sess[t].idle /\ now < MaxLife
  BY UsableMeans DEF IndexInv, AnswerInv
<1>p. AnswerInv'
  BY AnswerStep DEF IndexInv, Next
<1>m. (Typed /\ Origin => \A t \in Tokens : Usable(t) <=> now < sess[t].idle /\ now < MaxLife)'
  BY UsableMeans, PTL
<1>q. \A t \in Tokens : Usable(t)' <=> now' < sess'[t].idle /\ now' < MaxLife
  BY <1>m, <1>p, <1>t DEF AnswerInv
<1>1. CASE Bump
  <2>1. UNCHANGED <<now, sess, index, indexExp, val, rev, history>>
    BY <1>1 DEF Bump
  <2>2. \A s \in Sessions : RemainingAt(s, now)' = RemainingAt(s, now)
    BY <2>1, <1>t DEF RemainingAt, MaxExpiresAt
  <2>3. Clocked' /\ Covering'
    BY <2>1, <1>t, <1>i, <1>u, <1>q DEF Clocked, Covering
  <2>4. Overlapping'
    BY <2>1, <1>t, <1>i, <1>u, <1>q DEF Overlapping, Sweeps
  <2>5. Swept'
    BY <2>1, <2>2, <1>t, <1>i, <1>u, <1>q DEF Swept
  <2>. QED
    BY <2>3, <2>4, <2>5
<1>2. CASE Tick
  <2>1. /\ UNCHANGED <<val, rev, cut, overtaken, undone, lastPut>> /\ now' = now + 1
        /\ \A t \in Tokens : sess'[t] = IF sess[t].exp <= now' THEN NoSess ELSE sess[t]
        /\ index' = IF indexExp <= now' THEN {} ELSE index
        /\ indexExp' = IF indexExp <= now' THEN 0 ELSE indexExp
        /\ lost' = lost \cup {t \in Tokens : Live(t) /\ Uncovered(t, now')}
    BY <1>2, <1>t DEF Tick
  <2>n. NoSess.idle = 0 /\ NoSess.exp = 0
    BY DEF NoSess
  <2>2. \A t \in Tokens : Usable(t)' => Usable(t) /\ sess'[t] = sess[t]
    BY <2>1, <2>n, <1>t, <1>u, <1>q
  <2>3. Clocked'
    BY <2>1, <2>2, <2>n, <1>t, <1>i DEF Clocked
  <2>4. ASSUME NEW t \in Tokens, Usable(t)', t \notin undone' \cup lost'
        PROVE  /\ t \in index'
               /\ lastPut.grace \/ cut[t] # 0 \/ sess'[t].idle <= indexExp'
                    \/ MaxLife <= indexExp'
    <3>1. Usable(t) /\ sess'[t] = sess[t] /\ t \notin undone \cup lost /\ Live(t)
      BY <2>1, <2>2, <2>4, <1>i DEF Clocked, Live
    <3>2. /\ t \in index /\ indexExp >= lastPut.at + IndexFloor
          /\ lastPut.grace \/ cut[t] # 0 \/ sess[t].idle <= indexExp \/ MaxLife <= indexExp
      BY <3>1, <1>i DEF Covering
    <3>3. now' < sess[t].idle /\ now' < MaxLife
      BY <2>4, <3>1, <1>q
    <3>4. indexExp > now'
      <4>1. ~Uncovered(t, now')
        BY <2>1, <2>4, <3>1
      <4>. QED
        BY <4>1, <2>1, <3>2, <3>3, <1>t DEF Uncovered
    <3>. QED
      BY <2>1, <3>1, <3>2, <3>4, <1>t
  <2>5. Covering'
    <3>1. index' # {} => indexExp' >= lastPut'.at + IndexFloor
      BY <2>1, <1>i DEF Covering
    <3>. QED
      BY <3>1, <2>1, <2>4, <1>t DEF Covering
  <2>6. Overlapping'
    BY <2>1, <2>2, <1>t, <1>i DEF Overlapping, Sweeps
  <2>7. ASSUME NEW s \in Sessions, RemainingAt(s, now) = 0
        PROVE  RemainingAt(s, now)' = 0
    BY <2>7, <2>1, <1>t DEF RemainingAt, MaxExpiresAt, Larger, Smaller, Sessions
  <2>8. Swept'
    BY <2>1, <2>2, <2>7, <1>t, <1>i DEF Swept
  <2>. QED
    BY <2>3, <2>5, <2>6, <2>8
<1>. QED
  BY <1>1, <1>2

\* However requests, revocations and time interleave, the invariant stays.
LEMMA IndexStep == IndexInv /\ [Next]_vars => IndexInv'
<1>. SUFFICES ASSUME IndexInv, [Next]_vars PROVE IndexInv'
  OBVIOUS
<1>1. AnswerInv'
  BY AnswerStep DEF IndexInv
<1>2. CASE UNCHANGED vars
  BY <1>1, <1>2 DEF vars, history, IndexInv, Clocked, Covering, Overlapping, Swept, Validators,
                    Revokers, MaxLife, Usable, RemainingAt, MaxExpiresAt
<1>. QED
  BY <1>1, <1>2, ValidateClocked, ValidateSwept, RevokeIndex, ClockIndex DEF Next, IndexInv

\* At the login the index covers the session it begins with.
LEMMA IndexInit == Init => IndexInv
<1>. SUFFICES ASSUME Init PROVE IndexInv
  OBVIOUS
<1>1. AnswerInv
  BY AnswerInit
<1>2. /\ \A t \in Tokens : sess[t].idle \in {0, Idle} /\ sess[t].exp = sess[t].idle
      /\ \A t \in Tokens : sess[t].idle # 0 => t = 1
  BY DEF Init, NoSess
<1>3. \A t \in Tokens : Usable(t) <=> now < sess[t].idle /\ now < MaxLife
  BY <1>1, UsableMeans DEF AnswerInv
<1>4. now = 0 /\ index = {1} /\ indexExp = Larger(Idle, IndexFloor) /\ lastPut.at = 0
  BY DEF Init
<1>5. Clocked
  BY <1>2, <1>3, <1>4, PolicyFacts DEF Init, Clocked, Idling
<1>6. Covering
  BY <1>2, <1>3, <1>4, PolicyFacts DEF Covering, Larger
<1>7. Overlapping /\ Swept
  BY DEF Init, Overlapping, Swept, RevIdle
<1>. QED
  BY <1>1, <1>5, <1>6, <1>7 DEF IndexInv

\* SessionStore.Put and ListUserTokens: for every policy (the idle timeout may be longer
\* than the floor of the index), and however requests, logouts and rotations overlap,
\* every session that Validate accepts is in the index that a sweep goes through, but
\* what was written back by a request a revocation overlapped, and what the index lost to
\* a grace write that nothing renewed for the seven days.
THEOREM IndexComplete == Spec => []IndexCoversSessions
<1>1. IndexInv => IndexCoversSessions
  BY DEF IndexInv, Covering, IndexCoversSessions
<1>. QED
  BY <1>1, IndexInit, IndexStep, PTL DEF Spec

-----------------------------------------------------------------------------
(* The rotation.                                                           *)

\* A token that was minted and not written yet.
Pristine(t) ==
    /\ sess[t].exp = 0 /\ cut[t] = 0
    /\ \A u \in Validators : val[u].pc # "idle" => val[u].tok # t

\* Each rotation has a token of its own to write.
Fresh ==
    /\ \A t \in Tokens : t > minted => Pristine(t)
    /\ \A u \in Validators : val[u].pc = "rotNew" =>
         /\ Pristine(val[u].new)
         /\ \A w \in Validators : val[w].pc = "rotNew" /\ val[w].new = val[u].new => w = u

\* The window of a rotated session ends with its grace period, and the session is too old
\* to be extended by a request that reads it from then on.
Rotation ==
    /\ \A t \in Tokens : cut[t] # 0 => /\ sess[t].idle <= cut[t]
                                       /\ sess[t].issued + Rotate <= now
    /\ \A v \in Validators :
         /\ v \notin late /\ val[v].pc = "epoch" /\ cut[val[v].tok] # 0 =>
              val[v].s.issued + Rotate <= now
         /\ v \notin late /\ val[v].pc \in {"extLock", "extPut"} => cut[val[v].tok] = 0
         /\ val[v].pc \in {"rotLock", "rotRead", "rotNew", "rotMap", "rotOld"} =>
              val[v].s.issued + Rotate <= now

RetireInv == IndexInv /\ Fresh /\ Rotation

\* What a step of a request does to the places of the requests, as far as tokens go.
LEMMA ValidatePlaces ==
    ASSUME Typed, NEW v \in Validators, Validate(v), UNCHANGED inst
    PROVE  /\ \A u \in Validators \ {v} : val'[u] = val[u]
           /\ ~ValidateGet(v) /\ val'[v].pc # "idle" =>
                val[v].pc # "idle" /\ val'[v].tok = val[v].tok /\ val'[v].s = val[v].s
           /\ ~RotateLock(v) /\ val'[v].pc = "rotNew" => FALSE
<1>t. val \in [Validators -> Requests]
  BY DEF Typed, TypeOK, Requests, ValPc
<1>1. CASE ValidateGet(v)
  <2>1. PICK t \in 1..minted :
            val' = [val EXCEPT ![v] = [Idling EXCEPT !.pc = "epoch", !.tok = t,
                                            !.s = [sess[t] EXCEPT !.exp = 0],
                                            !.began = epoch]]
    BY <1>1 DEF ValidateGet
  <2>. DEFINE new == [Idling EXCEPT !.pc = "epoch", !.tok = t,
                                    !.s = [sess[t] EXCEPT !.exp = 0], !.began = epoch]
  <2>2. new.pc = "epoch" /\ val' = [val EXCEPT ![v] = new]
    BY <2>1 DEF Idling
  <2>. HIDE DEF new
  <2>. QED
    BY <1>1, <2>2, <1>t
<1>2. CASE val' = [val EXCEPT ![v] = Idling]
  BY <1>2, <1>1, <1>t DEF Idling
<1>3. CASE val[v].pc # "idle" /\ \E p \in ValPc \ {"rotNew"} :
              val' = [val EXCEPT ![v].pc = p] \/ val' = [val EXCEPT ![v].pc = p, ![v].at = now]
  BY <1>3, <1>1, <1>t DEF Requests
<1>4. CASE /\ val[v].pc # "idle" /\ RotateLock(v)
           /\ val' = [val EXCEPT ![v].pc = "rotNew", ![v].new = minted + 1]
  BY <1>4, <1>1, <1>t DEF Requests
<1>. QED
  <2>1. /\ "rotMap" \in ValPc \ {"rotNew"} /\ "rotOld" \in ValPc \ {"rotNew"}
        /\ "extPut" \in ValPc \ {"rotNew"} /\ "rotRead" \in ValPc \ {"rotNew"}
        /\ "rotLock" \in ValPc \ {"rotNew"} /\ "extLock" \in ValPc \ {"rotNew"}
    BY DEF ValPc
  <2>. QED
    BY <1>1, <1>2, <1>3, <1>4, <2>1 DEF Validate, ValidateEpoch, ExtendLock, ExtendPut,
         RotateLock, RotatedTo, RotateNew, RotateMap, RotateOld, ValidateDies, Accept, Refuse

\* A request writes only the token it holds or the fresh one of its rotation.
LEMMA ValidateFresh ==
    ASSUME IndexInv, Fresh, NEW v \in Validators, Validate(v), UNCHANGED inst
    PROVE  Fresh'
<1>. USE DEF history, keyVars
<1>t. /\ sess \in [Tokens -> Sessions] /\ cut \in [Tokens -> Nat] /\ now \in Nat
      /\ val \in [Validators -> Requests] /\ Validators' = Validators
      /\ minted \in Tokens /\ Typed
      /\ \A u \in Validators : val[u].tok \in 0..minted /\ val[u].new \in 0..minted
  BY DEF IndexInv, AnswerInv, Typed, TypeOK, Requests, ValPc, Validators
<1>n. minted \in Nat /\ 1..minted \subseteq Tokens /\ Tokens \subseteq Nat
  BY <1>t, PolicyFacts DEF Tokens
<1>h. /\ \A u \in Validators : val[u].pc # "idle" => val[u].tok \in Tokens
      /\ \A u \in Validators : val[u].pc \in {"rotNew", "rotMap", "rotOld"} =>
           val[u].new \in Tokens
  BY <1>t DEF Typed, Holds
<1>p. /\ \A u \in Validators \ {v} : val'[u] = val[u]
      /\ ~ValidateGet(v) /\ val'[v].pc # "idle" =>
           val[v].pc # "idle" /\ val'[v].tok = val[v].tok /\ val'[v].s = val[v].s
      /\ ~RotateLock(v) /\ val'[v].pc = "rotNew" => FALSE
  BY <1>t, ValidatePlaces
<1>1. CASE ValidateGet(v)
  <2>1. PICK g \in 1..minted : sess[g].exp > 0 /\ val'[v].tok = g
    BY <1>1, <1>t DEF ValidateGet, Live, Idling
  <2>2. UNCHANGED <<sess, cut, minted>> /\ val'[v].pc # "rotNew"
    BY <1>1, <1>p DEF ValidateGet, RotateLock
  <2>3. \A t \in Tokens : Pristine(t) => Pristine(t)'
    BY <2>1, <2>2, <1>p, <1>t, <1>n DEF Pristine
  <2>. QED
    BY <2>2, <2>3, <1>p, <1>h, <1>t DEF Fresh
<1>2. ASSUME ~ValidateGet(v), NEW t \in Tokens, Pristine(t),
             val[v].pc = "rotNew" => val[v].new # t
      PROVE  Pristine(t)'
  <2>1. \A u \in Validators : val'[u].pc # "idle" => val'[u].tok # t
    BY <1>2, <1>p, <1>t DEF Pristine
  <2>2. sess'[t].exp = 0 /\ cut'[t] = 0
    <3>1. val[v].pc # "idle" => val[v].tok # t
      BY <1>2 DEF Pristine
    <3>2. CASE ExtendPut(v) \/ RotateNew(v) \/ RotateOld(v)
      BY <3>1, <3>2, <1>2, <1>t, <1>h DEF ExtendPut, RotateNew, RotateOld, Put, CutShort, Pristine
    <3>3. CASE ValidateEpoch(v)
      BY <3>1, <3>3, <1>2, <1>t, <1>h DEF ValidateEpoch, Delete, Pristine
    <3>. QED
      BY <1>2, <3>2, <3>3 DEF Validate, ExtendLock, RotateLock, RotatedTo, RotateMap,
                             ValidateDies, Pristine
  <2>. QED
    BY <2>1, <2>2, <1>t DEF Pristine
<1>3. CASE RotateLock(v)
  <2>1. CASE minted' = minted /\ val' = [val EXCEPT ![v].pc = "rotRead"]
    <3>1. val[v].pc = "rotLock" /\ val'[v].pc = "rotRead"
      BY <1>3, <2>1, <1>t DEF RotateLock, Requests
    <3>2. \A t \in Tokens : Pristine(t) => Pristine(t)'
      BY <3>1, <1>2, <1>3 DEF ValidateGet, RotateLock
    <3>. QED
      BY <2>1, <3>1, <3>2, <1>p, <1>h, <1>t DEF Fresh
  <2>2. CASE /\ minted < MaxTokens /\ minted' = minted + 1
             /\ val' = [val EXCEPT ![v].pc = "rotNew", ![v].new = minted + 1]
    <3>1. val[v].pc = "rotLock" /\ val'[v].pc = "rotNew" /\ val'[v].new = minted + 1
      BY <1>3, <2>2, <1>t DEF RotateLock, Requests
    <3>2. \A t \in Tokens : Pristine(t) => Pristine(t)'
      BY <3>1, <1>2, <1>3 DEF ValidateGet, RotateLock
    <3>3. minted + 1 \in Tokens
      BY <2>2, <1>n, PolicyFacts DEF Tokens
    <3>. QED
      BY <2>2, <3>1, <3>2, <3>3, <1>p, <1>h, <1>t, <1>n DEF Fresh
  <2>. QED
    BY <1>3, <2>1, <2>2 DEF RotateLock
<1>4. CASE ~ValidateGet(v) /\ ~RotateLock(v)
  <2>1. UNCHANGED minted
    BY <1>4 DEF Validate, ValidateEpoch, ExtendLock, ExtendPut, RotatedTo, RotateNew, RotateMap,
                RotateOld, ValidateDies
  <2>2. \A t \in Tokens : t > minted => Pristine(t)'
    BY <1>2, <1>4, <1>t, <1>n DEF Fresh
  <2>3. ASSUME NEW u \in Validators, val'[u].pc = "rotNew"
        PROVE  /\ Pristine(val[u].new)'
               /\ \A w \in Validators : val'[w].pc = "rotNew" /\ val'[w].new = val'[u].new => w = u
    <3>1. u # v /\ val'[u] = val[u] /\ val[u].pc = "rotNew"
      BY <2>3, <1>4, <1>p
    <3>2. val[u].new \in Tokens /\ (val[v].pc = "rotNew" => val[v].new # val[u].new)
      BY <3>1, <1>h DEF Fresh
    <3>3. Pristine(val[u].new)
      BY <3>1 DEF Fresh
    <3>4. \A t \in Tokens : t = val[u].new => Pristine(t)'
      BY <1>2, <1>4, <3>2, <3>3
    <3>5. Pristine(val[u].new)'
      BY <3>1, <3>2, <3>4 DEF Pristine
    <3>6. ASSUME NEW w \in Validators, val'[w].pc = "rotNew", val'[w].new = val'[u].new
          PROVE  w = u
      BY <3>1, <3>6, <1>4, <1>p DEF Fresh
    <3>. QED
      BY <3>5, <3>6
  <2>. QED
    BY <2>1, <2>2, <2>3, <1>t DEF Fresh
<1>. QED
  BY <1>1, <1>3, <1>4

\* Under a rotation that cuts a token short, whoever has it in hand is late; whoever reads
\* it afterwards rotates and does not extend.
LEMMA ValidateRotation ==
    ASSUME RetireInv, NEW v \in Validators, Validate(v), UNCHANGED inst
    PROVE  Rotation'
<1>. USE DEF history, keyVars
<1>t. /\ sess \in [Tokens -> Sessions] /\ cut \in [Tokens -> Nat] /\ now \in Nat
      /\ val \in [Validators -> Requests] /\ Validators' = Validators
      /\ minted \in Tokens /\ Typed
      /\ \A t \in Tokens : sess[t].idle \in Nat /\ sess[t].issued \in Nat
      /\ \A u \in Validators : val[u].s \in Sessions /\ val[u].s.issued \in Nat
  BY DEF RetireInv, IndexInv, AnswerInv, Typed, TypeOK, Requests, ValPc, Validators, Sessions
<1>n. minted \in Nat /\ 1..minted \subseteq Tokens /\ Rotate \in Nat /\ Grace \in Nat
  BY <1>t, PolicyFacts DEF Tokens
<1>h. /\ \A u \in Validators : val[u].pc # "idle" => val[u].tok \in Tokens
      /\ \A u \in Validators : val[u].pc \in {"rotNew", "rotMap", "rotOld"} =>
           val[u].new \in Tokens
      /\ \A u \in Validators : val[u].at \in Nat /\ val[u].at <= now
  BY <1>t DEF Typed, Holds, RetireInv, IndexInv, Clocked, Requests
<1>p. /\ \A u \in Validators \ {v} : val'[u] = val[u]
      /\ ~ValidateGet(v) /\ val'[v].pc # "idle" =>
           val[v].pc # "idle" /\ val'[v].tok = val[v].tok /\ val'[v].s = val[v].s
  BY <1>t, ValidatePlaces
<1>i. Rotation /\ Fresh
  BY DEF RetireInv
<1>k. UNCHANGED now
  BY DEF Validate, ValidateGet, ValidateEpoch, ExtendLock, ExtendPut, RotateLock, RotatedTo,
         RotateNew, RotateMap, RotateOld, ValidateDies
<1>1. CASE ValidateGet(v)
  <2>1. PICK t \in 1..minted :
            val' = [val EXCEPT ![v] = [Idling EXCEPT !.pc = "epoch", !.tok = t,
                                            !.s = [sess[t] EXCEPT !.exp = 0],
                                            !.began = epoch]]
    BY <1>1 DEF ValidateGet
  <2>. DEFINE copy == [sess[t] EXCEPT !.exp = 0]
              new == [Idling EXCEPT !.pc = "epoch", !.tok = t, !.s = copy, !.began = epoch]
  <2>2. t \in Tokens /\ copy.issued = sess[t].issued
    BY <1>t, <1>n DEF Sessions
  <2>. HIDE DEF copy
  <2>3. new.pc = "epoch" /\ new.tok = t /\ new.s = copy
    BY DEF Idling
  <2>4. val' = [val EXCEPT ![v] = new]
    BY <2>1 DEF copy
  <2>. HIDE DEF new
  <2>5. val'[v].pc = "epoch" /\ val'[v].tok = t /\ val'[v].s.issued = sess[t].issued
    BY <2>2, <2>3, <2>4, <1>t
  <2>6. UNCHANGED <<sess, cut>> /\ late' = late \ {v}
    BY <1>1 DEF ValidateGet
  <2>. QED
    BY <2>2, <2>5, <2>6, <1>p, <1>t, <1>i, <1>k DEF Rotation
<1>2. CASE ValidateEpoch(v)
  <2>1. UNCHANGED <<cut, late>> /\ \A t \in Tokens : sess'[t] = sess[t] \/ sess'[t] = NoSess
    BY <1>2, <1>t, <1>h DEF ValidateEpoch, Delete
  <2>2. \A t \in Tokens : cut'[t] # 0 => sess'[t].idle <= cut'[t] /\ sess'[t].issued + Rotate <= now'
    <3>1. ASSUME NEW t \in Tokens, cut[t] # 0, sess'[t] = NoSess PROVE FALSE \/ Rotate <= now
      BY <3>1, <1>t, <1>n, <1>i DEF Rotation
    <3>. QED
      BY <2>1, <3>1, <1>t, <1>n, <1>i, <1>k DEF Rotation, NoSess
  <2>3. \/ val'[v].pc = "idle"
        \/ val'[v].pc = "rotLock" /\ now - val[v].s.issued >= Rotate
        \/ val'[v].pc = "extLock" /\ now - val[v].s.issued < Rotate
    BY <1>2, <1>t DEF ValidateEpoch, Accept, Refuse, Idling, Requests
  <2>4. val[v].pc = "epoch" /\ ~ValidateGet(v)
    BY <1>2 DEF ValidateEpoch, ValidateGet
  <2>5. /\ v \notin late' /\ val'[v].pc \in {"extLock", "extPut"} => cut'[val'[v].tok] = 0
        /\ val'[v].pc \in {"rotLock", "rotRead", "rotNew", "rotMap", "rotOld"} =>
             val'[v].s.issued + Rotate <= now'
        /\ val'[v].pc # "epoch"
    BY <2>1, <2>3, <2>4, <1>p, <1>t, <1>n, <1>i, <1>k DEF Rotation
  <2>. QED
    BY <2>1, <2>2, <2>5, <1>p, <1>t, <1>i, <1>k DEF Rotation
<1>3. ASSUME ~ValidateGet(v), ~ValidateEpoch(v), ~RotateOld(v)
      PROVE  Rotation'
  <2>1. UNCHANGED late
    BY <1>3 DEF Validate, ExtendLock, ExtendPut, RotateLock, RotatedTo, RotateNew, RotateMap,
                ValidateDies
  <2>2. \/ val'[v].pc = "idle"
        \/ val'[v].pc = "extPut" /\ val[v].pc = "extLock"
        \/ /\ val'[v].pc \in {"rotRead", "rotNew", "rotMap", "rotOld"}
           /\ val[v].pc \in {"rotLock", "rotNew", "rotMap"}
    <3>1. CASE val' = [val EXCEPT ![v] = Idling]
      BY <3>1, <1>t DEF Idling
    <3>2. CASE ExtendLock(v) /\ val' = [val EXCEPT ![v].pc = "extPut"]
      BY <3>2, <1>t DEF ExtendLock, Requests
    <3>3. CASE RotateLock(v)
      BY <3>3, <1>t DEF RotateLock, Requests
    <3>4. CASE RotateNew(v) \/ RotateMap(v)
      BY <3>4, <1>t DEF RotateNew, RotateMap, Requests
    <3>. QED
      BY <1>3, <3>1, <3>2, <3>3, <3>4 DEF Validate, ExtendLock, ExtendPut, RotatedTo, ValidateDies,
                                          Accept, Refuse
  <2>3. /\ \A t \in Tokens : cut'[t] = cut[t] \/ cut'[t] = 0
        /\ \A t \in Tokens : cut'[t] # 0 => sess'[t] = sess[t]
    <3>1. CASE ExtendPut(v)
      <4>1. val[v].tok \in Tokens /\ (v \notin late => cut[val[v].tok] = 0)
        BY <3>1, <1>h, <1>i DEF ExtendPut, Rotation
      <4>. QED
        BY <3>1, <4>1, <1>t DEF ExtendPut, Put
    <3>2. CASE RotateNew(v)
      <4>1. val[v].new \in Tokens /\ cut[val[v].new] = 0
        BY <3>2, <1>h, <1>i DEF RotateNew, Fresh, Pristine
      <4>. QED
        BY <3>2, <4>1, <1>t DEF RotateNew, Put
    <3>. QED
      BY <3>1, <3>2, <1>3 DEF Validate, ExtendLock, RotateLock, RotatedTo, RotateMap, ValidateDies
  <2>4. \A t \in Tokens : cut'[t] # 0 => sess'[t].idle <= cut'[t] /\ sess'[t].issued + Rotate <= now'
    BY <2>3, <1>t, <1>i, <1>k DEF Rotation
  <2>5. \A u \in Validators : val'[u].pc # "idle" => val'[u].tok \in Tokens
    BY <1>3, <1>p, <1>h
  <2>6. /\ v \notin late' /\ val'[v].pc \in {"extLock", "extPut"} => cut'[val'[v].tok] = 0
        /\ val'[v].pc \in {"rotLock", "rotRead", "rotNew", "rotMap", "rotOld"} =>
             val'[v].s.issued + Rotate <= now'
        /\ val'[v].pc # "epoch"
    BY <2>1, <2>2, <2>3, <2>5, <1>3, <1>p, <1>t, <1>i, <1>k DEF Rotation
  <2>. QED
    BY <2>1, <2>3, <2>4, <2>5, <2>6, <1>p, <1>t, <1>i, <1>k DEF Rotation
<1>4. CASE RotateOld(v)
  <2>. DEFINE s == [val[v].s EXCEPT !.idle = val[v].at + Grace]
              w == [s EXCEPT !.exp = now + Grace]
              d == val[v].tok
  <2>1. /\ sess' = [sess EXCEPT ![d] = w] /\ cut' = [cut EXCEPT ![d] = now + Grace]
        /\ late' = late \cup {u \in Validators \ {v} : val[u].pc # "idle" /\ val[u].tok = d}
        /\ val'[v].pc = "idle" /\ val[v].pc = "rotOld" /\ d \in Tokens
    BY <1>4, <1>t, <1>h DEF RotateOld, Put, CutShort, Accept, Idling
  <2>2. s \in Sessions /\ s.idle = val[v].at + Grace /\ s.issued = val[v].s.issued
    BY <1>t, <1>h, <1>n DEF Sessions
  <2>. HIDE DEF s
  <2>3. w.idle = val[v].at + Grace /\ w.issued = val[v].s.issued
    BY <2>2 DEF Sessions
  <2>. HIDE DEF w
  <2>4. val[v].s.issued + Rotate <= now
    BY <2>1, <1>i DEF Rotation
  <2>5. \A t \in Tokens : cut'[t] # 0 => sess'[t].idle <= cut'[t] /\ sess'[t].issued + Rotate <= now'
    BY <2>1, <2>3, <2>4, <1>t, <1>h, <1>n, <1>i, <1>k DEF Rotation
  <2>. HIDE DEF d
  <2>6. ASSUME NEW u \in Validators
        PROVE  /\ u \notin late' /\ val'[u].pc = "epoch" /\ cut'[val'[u].tok] # 0 =>
                    val'[u].s.issued + Rotate <= now'
               /\ u \notin late' /\ val'[u].pc \in {"extLock", "extPut"} => cut'[val'[u].tok] = 0
               /\ val'[u].pc \in {"rotLock", "rotRead", "rotNew", "rotMap", "rotOld"} =>
                    val'[u].s.issued + Rotate <= now'
    <3>1. CASE u = v
      BY <3>1, <2>1
    <3>2. CASE u # v
      <4>1. val'[u] = val[u] /\ (val[u].pc # "idle" => val[u].tok \in Tokens)
        BY <3>2, <1>p, <1>h
      <4>2. val[u].pc # "idle" /\ u \notin late' => u \notin late /\ val[u].tok # d
        BY <3>2, <2>1
      <4>3. \A t \in Tokens : t # d => cut'[t] = cut[t]
        BY <2>1, <1>t
      <4>. QED
        BY <4>1, <4>2, <4>3, <1>i, <1>k DEF Rotation
    <3>. QED
      BY <3>1, <3>2
  <2>. QED
    BY <2>5, <2>6, <1>t DEF Rotation
<1>. QED
  BY <1>1, <1>2, <1>3, <1>4

\* Revocations, bumps and time only make sessions disappear.
LEMMA OthersRetire ==
    ASSUME RetireInv, UNCHANGED inst, (\E r \in Revokers : Revoke(r)) \/ Bump \/ Tick
    PROVE  Fresh' /\ Rotation'
<1>. USE DEF history, keyVars
<1>t. /\ sess \in [Tokens -> Sessions] /\ cut \in [Tokens -> Nat] /\ now \in Nat
      /\ val \in [Validators -> Requests] /\ Validators' = Validators
      /\ rev \in [Revokers -> Sweeps] /\ Typed
      /\ \A t \in Tokens : sess[t].idle \in Nat /\ sess[t].issued \in Nat
      /\ \A u \in Validators : val[u].s.issued \in Nat
      /\ Rotate \in Nat
  BY PolicyFacts DEF RetireInv, IndexInv, AnswerInv, Typed, TypeOK, Requests, ValPc, Validators,
                     Sessions, Sweeps
<1>i. Rotation /\ Fresh
  BY DEF RetireInv
<1>1. UNCHANGED <<val, cut, late, minted>> /\ now' \in Nat /\ now <= now'
  <2>1. CASE \E r \in Revokers : Revoke(r)
    <3>1. UNCHANGED <<val, cut, late, minted, now>>
      BY <2>1 DEF Revoke, RevokeBegin, RevokeGone, RevokeList, RevokeSrem, RevokeToken, RevokeDone,
                  RevokeFails
    <3>. QED
      BY <3>1, <1>t
  <2>2. CASE Bump \/ Tick
    BY <2>2, <1>t DEF Bump, Tick
  <2>. QED
    BY <2>1, <2>2
<1>2. \A t \in Tokens : sess'[t] = sess[t] \/ sess'[t] = NoSess
  <2>1. CASE Tick
    BY <1>t, <2>1 DEF Tick
  <2>2. CASE \E r \in Revokers : RevokeToken(r)
    BY <1>t, <2>2 DEF RevokeToken, Delete, Sweeps
  <2>3. CASE UNCHANGED sess
    BY <2>3
  <2>. QED
    BY <2>1, <2>2, <2>3 DEF Revoke, RevokeBegin, RevokeGone, RevokeList, RevokeSrem, RevokeDone,
                            RevokeFails, Bump
<1>3. NoSess.idle = 0 /\ NoSess.issued = 0 /\ NoSess.exp = 0
  BY DEF NoSess
<1>4. Fresh'
  <2>1. \A t : t \in Tokens /\ Pristine(t) => Pristine(t)'
    BY <1>t, <1>1, <1>2, <1>3 DEF Pristine
  <2>2. \A u \in Validators : val[u].pc = "rotNew" => val[u].new \in Tokens
    BY <1>t DEF Typed, Holds
  <2>. QED
    BY <1>t, <1>i, <1>1, <2>1, <2>2 DEF Fresh
<1>5. Rotation'
  <2>1. ASSUME NEW t \in Tokens, cut[t] # 0
        PROVE  sess'[t].idle <= cut[t] /\ sess'[t].issued + Rotate <= now'
    BY <2>1, <1>t, <1>i, <1>1, <1>2, <1>3 DEF Rotation
  <2>2. \A u \in Validators : val[u].s.issued + Rotate <= now =>
                                val[u].s.issued + Rotate <= now'
    BY <1>t, <1>1
  <2>. QED
    BY <1>t, <1>i, <1>1, <2>1, <2>2 DEF Rotation
<1>. QED
  BY <1>4, <1>5

\* The reasons why a retired token dies stay true.
LEMMA RetireStep == RetireInv /\ [Next]_vars => RetireInv'
<1>. SUFFICES ASSUME RetireInv, [Next]_vars PROVE RetireInv'
  OBVIOUS
<1>1. IndexInv'
  BY IndexStep DEF RetireInv
<1>2. CASE UNCHANGED vars
  BY <1>1, <1>2 DEF vars, history, RetireInv, Fresh, Pristine, Rotation, Validators
<1>. QED
  BY <1>1, <1>2, ValidateFresh, ValidateRotation, OthersRetire DEF Next, RetireInv

\* At the login no token was rotated.
LEMMA RetireInit == Init => RetireInv
<1>. SUFFICES ASSUME Init PROVE RetireInv
  OBVIOUS
<1>1. Fresh /\ Rotation
  BY PolicyFacts DEF Init, Fresh, Pristine, Rotation, Idling, NoSess, Tokens
<1>. QED
  BY <1>1, IndexInit DEF RetireInv

\* When the invariant holds, retired tokens are dead.
LEMMA RetireSafe == RetireInv => RetiredTokenDies
<1>. SUFFICES ASSUME RetireInv PROVE RetiredTokenDies
  OBVIOUS
<1>1. \A r \in Revokers : rev[r].pc = "done" /\ ~rev[r].blind =>
         \A t \in Tokens : Usable(t) => t \in undone
  BY DEF RetireInv, IndexInv, Swept
<1>2. ASSUME NEW t \in Tokens, cut[t] # 0, now >= cut[t]
      PROVE  ~Usable(t)
  <2>1. Typed /\ Origin
    BY DEF RetireInv, IndexInv, AnswerInv
  <2>2. now \in Nat /\ sess[t].idle \in Nat /\ cut[t] \in Nat
    BY <2>1 DEF Typed, TypeOK, Sessions
  <2>3. sess[t].idle <= now
    BY <1>2, <2>2 DEF RetireInv, Rotation
  <2>. QED
    BY <2>1, <2>2, <2>3, UsableMeans
<1>. QED
  BY <1>1, <1>2 DEF RetiredTokenDies

\* SessionService.Revoke and tryRotate: for any policy and any number of overlapping
\* requests and logouts, a logout that is done leaves no accepted token of the session but
\* those that requests under way wrote back, unless the index had lost one before; and a
\* rotated token ends with its grace period, unless a request that had it in hand before
\* extends it later.
THEOREM RetiredDies == Spec => []RetiredTokenDies
BY RetireInit, RetireStep, RetireSafe, PTL DEF Spec
=============================================================================
