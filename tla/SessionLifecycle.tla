-------------------------- MODULE SessionLifecycle --------------------------
(***************************************************************************)
(* One session in Redis: SessionService.Validate with the rotation and the *)
(* extension it carries out on the way, Logout / RevokeSession, and the    *)
(* user index the sweeps rely on (internal/service/session.go,             *)
(* internal/store/session.go).                                             *)
(*                                                                         *)
(* Every Redis command, or MULTI, is one action; requests interleave       *)
(* between them and time may pass.  A request may die between two          *)
(* commands.  Locks are SETNX keys that only expire.  Token 1 is issued at *)
(* time 0 by a login; rotation mints 2, 3, ...  Durations are in abstract  *)
(* ticks.                                                                  *)
(***************************************************************************)
EXTENDS Integers, FiniteSets

CONSTANTS
    Instances,         \* who calls, under which policy; one is chosen at the start
    Idle,              \* SessionPolicy.IdleTimeoutFor(session.Mobile)
    Rotate, Extend,    \* rotate_interval, extend_interval
    CacheTTL,          \* token_cache_ttl
    MinGrace,          \* MinRotateGrace
    ExtLockTTL,        \* extendLockTTL
    IndexFloor,        \* the seven days of SessionStore.Put
    MaxTokens          \* bound: tokens minted

\* SessionPolicy.Validate and the constants of the code.
ASSUME PolicyAssumption ==
    /\ {Idle, Rotate, Extend, CacheTTL, MinGrace, ExtLockTTL, IndexFloor} \subseteq Nat \ {0}
    /\ MaxTokens \in Nat \ {0}
    /\ \A i \in Instances :
         /\ IsFiniteSet(i.validators)  \* requests that call Validate, each again and again
         /\ IsFiniteSet(i.revokers)    \* calls of Logout or RevokeSession
         /\ i.life \in Nat /\ Rotate <= i.life \* max_lifetime
         /\ i.epochs \in Nat           \* bound: bumps of the epoch
         /\ i.time \in Nat             \* bound: the clock

VARIABLES
    inst,              \* the instance
    now,               \* the clock
    epoch,             \* the user's revocation epoch
    sess,              \* fp:sess:{token}; exp is the key's own expiry
    index, indexExp,   \* fp:usess:{user} and its expiry
    rotLock, extLock,  \* expiry of fp:lock:rot:{id} and of fp:lock:ext:{token}
    rotTo,             \* fp:rot:{token}: successor and expiry
    minted,            \* tokens 1..minted have been generated
    val,               \* the request each validator is working on
    ans,               \* what its last accepted request was told
    rev,               \* where each revocation stands
    \* History, which no step reads:
    cut,               \* when the grace period of a rotated token ends
    late,              \* requests whose token another one rotated under their hands
    overtaken,         \* requests that a revocation overlapped
    undone,            \* tokens last written by such a request
    lastPut,           \* when the index was last renewed, and whether by a grace write
    lost               \* tokens that an index renewed by a grace write left out since

history == <<cut, late, overtaken, undone, lastPut, lost>>

vars == <<inst, now, epoch, sess, index, indexExp, rotLock, extLock, rotTo, minted,
          val, ans, rev, history>>

-----------------------------------------------------------------------------
Validators == inst.validators
Revokers   == inst.revokers
MaxLife    == inst.life

Tokens == 1..MaxTokens
NoToken == 0

\* A key with exp = 0 does not exist: deleted, expired or never written.
NoSess == [first |-> 0, issued |-> 0, ext |-> 0, idle |-> 0, epoch |-> 0, exp |-> 0]
Sessions == [first : Nat, issued : Nat, ext : Nat, idle : Nat, epoch : Nat, exp : Nat]
Live(t) == sess[t].exp > 0

Smaller(a, b) == IF a <= b THEN a ELSE b
Larger(a, b)  == IF a <= b THEN b ELSE a

\* GraceDuration.
Grace == Larger(MinGrace, CacheTTL)

\* Session.MaxExpiresAt and Session.RemainingAt.
MaxExpiresAt(s) == s.first + MaxLife

RemainingAt(s, t) == Larger(0, Smaller(s.idle, MaxExpiresAt(s)) - t)

\* cacheTTL: not longer than configured, not longer than the token lives.
cacheTTL(remaining) == Smaller(remaining, CacheTTL)

NoMapping == [new |-> NoToken, exp |-> 0]
Idling == [pc |-> "idle", tok |-> NoToken, s |-> NoSess, at |-> 0, new |-> NoToken,
           began |-> 0]
NoAnswer == [tok |-> NoToken, at |-> 0, ttl |-> 0, new |-> NoToken, began |-> 0]
RevIdle == [pc |-> "idle", todo |-> {}, dangling |-> {}, blind |-> FALSE]

Init ==
    LET s == [first |-> 0, issued |-> 0, ext |-> 0, idle |-> Idle, epoch |-> 0,
              exp |-> Idle]
    IN  /\ inst \in Instances
        /\ now = 0 /\ epoch = 0 /\ minted = 1
        /\ sess = [t \in Tokens |-> IF t = 1 THEN s ELSE NoSess]
        /\ index = {1}
        /\ indexExp = Larger(Idle, IndexFloor)
        /\ rotLock = 0 /\ extLock = [t \in Tokens |-> 0]
        /\ rotTo = [t \in Tokens |-> NoMapping]
        /\ val = [v \in Validators |-> Idling]
        /\ ans = [v \in Validators |-> NoAnswer]
        /\ rev = [r \in Revokers |-> RevIdle]
        /\ cut = [t \in Tokens |-> 0] /\ late = {} /\ overtaken = {} /\ undone = {}
        /\ lastPut = [at |-> 0, grace |-> FALSE] /\ lost = {}

-----------------------------------------------------------------------------
(* SessionStore                                                            *)

\* Variant: the index expires with whatever session was written last.
PutShortIndex(t, s, ttl) ==
    /\ sess' = [sess EXCEPT ![t] = [s EXCEPT !.exp = now + ttl]]
    /\ index' = index \cup {t}
    /\ indexExp' = now + ttl

\* Put: SET key EX ttl, SADD index, EXPIRE index max(ttl, seven days), in a MULTI.
Put(t, s, ttl) ==
    /\ sess' = [sess EXCEPT ![t] = [s EXCEPT !.exp = now + ttl]]
    /\ index' = index \cup {t}
    /\ indexExp' = now + Larger(ttl, IndexFloor)

\* Delete: DEL key, SREM from the index of the user the session names.
Delete(t) ==
    /\ sess' = [sess EXCEPT ![t] = NoSess]
    /\ index' = IF Live(t) THEN index \ {t} ELSE index
    /\ UNCHANGED indexExp

keyVars == <<sess, index, indexExp>>
lockVars == <<rotLock, extLock>>

\* History of a Put by request v: t is in the index, and if a revocation overlapped v
\* it is undone for t.
Noted(v, t, grace) ==
    /\ undone' = IF v \in overtaken THEN undone \cup {t} ELSE undone \ {t}
    /\ lastPut' = [at |-> now, grace |-> grace]
    /\ lost' = lost \ {t}

\* A validator accepts its request: the session s it decided on, the successor
\* token it announces (Validate's last two statements).
Accept(v, s, new) ==
    /\ ans' = [ans EXCEPT ![v] = [tok |-> val[v].tok, at |-> now,
                                  ttl |-> cacheTTL(RemainingAt(s, now)), new |-> new,
                                  began |-> val[v].began]]
    /\ val' = [val EXCEPT ![v] = Idling]

Refuse(v) == val' = [val EXCEPT ![v] = Idling] /\ ans' = [ans EXCEPT ![v] = NoAnswer]

-----------------------------------------------------------------------------
(* SessionService.Validate                                                 *)

\* A revocation is on its way through the tokens.
RevocationUnderWay == \E r \in Revokers : rev[r].pc \in {"list", "srem", "sweep"}

\* store.Get.
ValidateGet(v) ==
    /\ val[v].pc = "idle"
    /\ \E t \in 1..minted :
          /\ Live(t)
          /\ val' = [val EXCEPT ![v] = [Idling EXCEPT !.pc = "epoch", !.tok = t,
                                          !.s = [sess[t] EXCEPT !.exp = 0],
                                          !.began = epoch]]
          /\ overtaken' = IF RevocationUnderWay \/ t \in undone THEN overtaken \cup {v}
                                                      ELSE overtaken \ {v}
    /\ ans' = [ans EXCEPT ![v] = NoAnswer]
    /\ late' = late \ {v}
    /\ UNCHANGED <<now, epoch, keyVars, lockVars, rotTo, minted, rev, cut, undone, lastPut,
                   lost>>

\* epochs.Current; a stale epoch deletes the session and refuses.  Then the
\* clock, the expiry check and the choice between rotating and extending.
ValidateEpoch(v) ==
    /\ val[v].pc = "epoch"
    /\ LET s == val[v].s IN
       \/ /\ s.epoch # epoch
          /\ Delete(val[v].tok)
          /\ Refuse(v)
       \/ /\ s.epoch = epoch
          /\ RemainingAt(s, now) = 0
          /\ Refuse(v)
          /\ UNCHANGED keyVars
       \/ /\ s.epoch = epoch
          /\ RemainingAt(s, now) > 0
          /\ UNCHANGED keyVars
          /\ \/ /\ now - s.issued >= Rotate
                /\ val' = [val EXCEPT ![v].pc = "rotLock", ![v].at = now]
                /\ UNCHANGED ans
             \/ /\ now - s.issued < Rotate
                /\ now - s.ext >= Extend
                /\ val' = [val EXCEPT ![v].pc = "extLock", ![v].at = now]
                /\ UNCHANGED ans
             \/ /\ now - s.issued < Rotate
                /\ now - s.ext < Extend
                /\ Accept(v, s, NoToken)
    /\ UNCHANGED <<now, epoch, lockVars, rotTo, minted, rev, history>>

\* tryExtend: TryLock("ext:"+token).
ExtendLock(v) ==
    /\ val[v].pc = "extLock"
    /\ LET t == val[v].tok IN
       \/ /\ extLock[t] > 0
          /\ Accept(v, val[v].s, NoToken)
          /\ UNCHANGED extLock
       \/ /\ extLock[t] = 0
          /\ extLock' = [extLock EXCEPT ![t] = now + ExtLockTTL]
          /\ val' = [val EXCEPT ![v].pc = "extPut"]
          /\ UNCHANGED ans
    /\ UNCHANGED <<now, epoch, keyVars, rotLock, rotTo, minted, rev, history>>

\* tryExtend: the session read at the start, with a new idle window.
ExtendPut(v) ==
    /\ val[v].pc = "extPut"
    /\ LET s == [val[v].s EXCEPT !.ext = val[v].at, !.idle = val[v].at + Idle]
       IN  Put(val[v].tok, s, RemainingAt(s, val[v].at)) /\ Accept(v, s, NoToken)
    /\ Noted(v, val[v].tok, FALSE)
    /\ cut' = IF v \in late THEN [cut EXCEPT ![val[v].tok] = 0] ELSE cut
    /\ UNCHANGED <<now, epoch, lockVars, rotTo, minted, rev, late, overtaken>>

\* tryRotate: TryLock("rot:"+session id) for the grace period.
RotateLock(v) ==
    /\ val[v].pc = "rotLock"
    /\ \/ /\ rotLock > 0
          /\ val' = [val EXCEPT ![v].pc = "rotRead"]
          /\ UNCHANGED <<rotLock, minted>>
       \/ /\ rotLock = 0
          /\ minted < MaxTokens
          /\ rotLock' = now + Grace
          /\ minted' = minted + 1
          /\ val' = [val EXCEPT ![v].pc = "rotNew", ![v].new = minted + 1]
    /\ UNCHANGED <<now, epoch, keyVars, extLock, rotTo, ans, rev, history>>

\* tryRotate without the lock: RotatedTo(old), announced once more.
RotatedTo(v) ==
    /\ val[v].pc = "rotRead"
    /\ Accept(v, val[v].s, rotTo[val[v].tok].new)
    /\ UNCHANGED <<now, epoch, keyVars, lockVars, rotTo, minted, rev, history>>

\* Variant: rotation restarts the absolute lifetime.
RotatedFirst(v) == [val[v].s EXCEPT !.issued = val[v].at, !.ext = val[v].at,
                                    !.idle = val[v].at + Idle, !.first = val[v].at]

\* Variant: rotation reads the epoch anew.
RotatedEpoch(v) == [val[v].s EXCEPT !.issued = val[v].at, !.ext = val[v].at,
                                    !.idle = val[v].at + Idle, !.epoch = epoch]

\* The session tryRotate writes under the new token.
Rotated(v) == [val[v].s EXCEPT !.issued = val[v].at, !.ext = val[v].at,
                               !.idle = val[v].at + Idle]

\* tryRotate, first write: the new session.
RotateNew(v) ==
    /\ val[v].pc = "rotNew"
    /\ LET s == Rotated(v) IN Put(val[v].new, s, RemainingAt(s, val[v].at))
    /\ Noted(v, val[v].new, FALSE)
    /\ val' = [val EXCEPT ![v].pc = "rotMap"]
    /\ UNCHANGED <<now, epoch, lockVars, rotTo, minted, ans, rev, cut, late, overtaken>>

\* tryRotate, second write: the mapping old -> new.
RotateMap(v) ==
    /\ val[v].pc = "rotMap"
    /\ rotTo' = [rotTo EXCEPT ![val[v].tok] = [new |-> val[v].new, exp |-> now + Grace]]
    /\ val' = [val EXCEPT ![v].pc = "rotOld"]
    /\ UNCHANGED <<now, epoch, keyVars, lockVars, minted, ans, rev, history>>

\* History of a grace write by v: the other requests under way with its token are late.
CutShort(v, t) ==
    /\ Noted(v, t, TRUE)
    /\ cut' = [cut EXCEPT ![t] = now + Grace]
    /\ late' = late \cup {u \in Validators \ {v} : val[u].pc # "idle" /\ val[u].tok = t}

\* Variant: only the key's TTL is cut, the session keeps its idle window, and a
\* fresh issue time sends the next request into the extension branch.
RotateOldReissued(v) ==
    /\ val[v].pc = "rotOld"
    /\ Put(val[v].tok, [val[v].s EXCEPT !.issued = val[v].at], Grace)
    /\ Accept(v, Rotated(v), val[v].new)
    /\ CutShort(v, val[v].tok)
    /\ UNCHANGED <<now, epoch, lockVars, rotTo, minted, rev, overtaken>>

\* tryRotate, third write: the old session, cut down to the grace period.
RotateOld(v) ==
    /\ val[v].pc = "rotOld"
    /\ Put(val[v].tok, [val[v].s EXCEPT !.idle = val[v].at + Grace], Grace)
    /\ Accept(v, Rotated(v), val[v].new)
    /\ CutShort(v, val[v].tok)
    /\ UNCHANGED <<now, epoch, lockVars, rotTo, minted, rev, overtaken>>

\* The request dies or a command fails; nothing is undone.
ValidateDies(v) ==
    /\ val[v].pc # "idle"
    /\ Refuse(v)
    /\ UNCHANGED <<now, epoch, keyVars, lockVars, rotTo, minted, rev, history>>

-----------------------------------------------------------------------------
(* SessionService.Revoke (Logout) and RevokeSession, via revokeUserTokens  *)

\* A session Validate would still accept.
Usable(t) == RemainingAt(sess[t], now) > 0

\* Revoke looks the token up first; RevokeSession is handed the session id.
RevokeBegin(r) ==
    /\ rev[r].pc = "idle"
    /\ \E t \in 1..minted : Live(t)
    /\ rev' = [rev EXCEPT ![r].pc = "list"]
    /\ overtaken' = overtaken \cup {v \in Validators : val[v].pc # "idle"}
    /\ UNCHANGED <<now, epoch, keyVars, lockVars, rotTo, minted, val, ans, cut, late, undone,
                   lastPut, lost>>

\* A token that is gone means the logout succeeded.
RevokeGone(r) ==
    /\ rev[r].pc = "idle"
    /\ \E t \in 1..minted : ~Live(t)
    /\ rev' = [rev EXCEPT ![r].pc = "gone"]
    /\ UNCHANGED <<now, epoch, keyVars, lockVars, rotTo, minted, val, ans, history>>

\* ListUserTokens: SMEMBERS and MGET; what has no key any more is dangling.
RevokeList(r) ==
    /\ rev[r].pc = "list"
    /\ rev' = [rev EXCEPT ![r].pc = "srem",
                          ![r].todo = {t \in index : Live(t)},
                          ![r].dangling = {t \in index : ~Live(t)},
                          ![r].blind = \E t \in lost : Usable(t)]
    /\ UNCHANGED <<now, epoch, keyVars, lockVars, rotTo, minted, val, ans, history>>

\* ListUserTokens: SREM of the dangling ones; a failure is only logged.
RevokeSrem(r) ==
    /\ rev[r].pc = "srem"
    /\ index' = index \ rev[r].dangling \/ UNCHANGED index
    /\ rev' = [rev EXCEPT ![r].pc = "sweep", ![r].dangling = {}]
    /\ UNCHANGED <<now, epoch, sess, indexExp, lockVars, rotTo, minted, val, ans, history>>

\* Variant: logout deletes the token it was handed and no other.
RevokeOneToken(r) ==
    /\ rev[r].pc = "sweep"
    /\ \E t \in rev[r].todo : Delete(t) /\ rev' = [rev EXCEPT ![r].todo = {}]
    /\ UNCHANGED <<now, epoch, lockVars, rotTo, minted, val, ans, history>>

\* revokeUserTokens: Get, match on the session id, Delete.
RevokeToken(r) ==
    /\ rev[r].pc = "sweep"
    /\ \E t \in rev[r].todo :
          /\ \/ Live(t) /\ Delete(t)
             \/ ~Live(t) /\ UNCHANGED keyVars
          /\ rev' = [rev EXCEPT ![r].todo = @ \ {t}]
    /\ UNCHANGED <<now, epoch, lockVars, rotTo, minted, val, ans, history>>

\* The caller is told that the session is revoked.
RevokeDone(r) ==
    /\ rev[r].pc = "sweep" /\ rev[r].todo = {}
    /\ rev' = [rev EXCEPT ![r].pc = "done"]
    /\ UNCHANGED <<now, epoch, keyVars, lockVars, rotTo, minted, val, ans, history>>

\* A command fails and the caller is told so.
RevokeFails(r) ==
    /\ rev[r].pc \in {"list", "srem", "sweep"}
    /\ rev' = [rev EXCEPT ![r].pc = "failed"]
    /\ UNCHANGED <<now, epoch, keyVars, lockVars, rotTo, minted, val, ans, history>>

-----------------------------------------------------------------------------
\* EpochStore.Bump by an operation of AccountService.
Bump ==
    /\ epoch < inst.epochs
    /\ epoch' = epoch + 1
    /\ UNCHANGED <<now, keyVars, lockVars, rotTo, minted, val, ans, rev, history>>

\* The seven days have passed since the index was renewed, and what renewed it last was a
\* grace write, or came after t was given a grace longer than the idle timeout.
Uncovered(t, time) == time >= lastPut.at + IndexFloor /\ (lastPut.grace \/ cut[t] # 0)

\* Time passes; Redis drops every key that reaches its expiry.
Tick ==
    /\ now < inst.time
    /\ now' = now + 1
    /\ sess' = [t \in Tokens |-> IF sess[t].exp <= now' THEN NoSess ELSE sess[t]]
    /\ index' = IF indexExp <= now' THEN {} ELSE index
    /\ indexExp' = IF indexExp <= now' THEN 0 ELSE indexExp
    /\ rotLock' = IF rotLock <= now' THEN 0 ELSE rotLock
    /\ extLock' = [t \in Tokens |-> IF extLock[t] <= now' THEN 0 ELSE extLock[t]]
    /\ rotTo' = [t \in Tokens |-> IF rotTo[t].exp <= now' THEN NoMapping ELSE rotTo[t]]
    /\ lost' = lost \cup {t \in Tokens : Live(t) /\ Uncovered(t, now')}
    /\ UNCHANGED <<epoch, minted, val, ans, rev, cut, late, overtaken, undone, lastPut>>

Validate(v) ==
    \/ ValidateGet(v) \/ ValidateEpoch(v) \/ ExtendLock(v) \/ ExtendPut(v)
    \/ RotateLock(v) \/ RotatedTo(v) \/ RotateNew(v) \/ RotateMap(v)
    \/ RotateOld(v) \/ ValidateDies(v)

Revoke(r) ==
    \/ RevokeBegin(r) \/ RevokeGone(r) \/ RevokeList(r) \/ RevokeSrem(r) \/ RevokeToken(r)
    \/ RevokeDone(r) \/ RevokeFails(r)

Next ==
    /\ \/ \E v \in Validators : Validate(v)
       \/ \E r \in Revokers : Revoke(r)
       \/ Bump
       \/ Tick
    /\ UNCHANGED inst

Spec == Init /\ [][Next]_vars

-----------------------------------------------------------------------------
\* Types of the variables.
TypeOK ==
    /\ now \in Nat /\ epoch \in Nat /\ minted \in Tokens
    /\ sess \in [Tokens -> Sessions]
    /\ index \subseteq Tokens /\ indexExp \in Nat
    /\ rotLock \in Nat /\ extLock \in [Tokens -> Nat]
    /\ rotTo \in [Tokens -> [new : 0..minted, exp : Nat]]
    /\ val \in [Validators -> [pc : {"idle", "epoch", "extLock", "extPut", "rotLock",
                                      "rotRead", "rotNew", "rotMap", "rotOld"},
                               tok : 0..minted, s : Sessions, at : Nat,
                               new : 0..minted, began : Nat]]
    /\ ans \in [Validators -> [tok : 0..minted, at : Nat, ttl : Nat, new : 0..minted,
                               began : Nat]]
    /\ rev \in [Revokers -> [pc : {"idle", "list", "srem", "sweep", "gone", "done",
                                    "failed"},
                             todo : SUBSET Tokens, dangling : SUBSET Tokens,
                             blind : BOOLEAN]]
    /\ cut \in [Tokens -> Nat] /\ late \subseteq Validators
    /\ overtaken \subseteq Validators /\ undone \subseteq Tokens
    /\ lastPut \in [at : Nat, grace : BOOLEAN] /\ lost \subseteq Tokens

Accepted(v) == ans[v].tok # NoToken

\* SessionService.Validate / cacheTTL: however often the session was rotated and
\* extended, no answer may be cached past max_lifetime after the one login at 0.  A
\* request that outlives the session while it waits for Redis is still accepted, but
\* with a cache_ttl of 0, which the SDK does not keep.
CachedWithinMaxLifetime ==
    \A v \in Validators : ans[v].ttl > 0 => ans[v].at + ans[v].ttl <= MaxLife

\* Session.Epoch: rotating does not launder a revocation.  A request that begins
\* after the bump is refused, whatever rotations were under way at the bump.
EpochNotLaundered == \A v \in Validators : Accepted(v) => ans[v].began = 0

\* SessionStore.Put: the user index does not expire before a session in it, so a sweep
\* finds every session that Validate accepts, under any policy.  Two exceptions: a
\* session written back by a request that a revocation overlapped, and one that the index
\* lost because nothing renewed it for the seven days after tryRotate's grace write,
\* which lowers the expiry that the write of the new session had just set.
IndexCoversSessions ==
    \A t \in Tokens : Usable(t) => t \in index \cup undone \cup lost

\* SessionService.Revoke and tryRotate: what retires a token ends it.  When a logout with
\* any token of a session is done, no token of it is accepted but those written back by
\* a request the logout overlapped, unless the index had lost one when the logout
\* listed it; and a rotated token is dead when its grace period is over, however many
\* requests rotate and extend, unless one that had it in hand before extends it later.
RetiredTokenDies ==
    /\ \A r \in Revokers : rev[r].pc = "done" /\ ~rev[r].blind =>
         \A t \in Tokens : Usable(t) => t \in undone
    /\ \A t \in Tokens : cut[t] # 0 /\ now >= cut[t] => ~Usable(t)

\* What comments of the repository say and the code does not keep, so that TLC refutes
\* both (README, section 6).  SessionStore.Put: the index does not expire before a session.
IndexOutlivesSessions == \A t \in Tokens : Usable(t) => t \in index \cup undone

\* SessionService.Revoke: a logout ends the whole session, so that no other token of it
\* gives access any more.
LogoutEndsSession == \A r \in Revokers : rev[r].pc = "done" => \A t \in Tokens : ~Usable(t)
=============================================================================
