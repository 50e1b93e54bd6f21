---------------------------- MODULE LoginProofs ----------------------------
(***************************************************************************)
(* Proofs about the ways in: LoginFence, for any number of logins and      *)
(* administrative operations, and SignIn, for any number of flows, phones, *)
(* callbacks and requests, any limits and any faults.                      *)
(***************************************************************************)
EXTENDS LoginFence, SignIn, FiniteSetTheorems, TLAPS

-----------------------------------------------------------------------------
(* The order of the steps of LoginFence is a fence.                        *)
(*                                                                         *)
(* FreezeFence is not inductive: it speaks of the moment a freeze is       *)
(* acknowledged, while the reason it holds is spread over earlier moments. *)
(* IndInv records them: a login that read the epoch before the freeze was  *)
(* stored carries an epoch the freeze's bump has overtaken (EpochFence),   *)
(* and a login that read it afterwards cannot have passed the recheck      *)
(* (DeliveredWhileLoginable, StoredStatus).                                *)

\* Operation a makes the account non-loginable.
Fences(a) == op[a] \in Status /\ ~CanLogin(op[a])

\* The bump of operation a lies behind it.
Bumped(a) == apc[a] \in {"list", "sweep", "done"}

\* The login has an epoch and may still hand out, or has handed out, its token.
HasEpoch(l) == lpc[l] \in {"put", "recheck", "ok"}

\* Nothing recorded is ahead of the store it was read from.
NotAhead ==
    /\ \A l \in Logins : lepoch[l] <= epoch /\ lgen[l] <= gen
    /\ \A a \in Admins : seenGen[a] <= gen /\ seenHash[a] <= hash

\* Epochs read before the status was stored are overtaken by the bump.
EpochFence ==
    \A a \in Admins, l \in Logins :
        Fences(a) /\ Bumped(a) /\ HasEpoch(l) /\ lgen[l] < seenGen[a]
            => lepoch[l] < epoch

\* As long as nobody writes the status again it is the one a stored.
StoredStatus ==
    \A a \in Admins :
        Fences(a) /\ (apc[a] = "bump" \/ Bumped(a)) /\ seenGen[a] = gen
            => ~CanLogin(status)

\* A login that read the epoch under the present status saw it loginable.
DeliveredWhileLoginable ==
    \A l \in Logins : lpc[l] = "ok" /\ lgen[l] = gen => CanLogin(status)

\* The same fence for the password: the hash itself counts the writes.
HashFence ==
    \A a \in Admins, l \in Logins :
        op[a] = "reset" /\ Bumped(a) /\ lpc[l] = "ok" /\ snapHash[l] < seenHash[a]
            => lepoch[l] < epoch

IndInv == /\ FenceTypeOK /\ NotAhead /\ EpochFence /\ StoredStatus
          /\ DeliveredWhileLoginable /\ HashFence

-----------------------------------------------------------------------------
\* Every variable keeps its type (the types LoginFence.TypeOK states).
LEMMA TypeStep == FenceTypeOK /\ [FenceNext]_fenceVars => FenceTypeOK'
<1>. SUFFICES ASSUME FenceTypeOK, [FenceNext]_fenceVars PROVE FenceTypeOK'
  OBVIOUS
<1>. USE DEF FenceTypeOK, Status, LoginPc, AdminPc, Ops
<1>1. CASE \E l \in Logins : Authenticate(l)
  BY <1>1 DEF Authenticate, dbVars, loginVars, adminVars
<1>2. CASE \E l \in Logins : ResolveLogin(l)
  BY <1>2 DEF ResolveLogin, dbVars, loginVars, adminVars
<1>3. CASE \E l \in Logins : ReviveRead(l)
  BY <1>3 DEF ReviveRead, dbVars, loginVars, adminVars
<1>4. CASE \E l \in Logins : ReviveWrite(l)
  BY <1>4 DEF ReviveWrite, dbVars, loginVars, adminVars
<1>5. CASE \E l \in Logins : ReadEpoch(l)
  BY <1>5 DEF ReadEpoch, dbVars, loginVars, adminVars
<1>6. CASE \E l \in Logins : PutSession(l)
  BY <1>6 DEF PutSession, dbVars, loginVars, adminVars
<1>7. CASE \E l \in Logins : RecheckLoginable(l)
  BY <1>7 DEF RecheckLoginable, dbVars, loginVars, adminVars
<1>8. CASE \E l \in Logins : RevokeIssued(l)
  BY <1>8 DEF RevokeIssued, dbVars, loginVars, adminVars
<1>9. CASE \E l \in Logins : LoginError(l)
  BY <1>9 DEF LoginError, dbVars, loginVars, adminVars
<1>10. CASE \E l \in Logins : SessionEnds(l)
  BY <1>10 DEF SessionEnds, dbVars, loginVars, adminVars
<1>11. CASE \E a \in Admins : SetStatusRead(a)
  BY <1>11 DEF SetStatusRead, AfterStatus, dbVars, loginVars, adminVars
<1>12. CASE \E a \in Admins : SetStatusWrite(a)
  BY <1>12 DEF SetStatusWrite, AfterStatus, dbVars, loginVars, adminVars
<1>13. CASE \E a \in Admins : SetPassword(a)
  BY <1>13 DEF SetPassword, AfterStatus, dbVars, loginVars, adminVars
<1>14. CASE \E a \in Admins : RevokeUsersSessions(a)
  BY <1>14 DEF RevokeUsersSessions, AfterStatus, dbVars, loginVars, adminVars
<1>15. CASE \E a \in Admins : Bump(a)
  BY <1>15 DEF Bump, AfterStatus, dbVars, loginVars, adminVars
<1>16. CASE \E a \in Admins : ListUserTokens(a)
  BY <1>16 DEF ListUserTokens, AfterStatus, dbVars, loginVars, adminVars
<1>17. CASE \E a \in Admins : RevokeToken(a)
  BY <1>17 DEF RevokeToken, AfterStatus, dbVars, loginVars, adminVars
<1>18. CASE \E a \in Admins : AdminDone(a)
  BY <1>18 DEF AdminDone, AfterStatus, dbVars, loginVars, adminVars
<1>19. CASE \E a \in Admins : AdminError(a)
  BY <1>19 DEF AdminError, AfterStatus, dbVars, loginVars, adminVars
<1>20. CASE UNCHANGED fenceVars
  BY <1>20 DEF fenceVars
<1>. QED
  BY <1>1, <1>2, <1>3, <1>4, <1>5, <1>6, <1>7, <1>8, <1>9, <1>10, <1>11, <1>12, <1>13, <1>14, <1>15, <1>16, <1>17, <1>18, <1>19, <1>20 DEF FenceNext, LoginStep, AdminStep

\* LoginFence.TypeOK holds in every reachable state.
THEOREM TypeCorrect == FenceSpec => []FenceTypeOK
<1>1. FenceInit => FenceTypeOK
  BY DEF FenceInit, FenceTypeOK, Status, LoginPc, AdminPc, Ops
<1>. QED
  BY <1>1, TypeStep, PTL DEF FenceSpec

-----------------------------------------------------------------------------
\* The initial states satisfy the invariant: nothing was read, written or bumped.
LEMMA IndInvInit == FenceInit => IndInv
<1>1. FenceInit => FenceTypeOK
  BY DEF FenceInit, FenceTypeOK, Status, LoginPc, AdminPc, Ops
<1>2. FenceInit => NotAhead /\ EpochFence /\ StoredStatus /\ DeliveredWhileLoginable /\ HashFence
  BY DEF FenceInit, NotAhead, EpochFence, StoredStatus, DeliveredWhileLoginable, HashFence,
         Fences, Bumped, HasEpoch
<1>. QED
  BY <1>1, <1>2 DEF IndInv

\* A step of a login preserves the invariant: the delicate ones are the
\* recheck, which only passes under a loginable status and the hash the login read,
\* and the two writes of a status.
LEMMA LoginStepInd == ASSUME IndInv, FenceTypeOK', NEW l \in Logins, LoginStep(l) PROVE IndInv'
<1>. USE DEF IndInv, FenceTypeOK, NotAhead, EpochFence, StoredStatus, DeliveredWhileLoginable,
           HashFence, Fences, Bumped, HasEpoch, CanLogin, Status
<1>1. CASE Authenticate(l)
  BY <1>1 DEF Authenticate, dbVars, loginVars, adminVars
<1>2. CASE ResolveLogin(l)
  BY <1>2 DEF ResolveLogin, dbVars, loginVars, adminVars
<1>3. CASE ReviveRead(l)
  BY <1>3 DEF ReviveRead, dbVars, loginVars, adminVars
<1>4. CASE ReviveWrite(l)
  BY <1>4 DEF ReviveWrite, dbVars, loginVars, adminVars
<1>5. CASE ReadEpoch(l)
  BY <1>5 DEF ReadEpoch, dbVars, loginVars, adminVars
<1>6. CASE PutSession(l)
  BY <1>6 DEF PutSession, dbVars, loginVars, adminVars
<1>7. CASE RecheckLoginable(l)
  BY <1>7 DEF RecheckLoginable, dbVars, loginVars, adminVars
<1>8. CASE RevokeIssued(l)
  BY <1>8 DEF RevokeIssued, dbVars, loginVars, adminVars
<1>9. CASE LoginError(l)
  BY <1>9 DEF LoginError, dbVars, loginVars, adminVars
<1>10. CASE SessionEnds(l)
  BY <1>10 DEF SessionEnds, dbVars, loginVars, adminVars
<1>. QED
  BY <1>1, <1>2, <1>3, <1>4, <1>5, <1>6, <1>7, <1>8, <1>9, <1>10 DEF LoginStep

\* A step of an administrative operation preserves the invariant: the bump
\* overtakes every epoch read so far, a write of the status or the password makes
\* the recorded generations old.
LEMMA AdminStepInd == ASSUME IndInv, FenceTypeOK', NEW a \in Admins, AdminStep(a) PROVE IndInv'
<1>. USE DEF IndInv, FenceTypeOK, NotAhead, EpochFence, StoredStatus, DeliveredWhileLoginable,
           HashFence, Fences, Bumped, HasEpoch, CanLogin, Status
<1>1. CASE SetStatusRead(a)
  BY <1>1 DEF SetStatusRead, AfterStatus, dbVars, loginVars, adminVars
<1>2. CASE SetStatusWrite(a)
  BY <1>2 DEF SetStatusWrite, AfterStatus, dbVars, loginVars, adminVars
<1>3. CASE SetPassword(a)
  BY <1>3 DEF SetPassword, dbVars, loginVars, adminVars
<1>4. CASE RevokeUsersSessions(a)
  BY <1>4 DEF RevokeUsersSessions, dbVars, loginVars, adminVars
<1>5. CASE Bump(a)
  BY <1>5 DEF Bump, dbVars, loginVars, adminVars
<1>6. CASE ListUserTokens(a)
  BY <1>6 DEF ListUserTokens, dbVars, loginVars, adminVars
<1>7. CASE RevokeToken(a)
  BY <1>7 DEF RevokeToken, dbVars, loginVars, adminVars
<1>8. CASE AdminDone(a)
  BY <1>8 DEF AdminDone, dbVars, loginVars, adminVars
<1>9. CASE AdminError(a)
  BY <1>9 DEF AdminError, dbVars, loginVars, adminVars
<1>. QED
  BY <1>1, <1>2, <1>3, <1>4, <1>5, <1>6, <1>7, <1>8, <1>9 DEF AdminStep

\* IndInv is an invariant.
THEOREM IndInvariant == FenceSpec => []IndInv
<1>1. IndInv /\ [FenceNext]_fenceVars => IndInv'
  <2>. SUFFICES ASSUME IndInv, [FenceNext]_fenceVars PROVE IndInv'
    OBVIOUS
  <2>1. FenceTypeOK'
    BY TypeStep DEF IndInv
  <2>2. CASE \E l \in Logins : LoginStep(l)
    BY <2>1, <2>2, LoginStepInd
  <2>3. CASE \E a \in Admins : AdminStep(a)
    BY <2>1, <2>3, AdminStepInd
  <2>4. CASE UNCHANGED fenceVars
    BY <2>4 DEF fenceVars, IndInv, FenceTypeOK, NotAhead, EpochFence, StoredStatus,
       DeliveredWhileLoginable, HashFence, Fences, Bumped, HasEpoch
  <2>. QED
    BY <2>2, <2>3, <2>4 DEF FenceNext
<1>. QED
  BY <1>1, IndInvInit, PTL DEF FenceSpec

-----------------------------------------------------------------------------
\* The argument of the fence.  Suppose a freeze is in force and l holds a token.
\* The status is non-loginable, so l read its epoch under an earlier status, so
\* before the freeze was stored, so before the bump: Validate refuses it.
LEMMA FenceHolds == IndInv => FreezeFence
<1>. SUFFICES ASSUME IndInv, NEW a \in Admins, Locks(a), NEW l \in Granted PROVE FALSE
  BY DEF FreezeFence
<1>1. l \in Logins /\ lpc[l] = "ok" /\ lepoch[l] = epoch
  BY DEF Granted, Usable
<1>2. Fences(a) /\ Bumped(a) /\ seenGen[a] = gen
  BY DEF Locks, Fences, Bumped
<1>3. ~CanLogin(status)
  BY <1>2 DEF IndInv, StoredStatus
<1>4. lgen[l] < seenGen[a]
  BY <1>1, <1>2, <1>3 DEF IndInv, FenceTypeOK, NotAhead, DeliveredWhileLoginable
<1>5. lepoch[l] < epoch
  BY <1>1, <1>2, <1>4 DEF IndInv, EpochFence, HasEpoch
<1>. QED
  BY <1>1, <1>5 DEF IndInv, FenceTypeOK

\* Once SetStatus has acknowledged a freeze, no token a login handed out is usable.
THEOREM FreezeFenced == FenceSpec => []FreezeFence
BY IndInvariant, FenceHolds, PTL

\* Once ResetPassword has acknowledged, no login that read the user before the
\* new password was stored has a usable token.
THEOREM ResetFenced == FenceSpec => []ResetFence
<1>1. IndInv => ResetFence
  <2>. SUFFICES ASSUME IndInv, NEW a \in Admins, apc[a] = "done", op[a] = "reset",
                       NEW l \in Granted, ~(snapHash[l] >= seenHash[a])
                PROVE  FALSE
    BY DEF ResetFence
  <2>1. l \in Logins /\ lpc[l] = "ok" /\ lepoch[l] = epoch
    BY DEF Granted, Usable
  <2>2. snapHash[l] < seenHash[a]
    BY <2>1 DEF IndInv, FenceTypeOK
  <2>3. lepoch[l] < epoch
    BY <2>1, <2>2 DEF IndInv, HashFence, Bumped
  <2>. QED
    BY <2>1, <2>3 DEF IndInv, FenceTypeOK
<1>. QED
  BY <1>1, IndInvariant, PTL

-----------------------------------------------------------------------------
(* LoginFence implements AccountAccess: each step maps to Grant, Withdraw, *)
(* Lock, Unlock or a stutter under  granted <- Granted, locked <- Locked.  *)

\* Tokens that stop being usable while the lock stays as it is: Withdraw.
LEMMA WithdrawStep ==
    ASSUME Granted' \subseteq Granted, Locked' = Locked
    PROVE  [Access!ANext]_(Access!avars)
<1>. DEFINE S == Granted \ Granted'
<1>1. S \in SUBSET Logins
  BY DEF Granted
<1>2. Granted' = Granted \ S
  OBVIOUS
<1>. HIDE DEF S
<1>3. Access!Withdraw(S)
  BY <1>2 DEF Access!Withdraw
<1>. QED
  BY <1>1, <1>3 DEF Access!ANext

\* A write of the status while no token becomes usable: Unlock.
LEMMA UnlockStep ==
    ASSUME Granted' = Granted, Locked' = FALSE
    PROVE  [Access!ANext]_(Access!avars)
BY DEF Access!ANext, Access!Unlock

\* Steps of a login.
LEMMA LoginRefines ==
    ASSUME IndInv, NEW l \in Logins, LoginStep(l)
    PROVE  [Access!ANext]_(Access!avars)
<1>. USE DEF dbVars, loginVars, adminVars
<1>1. CASE ReviveWrite(l)
  <2>1. Granted' = Granted
    BY <1>1 DEF ReviveWrite, Granted, Usable, IndInv, FenceTypeOK
  <2>2. Locked' = FALSE
    BY <1>1 DEF ReviveWrite, Locked, Locks, IndInv, FenceTypeOK, NotAhead
  <2>. QED
    BY <2>1, <2>2, UnlockStep
<1>2. CASE RecheckLoginable(l)
  <2>1. Locked' = Locked
    BY <1>2 DEF RecheckLoginable, Locked, Locks
  <2>2. CASE CanLogin(status)
    <3>1. ~Locked
      BY <2>2 DEF Locked, Locks, IndInv, StoredStatus, Fences, Bumped
    <3>2. Granted' = Granted \/ Granted' = Granted \cup {l}
      BY <1>2 DEF RecheckLoginable, Granted, Usable, IndInv, FenceTypeOK
    <3>. QED
      BY <3>1, <3>2, <2>1, WithdrawStep DEF Access!ANext, Access!Grant
  <2>3. CASE ~CanLogin(status)
    <3>1. Granted' \subseteq Granted
      BY <1>2, <2>3 DEF RecheckLoginable, Granted, Usable, IndInv, FenceTypeOK
    <3>. QED
      BY <3>1, <2>1, WithdrawStep
  <2>. QED
    BY <2>2, <2>3
<1>3. CASE ~ReviveWrite(l) /\ ~RecheckLoginable(l)
  <2>1. Locked' = Locked
    BY <1>3 DEF LoginStep, Authenticate, ResolveLogin, ReviveRead, ReadEpoch, PutSession,
       RevokeIssued, LoginError, SessionEnds, Locked, Locks
  <2>2. Granted' \subseteq Granted
    <3>. USE DEF Granted, Usable, IndInv, FenceTypeOK
    <3>1. CASE Authenticate(l) \/ ResolveLogin(l) \/ ReviveRead(l)
      BY <3>1 DEF Authenticate, ResolveLogin, ReviveRead
    <3>2. CASE ReadEpoch(l) \/ PutSession(l)
      BY <3>2 DEF ReadEpoch, PutSession
    <3>3. CASE RevokeIssued(l) \/ LoginError(l) \/ SessionEnds(l)
      BY <3>3 DEF RevokeIssued, LoginError, SessionEnds
    <3>. QED
      BY <1>3, <3>1, <3>2, <3>3 DEF LoginStep
  <2>. QED
    BY <2>1, <2>2, WithdrawStep
<1>. QED
  BY <1>1, <1>2, <1>3

\* Steps of an administrative operation; the lock is taken by AdminDone, and by
\* FenceHolds nothing is usable then.
LEMMA AdminRefines ==
    ASSUME IndInv, IndInv', NEW a \in Admins, AdminStep(a)
    PROVE  [Access!ANext]_(Access!avars)
<1>. USE DEF dbVars, loginVars, adminVars
<1>1. Granted' \subseteq Granted
  <2>1. CASE Bump(a)
    BY <2>1 DEF Bump, Granted, Usable, IndInv, FenceTypeOK, NotAhead
  <2>2. CASE ~Bump(a)
    BY <2>2 DEF AdminStep, SetStatusRead, SetStatusWrite, SetPassword, RevokeUsersSessions,
       ListUserTokens, RevokeToken, AdminDone, AdminError, Granted, Usable
  <2>. QED
    BY <2>1, <2>2
<1>2. CASE AdminDone(a)
  <2>1. Granted' = Granted
    BY <1>2 DEF AdminDone, Granted, Usable
  <2>2. CASE Locked'
    <3>0. FreezeFence'
      BY FenceHolds, PTL
    <3>1. Granted' = {}
      BY <2>2, <3>0 DEF Locked, FreezeFence
    <3>. QED
      BY <3>1, <2>1, <2>2 DEF Access!ANext, Access!Lock, Locked
  <2>3. CASE ~Locked'
    <3>1. Locked' = FALSE
      BY <2>3 DEF Locked
    <3>. QED
      BY <3>1, <2>1, UnlockStep
  <2>. QED
    BY <2>2, <2>3
<1>3. CASE SetStatusWrite(a)
  <2>1. Granted' = Granted
    BY <1>3 DEF SetStatusWrite, Granted, Usable
  <2>2. Locked' = FALSE
    BY <1>3 DEF SetStatusWrite, AfterStatus, Locked, Locks, IndInv, FenceTypeOK, NotAhead
  <2>. QED
    BY <2>1, <2>2, UnlockStep
<1>4. CASE ~AdminDone(a) /\ ~SetStatusWrite(a)
  <2>1. Locked' = Locked
    <3>. USE DEF Locked, Locks, IndInv, FenceTypeOK
    <3>1. CASE SetStatusRead(a)
      BY <3>1 DEF SetStatusRead, AfterStatus
    <3>2. CASE SetPassword(a) \/ RevokeUsersSessions(a)
      BY <3>2 DEF SetPassword, RevokeUsersSessions
    <3>3. CASE Bump(a) \/ ListUserTokens(a) \/ RevokeToken(a) \/ AdminError(a)
      BY <3>3 DEF Bump, ListUserTokens, RevokeToken, AdminError
    <3>. QED
      BY <1>4, <3>1, <3>2, <3>3 DEF AdminStep
  <2>. QED
    BY <1>1, <2>1, WithdrawStep
<1>. QED
  BY <1>2, <1>3, <1>4

\* Logins and account administration, together, implement AccountAccess.
THEOREM Refinement == FenceSpec => AccessSpec
<1>1. FenceInit => Access!AInit
  BY DEF FenceInit, Access!AInit, Granted, Locked, Locks
<1>2. IndInv /\ IndInv' /\ [FenceNext]_fenceVars => [Access!ANext]_(Access!avars)
  <2>. SUFFICES ASSUME IndInv, IndInv', [FenceNext]_fenceVars
                PROVE  [Access!ANext]_(Access!avars)
    OBVIOUS
  <2>1. CASE \E l \in Logins : LoginStep(l)
    BY <2>1, LoginRefines
  <2>2. CASE \E a \in Admins : AdminStep(a)
    BY <2>2, AdminRefines
  <2>3. CASE UNCHANGED fenceVars
    BY <2>3 DEF fenceVars, Access!avars, Granted, Usable, Locked, Locks
  <2>. QED
    BY <2>1, <2>2, <2>3 DEF FenceNext
<1>. QED
  BY <1>1, <1>2, IndInvariant, PTL DEF FenceSpec, AccessSpec, Access!ASpec

-----------------------------------------------------------------------------
(* Login codes                                                             *)

CodeTypes ==
    /\ code \in [Phones -> [val : Nat, ttl : Nat, tries : Nat, tryTTL : Nat]]
    /\ minted \in 0..MaxCodes
    /\ tried \in [1..MaxCodes -> Nat] /\ used \in [1..MaxCodes -> Nat]
    /\ inst \in Instances

\* The key of the tries lives at least as long as the code it counts for, so that it
\* counts all of them: a code is compared as often as its tries say.
TriesCounted ==
    \A n \in Phones :
        code[n].val # 0 =>
            /\ code[n].val <= minted /\ code[n].ttl \in 1..CodeTTL
            /\ code[n].tries <= MaxTries
            /\ IF code[n].tries = 0 THEN code[n].tryTTL = 0 ELSE code[n].tryTTL >= code[n].ttl
            /\ tried[code[n].val] = code[n].tries /\ used[code[n].val] = 0

\* A code is sent to one phone, and nobody tries it before it is made.
OnePhone ==
    /\ \A n, m \in Phones : code[n].val # 0 /\ code[n].val = code[m].val => n = m
    /\ \A c \in 1..MaxCodes : c > minted => tried[c] = 0 /\ used[c] = 0

CodeInv == CodeTypes /\ TriesCounted /\ OnePhone /\ TriesBounded

\* The numbers of the assumptions.
LEMMA Numbers ==
    /\ MaxTries \in Nat /\ MaxTries > 0 /\ MaxCodes \in Nat
    /\ inst \in Instances => CodeTTL \in Nat /\ CodeTTL > 0
BY SignInAssumption DEF CodeTTL

\* issueScript: a code that is sent again keeps its number and its tries, and their
\* key is renewed with it.
LEMMA SendKeeps == ASSUME CodeInv, NEW n \in Phones, SendLoginCode(n), UNCHANGED inst PROVE CodeInv'
<1>t. /\ code \in [Phones -> [val : Nat, ttl : Nat, tries : Nat, tryTTL : Nat]]
      /\ minted \in Nat /\ minted < MaxCodes /\ inst \in Instances /\ CodeTTL' = CodeTTL
      /\ tried \in [1..MaxCodes -> Nat] /\ used \in [1..MaxCodes -> Nat]
      /\ UNCHANGED <<tried, used>>
  BY Numbers DEF CodeInv, CodeTypes, SendLoginCode, CodeTTL
<1>i. TriesCounted /\ OnePhone /\ TriesBounded
  BY DEF CodeInv
<1>. DEFINE old == code[n]
            again == [old EXCEPT !.ttl = CodeTTL, !.tryTTL = IF old.tries > 0 THEN CodeTTL ELSE 0]
            new == [val |-> minted + 1, ttl |-> CodeTTL, tries |-> 0, tryTTL |-> 0]
<1>1. \/ UNCHANGED <<code, minted>>
      \/ /\ old.val # 0 /\ code' = [code EXCEPT ![n] = again] /\ minted' = minted
      \/ /\ code' = [code EXCEPT ![n] = new] /\ minted' = minted + 1
  <2>1. again.val = old.val
    BY <1>t
  <2>2. old.val # 0 => old.val <= minted
    BY <1>i DEF TriesCounted
  <2>. QED
    BY <1>t, <2>1, <2>2 DEF SendLoginCode, Issue
<1>2. CASE UNCHANGED <<code, minted>>
  BY <1>t, <1>2 DEF CodeInv, CodeTypes, TriesCounted, OnePhone, TriesBounded
<1>3. CASE old.val # 0 /\ code' = [code EXCEPT ![n] = again] /\ minted' = minted
  <2>1. /\ again \in [val : Nat, ttl : Nat, tries : Nat, tryTTL : Nat]
        /\ again.val = old.val /\ again.ttl = CodeTTL /\ again.tries = old.tries
        /\ again.tryTTL = IF old.tries > 0 THEN CodeTTL ELSE 0
    BY <1>t, Numbers
  <2>. HIDE DEF again
  <2>. HIDE DEF old
  <2>2. code'[n] = again /\ \A m \in Phones : m # n => code'[m] = code[m]
    BY <1>t, <1>3
  <2>3. TriesCounted'
    <3>. SUFFICES ASSUME NEW m \in Phones, code'[m].val # 0
                  PROVE  /\ code'[m].val <= minted' /\ code'[m].ttl \in 1..CodeTTL'
                         /\ code'[m].tries <= MaxTries
                         /\ IF code'[m].tries = 0 THEN code'[m].tryTTL = 0
                            ELSE code'[m].tryTTL >= code'[m].ttl
                         /\ tried'[code'[m].val] = code'[m].tries /\ used'[code'[m].val] = 0
      BY DEF TriesCounted
    <3>1. CASE m = n
      BY <1>t, <1>i, <1>3, <2>1, <2>2, <3>1, Numbers DEF TriesCounted, old
    <3>2. CASE m # n
      BY <1>t, <1>i, <1>3, <2>2, <3>2 DEF TriesCounted
    <3>. QED
      BY <3>1, <3>2
  <2>4. OnePhone' /\ TriesBounded'
    <3>1. \A m \in Phones : code'[m].val = code[m].val
      BY <2>1, <2>2 DEF old
    <3>2. OnePhone'
      BY <1>t, <1>i, <1>3, <3>1 DEF OnePhone
    <3>3. TriesBounded'
      BY <1>t, <1>i, <1>3 DEF TriesBounded
    <3>. QED
      BY <3>2, <3>3
  <2>. QED
    BY <1>t, <1>3, <2>1, <2>3, <2>4 DEF CodeInv, CodeTypes
<1>4. CASE code' = [code EXCEPT ![n] = new] /\ minted' = minted + 1
  <2>1. /\ new \in [val : Nat, ttl : Nat, tries : Nat, tryTTL : Nat]
        /\ new.val = minted + 1 /\ new.ttl = CodeTTL /\ new.tries = 0 /\ new.tryTTL = 0
    BY <1>t, Numbers
  <2>. HIDE DEF new
  <2>2. minted + 1 \in 1..MaxCodes /\ tried[minted + 1] = 0 /\ used[minted + 1] = 0
    BY <1>t, <1>i, Numbers DEF OnePhone
  <2>r. code'[n] = new /\ \A m \in Phones : m # n => code'[m] = code[m]
    BY <1>t, <1>4
  <2>3. TriesCounted'
    <3>. SUFFICES ASSUME NEW m \in Phones, code'[m].val # 0
                  PROVE  /\ code'[m].val <= minted' /\ code'[m].ttl \in 1..CodeTTL'
                         /\ code'[m].tries <= MaxTries
                         /\ IF code'[m].tries = 0 THEN code'[m].tryTTL = 0
                            ELSE code'[m].tryTTL >= code'[m].ttl
                         /\ tried'[code'[m].val] = code'[m].tries /\ used'[code'[m].val] = 0
      BY DEF TriesCounted
    <3>1. CASE m = n
      BY <1>t, <1>4, <2>1, <2>2, <2>r, <3>1, Numbers
    <3>2. CASE m # n
      BY <1>t, <1>i, <1>4, <2>r, <3>2 DEF TriesCounted
    <3>. QED
      BY <3>1, <3>2
  <2>o. \A m \in Phones : m # n /\ code'[m].val # 0 => code'[m].val # minted + 1
    BY <1>t, <1>i, <2>r DEF TriesCounted
  <2>4. OnePhone' /\ TriesBounded'
    BY <1>t, <1>i, <1>4, <2>1, <2>r, <2>o DEF OnePhone, TriesBounded
  <2>. QED
    BY <1>t, <1>4, <2>1, <2>2, <2>3, <2>4 DEF CodeInv, CodeTypes
<1>. QED
  BY <1>1, <1>2, <1>3, <1>4

\* Time: the code goes first, and its tries with it.
LEMMA TickKeeps == ASSUME CodeInv, NEW n \in Phones, Tick(n), UNCHANGED inst PROVE CodeInv'
<1>t. /\ code \in [Phones -> [val : Nat, ttl : Nat, tries : Nat, tryTTL : Nat]]
      /\ UNCHANGED <<minted, tried, used>> /\ code[n].val # 0
      /\ code' = [code EXCEPT ![n] = Older(code[n])]
  BY DEF CodeInv, CodeTypes, Tick
<1>c. CodeTTL' = CodeTTL /\ CodeTTL \in Nat
  BY Numbers DEF CodeTTL, CodeInv, CodeTypes
<1>i. TriesCounted /\ OnePhone /\ TriesBounded
  BY DEF CodeInv
<1>1. /\ Older(code[n]) \in [val : Nat, ttl : Nat, tries : Nat, tryTTL : Nat]
      /\ \/ Older(code[n]).val = 0
         \/ /\ Older(code[n]).val = code[n].val /\ Older(code[n]).tries = code[n].tries
            /\ Older(code[n]).ttl \in 1..CodeTTL
            /\ IF code[n].tries = 0 THEN Older(code[n]).tryTTL = 0
               ELSE Older(code[n]).tryTTL >= Older(code[n]).ttl
  <2>. DEFINE c == code[n]
              shorter == [c EXCEPT !.ttl = c.ttl - 1]
  <2>1. /\ c \in [val : Nat, ttl : Nat, tries : Nat, tryTTL : Nat] /\ c.ttl >= 1
        /\ IF c.tries = 0 THEN c.tryTTL = 0 ELSE c.tryTTL >= c.ttl
        /\ c.ttl <= CodeTTL
    BY <1>t, <1>c, <1>i DEF TriesCounted
  <2>. HIDE DEF c
  <2>2. CASE c.ttl = 1
    BY <2>2 DEF Older, NoCode, c
  <2>3. CASE c.ttl > 1
    <3>1. /\ shorter \in [val : Nat, ttl : Nat, tries : Nat, tryTTL : Nat]
          /\ shorter.val = c.val /\ shorter.ttl = c.ttl - 1 /\ shorter.tries = c.tries
          /\ shorter.tryTTL = c.tryTTL
      BY <2>1, <2>3
    <3>2. CASE c.tries = 0
      BY <1>c, <2>1, <2>3, <3>1, <3>2 DEF Older, c
    <3>3. CASE c.tries # 0
      <4>. HIDE DEF shorter
      <4>1. Older(c) = [shorter EXCEPT !.tryTTL = shorter.tryTTL - 1]
        BY <2>1, <2>3, <3>3 DEF Older, shorter
      <4>2. shorter.tryTTL - 1 \in Nat /\ shorter.tryTTL - 1 >= shorter.ttl
        BY <2>1, <2>3, <3>1, <3>3
      <4>. QED
        BY <1>c, <2>1, <2>3, <3>1, <3>3, <4>1, <4>2 DEF c
    <3>. QED
      BY <3>2, <3>3
  <2>. QED
    BY <2>1, <2>2, <2>3
<1>2. TriesCounted' /\ OnePhone' /\ TriesBounded'
  BY <1>t, <1>c, <1>i, <1>1 DEF TriesCounted, OnePhone, TriesBounded
<1>. QED
  BY <1>t, <1>1, <1>2 DEF CodeInv, CodeTypes

\* verifyScript counts the try before it compares, and a match deletes the code.
LEMMA VerifyKeeps ==
    ASSUME CodeInv, NEW n \in Phones, NEW right \in BOOLEAN, Verify(n, right),
           UNCHANGED <<inst, minted>>
    PROVE  CodeInv'
<1>. DEFINE val == code[n].val
            tries == code[n].tries + 1
            next == [code[n] EXCEPT !.tries = tries, !.tryTTL = IF tries = 1 THEN CodeTTL ELSE @]
            left == IF tries > MaxTries \/ right THEN NoCode ELSE next
<1>t. /\ code \in [Phones -> [val : Nat, ttl : Nat, tries : Nat, tryTTL : Nat]]
      /\ tried \in [1..MaxCodes -> Nat] /\ used \in [1..MaxCodes -> Nat]
      /\ minted \in 0..MaxCodes /\ inst \in Instances /\ CodeTTL' = CodeTTL
  BY DEF CodeInv, CodeTypes, CodeTTL
<1>i. TriesCounted /\ OnePhone /\ TriesBounded
  BY DEF CodeInv
<1>1. CASE val = 0
  BY <1>1, <1>t, <1>i DEF Verify, CodeInv, CodeTypes, TriesCounted, OnePhone, TriesBounded
<1>2. CASE val # 0
  <2>1. code' = [code EXCEPT ![n] = left]
    BY <1>2 DEF Verify
  <2>2. IF tries > MaxTries THEN UNCHANGED <<tried, used>>
        ELSE /\ tried' = [tried EXCEPT ![val] = @ + 1]
             /\ used' = [used EXCEPT ![val] = IF right THEN @ + 1 ELSE @]
    BY <1>2 DEF Verify
  <2>0. val \in Nat /\ code[n].tries \in Nat /\ code[n].ttl \in Nat /\ CodeTTL \in Nat
    BY <1>t, Numbers
  <2>3. /\ val \in 1..MaxCodes /\ tries \in Nat /\ val <= minted /\ tries > 0
        /\ tried[val] = code[n].tries /\ used[val] = 0
        /\ code[n].ttl \in 1..CodeTTL /\ CodeTTL \in Nat
        /\ IF code[n].tries = 0 THEN code[n].tryTTL = 0 ELSE code[n].tryTTL >= code[n].ttl
    BY <1>2, <1>t, <1>i, <2>0, Numbers DEF TriesCounted
  <2>4. /\ left \in [val : Nat, ttl : Nat, tries : Nat, tryTTL : Nat]
        /\ \/ left.val = 0
           \/ /\ tries <= MaxTries /\ ~right
              /\ left.val = val /\ left.ttl = code[n].ttl /\ left.tries = tries
              /\ left.tryTTL >= left.ttl
    <3>0. code[n] \in [val : Nat, ttl : Nat, tries : Nat, tryTTL : Nat]
      BY <1>t
    <3>1. next \in [val : Nat, ttl : Nat, tries : Nat, tryTTL : Nat]
      BY <3>0, <2>3, <2>0
    <3>2. /\ next.val = val /\ next.ttl = code[n].ttl /\ next.tries = tries
          /\ next.tryTTL = IF tries = 1 THEN CodeTTL ELSE code[n].tryTTL
      BY <3>0
    <3>3. next.tryTTL >= next.ttl
      BY <3>2, <2>0, <2>3
    <3>. HIDE DEF next
    <3>4. CASE tries > MaxTries \/ right
      BY <3>4 DEF NoCode
    <3>5. CASE ~(tries > MaxTries \/ right)
      BY <2>0, <2>3, <3>1, <3>2, <3>3, <3>5, Numbers
    <3>. QED
      BY <3>4, <3>5
  <2>r. code'[n] = left /\ \A m \in Phones : m # n => code'[m] = code[m]
    BY <1>t, <2>1
  <2>. HIDE DEF left
  <2>u. /\ tried' \in [1..MaxCodes -> Nat] /\ used' \in [1..MaxCodes -> Nat]
        /\ \A c \in 1..MaxCodes : c # val => tried'[c] = tried[c] /\ used'[c] = used[c]
        /\ tried'[val] <= MaxTries /\ used'[val] <= 1
        /\ tries <= MaxTries /\ ~right => tried'[val] = tries /\ used'[val] = 0
    <3>1. CASE tries > MaxTries
      BY <1>t, <1>i, <2>2, <2>3, <3>1, Numbers DEF TriesBounded
    <3>2. CASE ~(tries > MaxTries)
      <4>1. /\ tried' = [tried EXCEPT ![val] = @ + 1]
            /\ used' = [used EXCEPT ![val] = IF right THEN @ + 1 ELSE @]
        BY <2>2, <3>2
      <4>2. tried'[val] = tries /\ used'[val] = IF right THEN 1 ELSE 0
        BY <1>t, <2>3, <4>1
      <4>. QED
        BY <1>t, <2>3, <3>2, <4>1, <4>2, Numbers
    <3>. QED
      BY <3>1, <3>2
  <2>5. \A m \in Phones : m # n /\ code[m].val # 0 => code[m].val # val /\ code[m].val \in 1..MaxCodes
    BY <1>2, <1>t, <1>i, Numbers DEF OnePhone, TriesCounted
  <2>. HIDE DEF val, tries
  <2>6. TriesCounted'
    <3>. SUFFICES ASSUME NEW m \in Phones, code'[m].val # 0
                  PROVE  /\ code'[m].val <= minted' /\ code'[m].ttl \in 1..CodeTTL'
                         /\ code'[m].tries <= MaxTries
                         /\ IF code'[m].tries = 0 THEN code'[m].tryTTL = 0
                            ELSE code'[m].tryTTL >= code'[m].ttl
                         /\ tried'[code'[m].val] = code'[m].tries /\ used'[code'[m].val] = 0
      BY DEF TriesCounted
    <3>0. CodeTTL' = CodeTTL
      BY DEF CodeTTL
    <3>1. CASE m = n
      BY <2>3, <2>4, <2>r, <2>u, <3>0, <3>1 DEF val, tries
    <3>2. CASE m # n
      BY <1>i, <2>5, <2>r, <2>u, <3>0, <3>2 DEF TriesCounted
    <3>. QED
      BY <3>1, <3>2
  <2>7. OnePhone'
    <3>1. ASSUME NEW m \in Phones, NEW k \in Phones, code'[m].val # 0,
                 code'[m].val = code'[k].val
          PROVE  m = k
      BY <1>i, <2>4, <2>5, <2>r, <3>1 DEF OnePhone, val
    <3>2. \A c \in 1..MaxCodes : c > minted' => tried'[c] = 0 /\ used'[c] = 0
      BY <1>t, <1>i, <2>3, <2>u DEF OnePhone
    <3>. QED
      BY <3>1, <3>2 DEF OnePhone
  <2>8. TriesBounded'
    BY <1>i, <2>u DEF TriesBounded
  <2>9. CodeTypes'
    BY <1>t, <2>1, <2>4, <2>u DEF CodeTypes
  <2>. QED
    BY <2>6, <2>7, <2>8, <2>9 DEF CodeInv
<1>. QED
  BY <1>1, <1>2

-----------------------------------------------------------------------------
(* Types                                                                   *)

Outcomes == {"none", "ok", "failed", "cancelled"}

\* What may be in the identity table: what was there, and what the services insert.
Made == [id : Nat, type : {"phone", "wechat"}, subject : Phones \cup {Subject[f] : f \in Flows},
         union : {""} \cup {UnionKey[f] : f \in Flows}, user : Nat]
Rows == (UNION InitIds) \cup Made

Caller(pcs) ==
    [pc : pcs, flow : Flows \cup {"none"}, phone : Phones \cup {"none"}, out : Outcomes,
     user : Nat, id : Nat, found : BOOLEAN, gone : SUBSET Rows, again : BOOLEAN]

CbPc  == {"idle", "claim", "exchange", "deliver", "expired", "done"}
ReqPc == {"idle", "find", "insert", "complete", "in", "settle", "attach", "verify", "take",
          "link", "linking"}

\* What a request knows at each place.
Knows(s) ==
    /\ s \in Caller(ReqPc)
    /\ s.pc = "idle" => s = Idle
    /\ s.pc \in {"find", "insert"} => s.flow = "none" /\ s.phone \in Phones
    /\ s.pc \in {"settle", "attach", "verify", "take", "link", "linking"} => s.flow \in Flows
    /\ s.pc \in {"verify", "take", "link", "linking"} => s.phone \in Phones
    /\ s.pc = "attach" => s.user # 0

FlowRecords == [state : BOOLEAN, done : BOOLEAN, result : Outcomes, ticket : {"none", "ok"},
                bind : BOOLEAN]

FlowTypes ==
    /\ inst \in Instances
    /\ flow \in [Flows -> FlowRecords]
    /\ cb \in [Callbacks -> Caller(CbPc)]
    /\ \A c \in Callbacks : cb[c].pc \in {"claim", "exchange", "deliver"} => cb[c].flow \in Flows
    /\ exchanged \in [Flows -> Nat] /\ logins \in [Flows -> Nat]

ReqTypes == req \in [Requests -> Caller(ReqPc)] /\ \A r \in Requests : Knows(req[r])

\* The rows of the table: users are numbered from 1, phones have no union key.
TableTypes ==
    /\ ids \subseteq Rows /\ serial \in Nat \ {0}
    /\ \A i \in ids : /\ i.id \in Nat /\ i.user \in Nat \ {0}
                      /\ i.type = "phone" => i.union = ""

Typed == FlowTypes /\ ReqTypes /\ TableTypes

\* A caller that does nothing is one.
LEMMA IdleTyped ==
    /\ Idle \in Caller(ReqPc) /\ Idle \in Caller(CbPc) /\ Knows(Idle)
    /\ Idle.pc = "idle" /\ Idle.flow = "none" /\ Idle.out = "none"
<1>1. /\ Idle \in Caller(ReqPc) /\ Idle \in Caller(CbPc)
      /\ Idle.pc = "idle" /\ Idle.flow = "none" /\ Idle.out = "none"
  BY DEF Idle, Caller, ReqPc, CbPc, Outcomes
<1>. QED
  BY <1>1 DEF Knows

\* A request moves on, and the others stay where they are.
LEMMA SetTyped ==
    ASSUME ReqTypes, NEW r \in Requests, NEW new, Knows(new), Set(r, new)
    PROVE  ReqTypes' /\ req'[r] = new /\ \A q \in Requests : q # r => req'[q] = req[q]
<1>1. req' = [req EXCEPT ![r] = new] /\ new \in Caller(ReqPc)
  BY DEF Set, Knows
<1>2. req' \in [Requests -> Caller(ReqPc)]
  BY <1>1 DEF ReqTypes
<1>3. req'[r] = new /\ \A q \in Requests : q # r => req'[q] = req[q]
  BY <1>1 DEF ReqTypes
<1>. QED
  BY <1>2, <1>3 DEF ReqTypes

\* A row that a service inserts may be in the table.
LEMMA RowTyped ==
    ASSUME NEW i \in Nat, NEW u \in Nat
    PROVE  /\ \A n \in Phones : Row(i, "phone", n, "", u) \in Rows
           /\ \A f \in Flows : Row(i, "wechat", Subject[f], UnionKey[f], u) \in Rows
<1>1. ASSUME NEW n \in Phones PROVE Row(i, "phone", n, "", u) \in Made
  BY DEF Row, Made
<1>2. ASSUME NEW f \in Flows PROVE Row(i, "wechat", Subject[f], UnionKey[f], u) \in Made
  <2>1. Subject[f] \in Phones \cup {Subject[g] : g \in Flows}
    OBVIOUS
  <2>2. UnionKey[f] \in {""} \cup {UnionKey[g] : g \in Flows}
    OBVIOUS
  <2>. QED
    BY <2>1, <2>2 DEF Row, Made
<1>. QED
  BY <1>1, <1>2 DEF Rows

\* The table with one more row.
LEMMA RowAdded ==
    ASSUME TableTypes, NEW row \in Rows, row.id \in Nat, row.user \in Nat \ {0},
           row.type = "phone" => row.union = "",
           ids' = ids \cup {row}, serial' \in Nat \ {0}
    PROVE  TableTypes'
<1>2. ids' \subseteq Rows
  BY DEF TableTypes
<1>3. \A i \in ids' : /\ i.id \in Nat /\ i.user \in Nat \ {0}
                      /\ i.type = "phone" => i.union = ""
  BY DEF TableTypes
<1>. QED
  BY <1>2, <1>3 DEF TableTypes

-----------------------------------------------------------------------------
(* What each step does to its request.                                     *)

\* Login: a request that has a code looks its phone up.
LEMMA LoginEffect ==
    ASSUME Typed, NEW r \in Requests, NEW n \in Phones, Login(r, n)
    PROVE  \E new : /\ Set(r, new) /\ Knows(new)
                    /\ new.pc \in {"idle", "find"} /\ new.flow = "none"
<1>t. req[r] = Idle
  BY DEF Typed, ReqTypes, Knows, Login
<1>. DEFINE new == [Idle EXCEPT !.pc = "find", !.phone = n]
<1>1. new \in Caller(ReqPc) /\ new.pc = "find" /\ new.phone = n /\ new.flow = "none"
  BY DEF Idle, Caller, ReqPc, Outcomes
<1>. HIDE DEF new
<1>2. Knows(new)
  BY <1>1 DEF Knows
<1>3. Set(r, new) \/ Set(r, Idle)
  BY <1>t DEF Login, new
<1>. QED
  BY <1>1, <1>2, <1>3, IdleTyped

\* EnsureUserWithIdentity finds the owner of the phone, or goes on to insert one.
LEMMA FindEffect ==
    ASSUME Typed, NEW r \in Requests, EnsureFind(r)
    PROVE  \E new : /\ Set(r, new) /\ Knows(new) /\ new.flow = "none"
                    /\ \/ new.pc = "insert"
                       \/ new.pc = "complete" /\ HasPhone(new.user)
<1>t. /\ req[r] \in Caller(ReqPc) /\ req[r].flow = "none" /\ req[r].phone \in Phones
      /\ \A i \in ids : i.id \in Nat /\ i.user \in Nat
  BY DEF Typed, ReqTypes, TableTypes, Knows, EnsureFind
<1>1. CASE Go(r, "insert")
  <2>. DEFINE new == [req[r] EXCEPT !.pc = "insert"]
  <2>1. new \in Caller(ReqPc) /\ new.pc = "insert" /\ new.flow = "none" /\ new.phone \in Phones
    BY <1>t DEF Caller, ReqPc
  <2>2. Set(r, new)
    BY <1>1 DEF Go
  <2>. HIDE DEF new
  <2>. QED
    BY <2>1, <2>2 DEF Knows
<1>2. ASSUME NEW i \in Phone(req[r].phone),
             Set(r, [req[r] EXCEPT !.pc = "complete", !.user = i.user, !.id = i.id])
      PROVE  \E new : /\ Set(r, new) /\ Knows(new) /\ new.flow = "none"
                      /\ new.pc = "complete" /\ HasPhone(new.user)
  <2>. DEFINE new == [req[r] EXCEPT !.pc = "complete", !.user = i.user, !.id = i.id]
  <2>0. i \in ids /\ i.type = "phone"
    BY DEF Phone, FindByIdentity
  <2>1. new \in Caller(ReqPc) /\ new.pc = "complete" /\ new.flow = "none" /\ new.user = i.user
    BY <1>t, <2>0 DEF Caller, ReqPc
  <2>. HIDE DEF new
  <2>. QED
    BY <1>2, <2>0, <2>1 DEF Knows, HasPhone, new
<1>3. \/ Go(r, "insert")
      \/ \E i \in Phone(req[r].phone) :
            Set(r, [req[r] EXCEPT !.pc = "complete", !.user = i.user, !.id = i.id])
  BY DEF EnsureFind
<1>. QED
  BY <1>1, <1>2, <1>3

\* A conflict sends the request back once.
LEMMA ConflictEffect ==
    ASSUME Typed, NEW r \in Requests, NEW p, Conflict(r, p),
           \/ p = "find" /\ req[r].pc = "insert"
           \/ p = "link" /\ req[r].pc = "linking"
    PROVE  \E new : /\ Set(r, new) /\ Knows(new)
                    /\ \/ new = Idle
                       \/ new.pc = p /\ new.flow = req[r].flow
<1>t. req[r] \in Caller(ReqPc) /\ Knows(req[r])
  BY DEF Typed, ReqTypes
<1>. DEFINE new == [req[r] EXCEPT !.pc = p, !.again = TRUE, !.gone = {}]
<1>1. /\ new \in Caller(ReqPc) /\ new.pc = p /\ new.flow = req[r].flow
      /\ new.phone = req[r].phone
  <2>1. p \in ReqPc
    BY DEF ReqPc
  <2>. QED
    BY <1>t, <2>1 DEF Caller
<1>2. Set(r, new) \/ Set(r, Idle)
  BY DEF Conflict
<1>. HIDE DEF new
<1>3. Knows(new)
  BY <1>t, <1>1 DEF Knows
<1>. QED
  BY <1>1, <1>2, <1>3, IdleTyped

\* EnsureUserWithIdentity inserts the phone with a new user, or meets a conflict.
LEMMA InsertEffect ==
    ASSUME Typed, NEW r \in Requests, EnsureInsert(r)
    PROVE  \E new : /\ Set(r, new) /\ Knows(new) /\ new.flow = "none"
                    /\ \/ new.pc \in {"idle", "find"} /\ UNCHANGED table
                       \/ /\ new.pc = "complete" /\ new.user = serial
                          /\ \E n \in Phones : ids' = ids \cup {Row(serial, "phone", n, "", serial)}
                          /\ serial' = serial + 1
<1>t. /\ req[r] \in Caller(ReqPc) /\ req[r].flow = "none" /\ req[r].phone \in Phones
      /\ serial \in Nat /\ req[r].pc = "insert"
  BY DEF Typed, ReqTypes, TableTypes, Knows, EnsureInsert
<1>1. CASE Conflict(r, "find") /\ UNCHANGED table
  <2>0. req[r].pc = "insert"
    BY <1>t
  <2>1. \E new : /\ Set(r, new) /\ Knows(new)
                 /\ \/ new = Idle
                    \/ new.pc = "find" /\ new.flow = req[r].flow
    BY <1>1, <2>0, ConflictEffect
  <2>. QED
    BY <1>t, <1>1, <2>1, IdleTyped
<1>2. CASE /\ ids' = ids \cup {Row(serial, "phone", req[r].phone, "", serial)}
           /\ serial' = serial + 1
           /\ Set(r, [req[r] EXCEPT !.pc = "complete", !.user = serial, !.id = serial])
  <2>. DEFINE new == [req[r] EXCEPT !.pc = "complete", !.user = serial, !.id = serial]
  <2>1. new \in Caller(ReqPc) /\ new.pc = "complete" /\ new.flow = "none" /\ new.user = serial
    BY <1>t DEF Caller, ReqPc
  <2>2. Set(r, new)
    BY <1>2
  <2>. HIDE DEF new
  <2>3. Knows(new)
    BY <2>1 DEF Knows
  <2>. QED
    BY <1>t, <1>2, <2>1, <2>2, <2>3
<1>. QED
  BY <1>1, <1>2 DEF EnsureInsert

\* completeLogin.
LEMMA CompleteEffect ==
    ASSUME Typed, NEW r \in Requests, CompleteLogin(r)
    PROVE  \E new : /\ Set(r, new) /\ Knows(new)
                    /\ \/ new = Idle /\ UNCHANGED logins
                       \/ /\ new.pc = "in" /\ new.user = req[r].user /\ new.flow = req[r].flow
                          /\ logins' = IF req[r].flow \in Flows
                                       THEN [logins EXCEPT ![req[r].flow] = @ + 1] ELSE logins
<1>t. req[r] \in Caller(ReqPc)
  BY DEF Typed, ReqTypes
<1>. DEFINE new == [req[r] EXCEPT !.pc = "in"]
<1>1. new \in Caller(ReqPc) /\ new.pc = "in" /\ new.user = req[r].user /\ new.flow = req[r].flow
  BY <1>t DEF Caller, ReqPc
<1>2. \/ Set(r, new) /\ logins' = IF req[r].flow \in Flows
                                  THEN [logins EXCEPT ![req[r].flow] = @ + 1] ELSE logins
      \/ Set(r, Idle) /\ UNCHANGED logins
  BY DEF CompleteLogin
<1>. HIDE DEF new
<1>3. Knows(new)
  BY <1>1 DEF Knows
<1>. QED
  BY <1>1, <1>2, <1>3, IdleTyped

\* PollOAuth and ExchangeOAuth take the result or the ticket, and settle with it.
LEMMA TakeEffect ==
    ASSUME Typed, NEW r \in Requests, NEW f \in Flows, PollOAuth(r, f) \/ ExchangeOAuth(r, f)
    PROVE  \E new : /\ Set(r, new) /\ Knows(new)
                    /\ \/ new = Idle
                       \/ /\ new.pc = "settle" /\ new.flow = f
                          /\ new.out = IF PollOAuth(r, f) THEN flow[f].result ELSE flow[f].ticket
<1>t. req[r] = Idle /\ flow[f].result \in Outcomes /\ flow[f].ticket \in Outcomes
  BY DEF Typed, ReqTypes, FlowTypes, FlowRecords, Outcomes, Knows, PollOAuth, ExchangeOAuth
<1>. DEFINE new(out) == [Idle EXCEPT !.pc = "settle", !.flow = f, !.out = out]
<1>1. ASSUME NEW out \in Outcomes
      PROVE  Knows(new(out)) /\ new(out).pc = "settle" /\ new(out).flow = f /\ new(out).out = out
  <2>1. /\ new(out) \in Caller(ReqPc) /\ new(out).pc = "settle" /\ new(out).flow = f
        /\ new(out).out = out
    BY DEF Idle, Caller, ReqPc
  <2>. HIDE DEF new
  <2>. QED
    BY <2>1 DEF Knows
<1>2. IF PollOAuth(r, f) THEN Set(r, new(flow[f].result))
      ELSE Set(r, new(flow[f].ticket)) \/ Set(r, Idle)
  BY <1>t DEF PollOAuth, ExchangeOAuth
<1>. HIDE DEF new
<1>3. CASE PollOAuth(r, f)
  BY <1>t, <1>1, <1>2, <1>3
<1>4. CASE ~PollOAuth(r, f)
  BY <1>t, <1>1, <1>2, <1>4, IdleTyped
<1>. QED
  BY <1>3, <1>4

\* settle ends with a bind ticket, or goes on with an owner who has a phone.
LEMMA SettleEffect ==
    ASSUME Typed, NEW r \in Requests, Settle(r)
    PROVE  \E new : /\ Set(r, new) /\ Knows(new)
                    /\ \/ new = Idle /\ UNCHANGED flow
                       \/ /\ new = Idle /\ req[r].out = "ok"
                          /\ SetFlow(req[r].flow, [flow[req[r].flow] EXCEPT !.bind = TRUE])
                       \/ /\ new.pc \in {"complete", "attach"} /\ new.flow = req[r].flow
                          /\ req[r].out = "ok" /\ HasPhone(new.user) /\ UNCHANGED flow
<1>t. /\ req[r] \in Caller(ReqPc) /\ req[r].flow \in Flows
      /\ \A i \in ids : i.id \in Nat /\ i.user \in Nat \ {0}
  BY DEF Typed, ReqTypes, TableTypes, Knows, Settle
<1>1. CASE \/ Set(r, Idle) /\ UNCHANGED flow
           \/ /\ Set(r, Idle) /\ req[r].out = "ok"
              /\ SetFlow(req[r].flow, [flow[req[r].flow] EXCEPT !.bind = TRUE])
  BY <1>1, IdleTyped
<1>2. ASSUME NEW i \in ids, HasPhone(i.user), req[r].out = "ok", UNCHANGED flow,
             \/ Set(r, [req[r] EXCEPT !.pc = "complete", !.user = i.user, !.id = i.id])
             \/ Set(r, [req[r] EXCEPT !.pc = "attach", !.user = i.user])
      PROVE  \E new : /\ Set(r, new) /\ Knows(new)
                      /\ new.pc \in {"complete", "attach"} /\ new.flow = req[r].flow
                      /\ HasPhone(new.user)
  <2>. DEFINE in == [req[r] EXCEPT !.pc = "complete", !.user = i.user, !.id = i.id]
              on == [req[r] EXCEPT !.pc = "attach", !.user = i.user]
  <2>1. in \in Caller(ReqPc) /\ in.pc = "complete" /\ in.flow = req[r].flow /\ in.user = i.user
    BY <1>t DEF Caller, ReqPc
  <2>2. on \in Caller(ReqPc) /\ on.pc = "attach" /\ on.flow = req[r].flow /\ on.user = i.user
    BY <1>t DEF Caller, ReqPc
  <2>3. Set(r, in) \/ Set(r, on)
    BY <1>2
  <2>. HIDE DEF in, on
  <2>4. Knows(in) /\ Knows(on)
    BY <1>t, <2>1, <2>2 DEF Knows
  <2>. QED
    BY <1>2, <2>1, <2>2, <2>3, <2>4
<1>3. ThirdPartyOwner(req[r].flow) \subseteq ids
  BY DEF ThirdPartyOwner, FindByIdentity, FindByUnionKey
<1>4. \/ Set(r, Idle) /\ UNCHANGED flow
      \/ /\ Set(r, Idle) /\ req[r].out = "ok"
         /\ SetFlow(req[r].flow, [flow[req[r].flow] EXCEPT !.bind = TRUE])
      \/ \E i \in ThirdPartyOwner(req[r].flow) :
            /\ HasPhone(i.user) /\ req[r].out = "ok" /\ UNCHANGED flow
            /\ \/ Set(r, [req[r] EXCEPT !.pc = "complete", !.user = i.user, !.id = i.id])
               \/ Set(r, [req[r] EXCEPT !.pc = "attach", !.user = i.user])
  BY Zenon DEF Settle
<1>. QED
  BY <1>1, <1>2, <1>3, <1>4

\* AttachIdentity adds a row for the owner of the union key, or gives up.
LEMMA AttachEffect ==
    ASSUME Typed, NEW r \in Requests, AttachIdentity(r)
    PROVE  \E new : /\ Set(r, new) /\ Knows(new)
                    /\ \/ new = Idle /\ UNCHANGED table
                       \/ /\ new.pc = "complete" /\ new.flow = req[r].flow
                          /\ new.user = req[r].user
                          /\ \A i \in FindByUnionKey(UnionKey[req[r].flow]) : i.user = req[r].user
                          /\ ids' = ids \cup {Row(serial, "wechat", Subject[req[r].flow],
                                                  UnionKey[req[r].flow], req[r].user)}
                          /\ serial' = serial + 1
<1>t. req[r] \in Caller(ReqPc) /\ serial \in Nat
  BY DEF Typed, ReqTypes, TableTypes
<1>. DEFINE new == [req[r] EXCEPT !.pc = "complete", !.id = serial]
<1>1. /\ new \in Caller(ReqPc) /\ new.pc = "complete" /\ new.flow = req[r].flow
      /\ new.user = req[r].user
  BY <1>t DEF Caller, ReqPc
<1>2. \/ Set(r, Idle) /\ UNCHANGED table
      \/ /\ Set(r, new) /\ serial' = serial + 1
         /\ \A i \in FindByUnionKey(UnionKey[req[r].flow]) : i.user = req[r].user
         /\ ids' = ids \cup {Row(serial, "wechat", Subject[req[r].flow], UnionKey[req[r].flow],
                                 req[r].user)}
  BY DEF AttachIdentity
<1>. HIDE DEF new
<1>3. Knows(new)
  BY <1>1 DEF Knows
<1>. QED
  BY <1>1, <1>2, <1>3, IdleTyped

\* BindPhone up to takeBind.
LEMMA BindEffect ==
    ASSUME Typed, NEW r \in Requests,
           \/ \E f \in Flows, n \in inst.phones : BindPhone(r, f, n)
           \/ BindVerify(r)
    PROVE  \E new : Set(r, new) /\ Knows(new) /\ new.pc \in {"idle", "verify", "take"}
<1>1. ASSUME NEW f \in Flows, NEW n \in inst.phones, BindPhone(r, f, n)
      PROVE  \E new : Set(r, new) /\ Knows(new) /\ new.pc = "verify"
  <2>t. req[r] = Idle /\ n \in Phones
    BY <1>1, SignInAssumption DEF Typed, ReqTypes, FlowTypes, Knows, BindPhone
  <2>. DEFINE new == [Idle EXCEPT !.pc = "verify", !.flow = f, !.phone = n]
  <2>1. new \in Caller(ReqPc) /\ new.pc = "verify" /\ new.flow = f /\ new.phone = n
    BY <2>t DEF Idle, Caller, ReqPc, Outcomes
  <2>2. Set(r, new)
    BY <1>1, <2>t DEF BindPhone
  <2>. HIDE DEF new
  <2>. QED
    BY <2>t, <2>1, <2>2 DEF Knows
<1>2. CASE BindVerify(r)
  <2>t. req[r] \in Caller(ReqPc) /\ req[r].flow \in Flows /\ req[r].phone \in Phones
    BY <1>2 DEF Typed, ReqTypes, Knows, BindVerify
  <2>. DEFINE new == [req[r] EXCEPT !.pc = "take"]
  <2>1. new \in Caller(ReqPc) /\ new.pc = "take" /\ new.flow \in Flows /\ new.phone \in Phones
    BY <2>t DEF Caller, ReqPc
  <2>2. Set(r, new) \/ Set(r, Idle)
    BY <1>2 DEF BindVerify
  <2>. HIDE DEF new
  <2>3. Knows(new)
    BY <2>1 DEF Knows
  <2>. QED
    BY <2>1, <2>2, <2>3, IdleTyped
<1>. QED
  BY <1>1, <1>2

\* takeBind: who gets the ticket goes on.
LEMMA TakeBindEffect ==
    ASSUME Typed, NEW r \in Requests, TakeBind(r)
    PROVE  \E new : /\ Set(r, new) /\ Knows(new)
                    /\ \/ new = Idle
                       \/ new.pc = "link" /\ new.flow = req[r].flow /\ flow[req[r].flow].bind
<1>t. req[r] \in Caller(ReqPc) /\ req[r].flow \in Flows /\ req[r].phone \in Phones
  BY DEF Typed, ReqTypes, Knows, TakeBind
<1>. DEFINE new == [req[r] EXCEPT !.pc = "link"]
<1>1. /\ new \in Caller(ReqPc) /\ new.pc = "link" /\ new.flow = req[r].flow
      /\ new.phone = req[r].phone
  BY <1>t DEF Caller, ReqPc
<1>2. (Set(r, new) /\ flow[req[r].flow].bind) \/ Set(r, Idle)
  BY DEF TakeBind
<1>. HIDE DEF new
<1>3. Knows(new)
  BY <1>t, <1>1 DEF Knows
<1>. QED
  BY <1>1, <1>2, <1>3, IdleTyped

\* linkPhoneOnce: the account, and what is deleted.  No phone is.
LEMMA LinkEffect ==
    ASSUME Typed, NEW r \in Requests, LinkPhone(r)
    PROVE  \E new : /\ Set(r, new) /\ Knows(new)
                    /\ new.pc = "linking" /\ new.flow = req[r].flow
                    /\ new.found => HasPhone(new.user)
                    /\ new.gone = Replaced(new.user, req[r].flow)
<1>t. /\ req[r] \in Caller(ReqPc) /\ req[r].flow \in Flows /\ req[r].phone \in Phones
      /\ ids \subseteq Rows /\ \A i \in ids : i.user \in Nat
  BY DEF Typed, ReqTypes, TableTypes, Knows, LinkPhone
<1>. DEFINE f == req[r].flow
            phone == Phone(req[r].phone)
            found == phone # {}
            cand == IF phone # {} THEN phone ELSE ThirdPartyOwner(f)
<1>1. PICK u \in IF cand = {} THEN {0} ELSE {i.user : i \in cand} :
          Set(r, [req[r] EXCEPT !.pc = "linking", !.user = u, !.found = found,
                                !.gone = Replaced(u, f)])
  BY DEF LinkPhone, LinkPhoneTx
<1>2. /\ phone \subseteq ids /\ ThirdPartyOwner(f) \subseteq ids
      /\ \A i \in phone : i.type = "phone"
  BY DEF Phone, ThirdPartyOwner, FindByIdentity, FindByUnionKey
<1>3. u \in Nat /\ (found => HasPhone(u))
  BY <1>t, <1>2 DEF HasPhone
<1>4. Replaced(u, f) \in SUBSET Rows
  BY <1>t DEF Replaced
<1>5. found \in BOOLEAN
  OBVIOUS
<1>. HIDE DEF found, f
<1>. DEFINE new == [req[r] EXCEPT !.pc = "linking", !.user = u, !.found = found,
                                  !.gone = Replaced(u, f)]
<1>6. /\ new \in Caller(ReqPc) /\ new.pc = "linking" /\ new.flow = req[r].flow
      /\ new.phone = req[r].phone /\ new.user = u /\ new.found = found
      /\ new.gone = Replaced(u, f)
  BY <1>t, <1>3, <1>4, <1>5 DEF Caller, ReqPc
<1>7. Set(r, new)
  BY <1>1
<1>. HIDE DEF new
<1>8. Knows(new)
  BY <1>t, <1>6 DEF Knows
<1>. QED
  BY <1>3, <1>6, <1>7, <1>8 DEF f

\* LinkPhone commits: what it deletes, the phone and the third-party identity it adds.
LEMMA CommitEffect ==
    ASSUME Typed, NEW r \in Requests, LinkCommit(r)
    PROVE  \E new : /\ Set(r, new) /\ Knows(new)
                    /\ \/ new = Idle /\ UNCHANGED table
                       \/ new.pc = "link" /\ new.flow = req[r].flow /\ UNCHANGED table
                       \/ /\ new.pc = "complete" /\ new.flow = req[r].flow
                          /\ new.user = IF req[r].user = 0 THEN serial ELSE req[r].user
                          /\ \E phone, wechat :
                               /\ ids' = (ids \ req[r].gone) \cup phone \cup wechat
                               /\ phone = IF req[r].found THEN {}
                                          ELSE {Row(serial, "phone", req[r].phone, "", new.user)}
                               /\ \/ wechat = {}
                                  \/ wechat = {Row(serial + 1, "wechat", Subject[req[r].flow],
                                                   UnionKey[req[r].flow], new.user)}
                          /\ serial' = serial + 2
<1>t. /\ req[r] \in Caller(ReqPc) /\ req[r].pc = "linking" /\ serial \in Nat
      /\ \A i \in ids : i.id \in Nat
  BY DEF Typed, ReqTypes, TableTypes, LinkCommit
<1>1. CASE Conflict(r, "link") /\ UNCHANGED table
  <2>1. \E new : /\ Set(r, new) /\ Knows(new)
                 /\ \/ new = Idle
                    \/ new.pc = "link" /\ new.flow = req[r].flow
    BY <1>t, <1>1, ConflictEffect
  <2>. QED
    BY <1>1, <2>1
<1>2. CASE ~(Conflict(r, "link") /\ UNCHANGED table)
  <2>. DEFINE f == req[r].flow
              u == IF req[r].user = 0 THEN serial ELSE req[r].user
              kept == ids \ req[r].gone
              phone == IF req[r].found THEN {} ELSE {Row(serial, "phone", req[r].phone, "", u)}
              own == {i \in kept : i.type = "wechat" /\ i.subject = Subject[f]}
              wechat == IF own # {} THEN {}
                        ELSE {Row(serial + 1, "wechat", Subject[f], UnionKey[f], u)}
  <2>1. /\ ids' = kept \cup phone \cup wechat /\ serial' = serial + 2
        /\ \E i \in own \cup wechat :
              Set(r, [req[r] EXCEPT !.pc = "complete", !.user = u, !.id = i.id, !.gone = {}])
    BY <1>2 DEF LinkCommit
  <2>2. PICK i \in own \cup wechat :
              Set(r, [req[r] EXCEPT !.pc = "complete", !.user = u, !.id = i.id, !.gone = {}])
    BY <2>1
  <2>3. i.id \in Nat
    BY <1>t DEF Row
  <2>4. u \in Nat
    BY <1>t DEF Caller
  <2>. HIDE DEF u
  <2>. DEFINE new == [req[r] EXCEPT !.pc = "complete", !.user = u, !.id = i.id, !.gone = {}]
  <2>5. new \in Caller(ReqPc) /\ new.pc = "complete" /\ new.flow = req[r].flow /\ new.user = u
    BY <1>t, <2>3, <2>4 DEF Caller, ReqPc
  <2>6. Set(r, new)
    BY <2>2
  <2>. HIDE DEF new
  <2>7. Knows(new)
    BY <2>5 DEF Knows
  <2>8. \/ wechat = {}
        \/ wechat = {Row(serial + 1, "wechat", Subject[req[r].flow], UnionKey[req[r].flow], new.user)}
    BY <2>5
  <2>9. phone = IF req[r].found THEN {} ELSE {Row(serial, "phone", req[r].phone, "", new.user)}
    BY <2>5
  <2>10. new.user = IF req[r].user = 0 THEN serial ELSE req[r].user
    BY <2>5 DEF u
  <2>. HIDE DEF phone, wechat
  <2>. QED
    BY <2>1, <2>5, <2>6, <2>7, <2>8, <2>9, <2>10
<1>. QED
  BY <1>1, <1>2

-----------------------------------------------------------------------------
(* The invariants                                                          *)

\* The transaction of LinkPhone deletes what others have of the union key it locked, and
\* nobody adds to that key before it commits.
LinkOwns ==
    \A r \in Requests :
        /\ req[r].pc = "linking" /\ UnionKey[req[r].flow] # ""
        => \A i \in ids \ req[r].gone :
              i.union = UnionKey[req[r].flow] => i.user = req[r].user

LinkExclusive ==
    \A r, q \in Requests :
        /\ req[r].pc = "linking" /\ req[q].pc = "linking"
        /\ UnionKey[req[r].flow] # "" /\ UnionKey[req[r].flow] = UnionKey[req[q].flow]
        => r = q

UnionInv == LinkOwns /\ LinkExclusive /\ UnionKeyOneOwner

\* One callback has the flow: who claims it finds it unclaimed, and the claim lasts until
\* no callback can come any more.
Over(f) == \A c \in Callbacks : cb[c].flow = f => cb[c].pc \in {"done", "expired"}
ClaimInv ==
    /\ \A f \in Flows : exchanged[f] >= 1 => flow[f].done \/ (~flow[f].state /\ Over(f))
    /\ \A c \in Callbacks : cb[c].pc \in {"exchange", "deliver"} => flow[cb[c].flow].done
    /\ \A c, d \in Callbacks :
          /\ cb[c].pc \in {"exchange", "deliver"} /\ cb[d].pc \in {"exchange", "deliver"}
          /\ cb[c].flow = cb[d].flow
          => c = d
    /\ \A c \in Callbacks : cb[c].pc = "exchange" => exchanged[cb[c].flow] = 0
    /\ \A f \in Flows : exchanged[f] <= 1

\* Where the right to log in with flow f can be: with the callback that exchanged the
\* provider's code, under a key of Redis, with a request, or spent.
Kinds == {"callback", "request", "result", "ticket", "bind", "login"}
Places == Callbacks \cup Requests \cup {"key"}
ReqHolds(s, f) ==
    /\ s.flow = f
    /\ \/ s.pc = "settle" /\ s.out = "ok"
       \/ s.pc \in {"attach", "link", "linking", "complete"}
Holds(f, k, x) ==
    \/ /\ k = "callback" /\ x \in Callbacks
       /\ cb[x].pc = "deliver" /\ cb[x].out = "ok" /\ cb[x].flow = f
    \/ k = "request" /\ x \in Requests /\ ReqHolds(req[x], f)
    \/ k = "result" /\ x = "key" /\ flow[f].result = "ok"
    \/ k = "ticket" /\ x = "key" /\ flow[f].ticket = "ok"
    \/ k = "bind" /\ x = "key" /\ flow[f].bind
    \/ k = "login" /\ x = "key" /\ logins[f] # 0

OneHolder ==
    \A f \in Flows :
        /\ logins[f] <= 1
        /\ \A k \in Kinds, x \in Places : Holds(f, k, x) => exchanged[f] >= 1
        /\ \A k, l \in Kinds, x, y \in Places :
              Holds(f, k, x) /\ Holds(f, l, y) => k = l /\ x = y

\* Who is let in has a phone: the deletes of LinkPhone spare phones.
PhoneInv ==
    \A r \in Requests :
        /\ req[r].pc \in {"attach", "complete", "in"} => HasPhone(req[r].user)
        /\ req[r].pc = "linking" =>
             /\ req[r].found => HasPhone(req[r].user)
             /\ \A i \in req[r].gone : i.type # "phone"

Inv == Typed /\ UnionInv /\ ClaimInv /\ OneHolder /\ PhoneInv

\* The right to log in stays where it is, or is lost.
LEMMA NotHanded ==
    ASSUME OneHolder, UNCHANGED <<exchanged, logins>>,
           \A f \in Flows, k \in Kinds, x \in Places : Holds(f, k, x)' => Holds(f, k, x)
    PROVE  OneHolder'
BY DEF OneHolder

\* The right to log in with f passes from one place to another.
LEMMA Handed ==
    ASSUME OneHolder, NEW f \in Flows, NEW j \in Kinds, NEW z \in Places, Holds(f, j, z),
           NEW l \in Kinds, NEW y \in Places, UNCHANGED exchanged,
           \A g \in Flows : logins'[g] <= 1,
           \A g \in Flows, k \in Kinds, x \in Places :
              Holds(g, k, x)' => IF g = f THEN k = l /\ x = y ELSE Holds(g, k, x)
    PROVE  OneHolder'
BY DEF OneHolder

\* A request moves on with what it had.
LEMMA MovesHolder ==
    ASSUME Typed, OneHolder, NEW r \in Requests, NEW new, Knows(new), Set(r, new),
           UNCHANGED <<cb, flow, exchanged, logins>>,
           \A f \in Flows : ReqHolds(new, f) => ReqHolds(req[r], f)
    PROVE  OneHolder'
<1>1. req'[r] = new /\ \A q \in Requests : q # r => req'[q] = req[q]
  BY SetTyped DEF Typed
<1>2. ASSUME NEW f \in Flows, NEW k \in Kinds, NEW x \in Places, Holds(f, k, x)'
      PROVE  Holds(f, k, x)
  <2>1. CASE k = "request"
    <3>1. x \in Requests /\ ReqHolds(req'[x], f)
      BY <1>2, <2>1 DEF Holds, ReqHolds
    <3>2. ReqHolds(req[x], f)
      BY <1>1, <3>1
    <3>. QED
      BY <2>1, <3>1, <3>2 DEF Holds
  <2>2. CASE k # "request"
    BY <1>2, <2>2 DEF Holds
  <2>. QED
    BY <2>1, <2>2
<1>. QED
  BY <1>2, NotHanded

\* The claim of a callback is not touched.
LEMMA ClaimKept ==
    ASSUME ClaimInv, UNCHANGED <<cb, exchanged>>,
           \A f \in Flows : flow'[f].done = flow[f].done /\ (flow'[f].state => flow[f].state),
           \A c \in Callbacks : cb[c].pc \in {"exchange", "deliver"} => cb[c].flow \in Flows
    PROVE  ClaimInv'
BY DEF ClaimInv, Over

\* A request that does not link, with the table as it was.
LEMMA MovesUnion ==
    ASSUME Typed, UnionInv, NEW r \in Requests, NEW new, Knows(new), Set(r, new),
           UNCHANGED ids, new.pc # "linking"
    PROVE  UnionInv'
<1>1. req'[r] = new /\ \A q \in Requests : q # r => req'[q] = req[q]
  BY SetTyped DEF Typed
<1>2. \A q \in Requests : req'[q].pc = "linking" => q # r /\ req'[q] = req[q]
  BY <1>1
<1>3. LinkOwns'
  <2>. SUFFICES ASSUME NEW q \in Requests, req'[q].pc = "linking", UnionKey[req'[q].flow] # "",
                       NEW i \in ids' \ req'[q].gone, i.union = UnionKey[req'[q].flow]
                PROVE  i.user = req'[q].user
    BY DEF LinkOwns
  <2>. QED
    BY <1>2 DEF UnionInv, LinkOwns
<1>4. LinkExclusive'
  BY <1>2 DEF UnionInv, LinkExclusive
<1>. QED
  BY <1>3, <1>4 DEF UnionInv, UnionKeyOneOwner

\* A request that goes on without touching the identities keeps what it knows of the phone.
LEMMA MovesPhone ==
    ASSUME Typed, PhoneInv, NEW r \in Requests, NEW new, Knows(new), Set(r, new),
           UNCHANGED ids, new.pc # "linking",
           new.pc \in {"attach", "complete", "in"} => HasPhone(new.user)
    PROVE  PhoneInv'
<1>1. req'[r] = new /\ \A q \in Requests : q # r => req'[q] = req[q]
  BY SetTyped DEF Typed
<1>2. \A u : HasPhone(u)' = HasPhone(u)
  BY DEF HasPhone
<1>. QED
  BY <1>1, <1>2 DEF PhoneInv

\* What most steps of a request are: flows and table stay, and the request moves to a place
\* that it had a right to.
LEMMA Moves ==
    ASSUME Inv, NEW r \in Requests, NEW new, Knows(new), Set(r, new),
           UNCHANGED <<inst, flow, cb, ids, serial, exchanged, logins>>, new.pc # "linking",
           new.pc \in {"attach", "complete", "in"} => HasPhone(new.user),
           \A f \in Flows : ReqHolds(new, f) => ReqHolds(req[r], f)
    PROVE  Inv'
<1>1. Typed /\ UnionInv /\ ClaimInv /\ OneHolder /\ PhoneInv
  BY DEF Inv
<1>2. Typed'
  <2>1. ReqTypes'
    BY <1>1, SetTyped DEF Typed
  <2>2. FlowTypes'
    BY <1>1 DEF Typed, FlowTypes
  <2>3. TableTypes'
    BY <1>1 DEF Typed, TableTypes
  <2>. QED
    BY <2>1, <2>2, <2>3 DEF Typed
<1>3. ClaimInv'
  BY <1>1, ClaimKept DEF Typed, FlowTypes
<1>4. UnionInv'
  BY <1>1, MovesUnion
<1>5. OneHolder'
  BY <1>1, MovesHolder
<1>6. PhoneInv'
  BY <1>1, MovesPhone
<1>. QED
  BY <1>2, <1>3, <1>4, <1>5, <1>6 DEF Inv

-----------------------------------------------------------------------------
(* Requests                                                                *)

\* Login with a code up to the look-up, BindPhone up to takeBind, and failures.
LEMMA PlainKeeps ==
    ASSUME Inv, NEW r \in Requests, UNCHANGED inst,
           \/ \E n \in Phones : Login(r, n)
           \/ EnsureFind(r)
           \/ \E f \in Flows, n \in inst.phones : BindPhone(r, f, n)
           \/ BindVerify(r)
           \/ Fail(r)
    PROVE  Inv'
<1>t. Typed
  BY DEF Inv
<1>n. "none" \notin Flows
  BY SignInAssumption
<1>1. UNCHANGED <<flow, cb, ids, serial, exchanged, logins>>
  BY DEF Login, EnsureFind, BindPhone, BindVerify, Fail, table, history
<1>2. \E new : /\ Set(r, new) /\ Knows(new)
               /\ \/ new.pc \in {"idle", "find", "insert", "verify", "take"}
                  \/ new.pc = "complete" /\ new.flow = "none" /\ HasPhone(new.user)
  <2>1. ASSUME NEW n \in Phones, Login(r, n)
        PROVE  \E new : Set(r, new) /\ Knows(new) /\ new.pc \in {"idle", "find"}
    BY <1>t, <2>1, LoginEffect
  <2>2. CASE EnsureFind(r)
    BY <1>t, <2>2, FindEffect
  <2>3. CASE (\E f \in Flows, n \in inst.phones : BindPhone(r, f, n)) \/ BindVerify(r)
    BY <1>t, <2>3, BindEffect
  <2>4. CASE Fail(r)
    BY <2>4, IdleTyped DEF Fail
  <2>. QED
    BY <2>1, <2>2, <2>3, <2>4
<1>3. PICK new : /\ Set(r, new) /\ Knows(new)
                 /\ \/ new.pc \in {"idle", "find", "insert", "verify", "take"}
                    \/ new.pc = "complete" /\ new.flow = "none" /\ HasPhone(new.user)
  BY <1>2
<1>4. \A f \in Flows : ~ReqHolds(new, f)
  BY <1>n, <1>3 DEF ReqHolds
<1>. QED
  BY <1>1, <1>3, <1>4, Moves

\* A step of a request that writes the table, seen from the other requests: phones stay,
\* and a union key that somebody has locked gets no new row.
LEMMA WritesTable ==
    ASSUME Inv, NEW r \in Requests, NEW new, Knows(new), Set(r, new), TableTypes',
           UNCHANGED <<inst, flow, cb, exchanged, logins>>, UnionKeyOneOwner',
           new.pc = "complete", HasPhone(new.user)', new.flow = "none" \/ ReqHolds(req[r], new.flow),
           \A i \in ids : i.type = "phone" => i \in ids',
           \A i \in ids' \ ids, q \in Requests :
              q # r /\ req[q].pc = "linking" /\ i.union # "" => i.union # UnionKey[req[q].flow]
    PROVE  Inv'
<1>1. Typed /\ UnionInv /\ ClaimInv /\ OneHolder /\ PhoneInv
  BY DEF Inv
<1>2. ReqTypes' /\ req'[r] = new /\ \A q \in Requests : q # r => req'[q] = req[q]
  BY <1>1, SetTyped DEF Typed
<1>3. Typed'
  <2>1. FlowTypes'
    BY <1>1 DEF Typed, FlowTypes
  <2>. QED
    BY <1>2, <2>1 DEF Typed
<1>4. ClaimInv'
  BY <1>1, ClaimKept DEF Typed, FlowTypes
<1>5. OneHolder'
  <2>1. \A f \in Flows : ReqHolds(new, f) => ReqHolds(req[r], f)
    <3>1. ASSUME NEW f \in Flows, ReqHolds(new, f) PROVE ReqHolds(req[r], f)
      <4>1. new.flow = f
        BY <3>1 DEF ReqHolds
      <4>. QED
        BY <4>1, SignInAssumption
    <3>. QED
      BY <3>1
  <2>. QED
    BY <1>1, <2>1, MovesHolder
<1>6. UnionInv'
  <2>0. \A q \in Requests : req'[q].pc = "linking" => q # r /\ req'[q] = req[q]
    BY <1>2
  <2>1. LinkOwns'
    <3>. SUFFICES ASSUME NEW q \in Requests, req'[q].pc = "linking", UnionKey[req'[q].flow] # "",
                         NEW i \in ids' \ req'[q].gone, i.union = UnionKey[req'[q].flow]
                  PROVE  i.user = req'[q].user
      BY DEF LinkOwns
    <3>0. q # r /\ req'[q] = req[q] /\ req[q].pc = "linking"
      BY <2>0
    <3>1. i \in ids
      BY <3>0
    <3>. QED
      BY <1>1, <3>0, <3>1 DEF UnionInv, LinkOwns
  <2>2. LinkExclusive'
    BY <1>1, <2>0 DEF UnionInv, LinkExclusive
  <2>. QED
    BY <2>1, <2>2 DEF UnionInv
<1>7. PhoneInv'
  <2>. DEFINE Has(u) == \E i \in ids' : i.user = u /\ i.type = "phone"
  <2>1. \A u : HasPhone(u) => Has(u)
    BY DEF HasPhone
  <2>2. Has(req'[r].user) /\ req'[r].pc = "complete"
    BY <1>2 DEF HasPhone
  <2>. HIDE DEF Has
  <2>3. ASSUME NEW q \in Requests
        PROVE  /\ req'[q].pc \in {"attach", "complete", "in"} => Has(req'[q].user)
               /\ req'[q].pc = "linking" =>
                    /\ req'[q].found => Has(req'[q].user)
                    /\ \A i \in req'[q].gone : i.type # "phone"
    <3>1. CASE q = r
      BY <2>2, <3>1
    <3>2. CASE q # r
      <4>1. req'[q] = req[q]
        BY <1>2, <3>2
      <4>2. /\ req[q].pc \in {"attach", "complete", "in"} => HasPhone(req[q].user)
            /\ req[q].pc = "linking" =>
                      /\ req[q].found => HasPhone(req[q].user)
                      /\ \A i \in req[q].gone : i.type # "phone"
        BY <1>1 DEF PhoneInv
      <4>. QED
        BY <2>1, <4>1, <4>2
    <3>. QED
      BY <3>1, <3>2
  <2>. QED
    BY <2>3 DEF PhoneInv, HasPhone, Has
<1>. QED
  BY <1>3, <1>4, <1>5, <1>6, <1>7 DEF Inv

\* EnsureUserWithIdentity inserts a phone, which has no union key.
LEMMA InsertKeeps ==
    ASSUME Inv, NEW r \in Requests, UNCHANGED inst, EnsureInsert(r)
    PROVE  Inv'
<1>1. Typed /\ UnionInv
  BY DEF Inv
<1>2. UNCHANGED <<flow, cb, exchanged, logins>>
  BY DEF EnsureInsert, history
<1>3. PICK new : /\ Set(r, new) /\ Knows(new) /\ new.flow = "none"
                 /\ \/ new.pc \in {"idle", "find"} /\ UNCHANGED table
                    \/ /\ new.pc = "complete" /\ new.user = serial
                       /\ \E n \in Phones : ids' = ids \cup {Row(serial, "phone", n, "", serial)}
                       /\ serial' = serial + 1
  BY <1>1, InsertEffect
<1>4. CASE new.pc \in {"idle", "find"} /\ UNCHANGED table
  <2>1. \A f \in Flows : ~ReqHolds(new, f)
    BY <1>4 DEF ReqHolds
  <2>. QED
    BY <1>2, <1>3, <1>4, <2>1, Moves DEF table
<1>5. ASSUME NEW n \in Phones, ids' = ids \cup {Row(serial, "phone", n, "", serial)},
             new.pc = "complete", new.user = serial, serial' = serial + 1
      PROVE  Inv'
  <2>. DEFINE row == Row(serial, "phone", n, "", serial)
  <2>0. serial \in Nat \ {0}
    BY <1>1 DEF Typed, TableTypes
  <2>1. /\ row \in Rows /\ row.id = serial /\ row.user = serial /\ row.type = "phone"
        /\ row.union = ""
    BY <2>0, RowTyped DEF Row
  <2>. HIDE DEF row
  <2>2. ids' = ids \cup {row}
    BY <1>5 DEF row
  <2>s. serial' \in Nat \ {0}
    <3>1. serial' = serial + 1
      BY <1>5
    <3>. QED
      BY <2>0, <3>1
  <2>3. TableTypes'
    BY <1>1, <2>0, <2>1, <2>2, <2>s, RowAdded DEF Typed
  <2>4. UnionKeyOneOwner'
    BY <1>1, <2>1, <2>2 DEF UnionInv, UnionKeyOneOwner
  <2>5. HasPhone(new.user)'
    BY <1>5, <2>1, <2>2 DEF HasPhone
  <2>6. \A i \in ids' \ ids : i.union = ""
    BY <2>1, <2>2
  <2>. QED
    BY <1>2, <1>3, <1>5, <2>2, <2>3, <2>4, <2>5, <2>6, WritesTable
<1>. QED
  BY <1>3, <1>4, <1>5

\* AttachIdentity adds a row to a union key that is its user's and that nobody has locked.
LEMMA AttachKeeps ==
    ASSUME Inv, NEW r \in Requests, UNCHANGED inst, AttachIdentity(r)
    PROVE  Inv'
<1>1. Typed /\ UnionInv /\ PhoneInv
  BY DEF Inv
<1>2. /\ UNCHANGED <<flow, cb, exchanged, logins>> /\ req[r].pc = "attach"
      /\ ~UnionLocked(UnionKey[req[r].flow])
  BY DEF AttachIdentity, history
<1>3. /\ req[r].flow \in Flows /\ req[r].user \in Nat \ {0} /\ serial \in Nat \ {0}
  <2>1. Knows(req[r])
    BY <1>1 DEF Typed, ReqTypes
  <2>. QED
    BY <1>1, <1>2, <2>1 DEF Typed, TableTypes, Knows, Caller
<1>. DEFINE row == Row(serial, "wechat", Subject[req[r].flow], UnionKey[req[r].flow], req[r].user)
<1>4. PICK new : /\ Set(r, new) /\ Knows(new)
                 /\ \/ new = Idle /\ UNCHANGED table
                    \/ /\ new.pc = "complete" /\ new.flow = req[r].flow
                       /\ new.user = req[r].user
                       /\ \A i \in FindByUnionKey(UnionKey[req[r].flow]) : i.user = req[r].user
                       /\ ids' = ids \cup {row}
                       /\ serial' = serial + 1
  BY <1>1, AttachEffect
<1>5. CASE new = Idle /\ UNCHANGED table
  <2>1. \A f \in Flows : ~ReqHolds(new, f)
    BY <1>5, IdleTyped DEF ReqHolds
  <2>. QED
    BY <1>2, <1>4, <1>5, <2>1, IdleTyped, Moves DEF table
<1>6. CASE /\ new.pc = "complete" /\ new.flow = req[r].flow
           /\ new.user = req[r].user
           /\ \A i \in FindByUnionKey(UnionKey[req[r].flow]) : i.user = req[r].user
           /\ ids' = ids \cup {row}
           /\ serial' = serial + 1
  <2>1. /\ row \in Rows /\ row.id = serial /\ row.user = req[r].user /\ row.type = "wechat"
        /\ row.union = UnionKey[req[r].flow]
    BY <1>3, RowTyped DEF Row
  <2>. HIDE DEF row
  <2>s. serial' \in Nat \ {0}
    BY <1>3, <1>6
  <2>3. TableTypes'
    BY <1>1, <1>3, <1>6, <2>1, <2>s, RowAdded DEF Typed
  <2>4. UnionKeyOneOwner'
    <3>1. \A i \in ids : i.union = row.union /\ row.union # "" => i.user = row.user
      BY <1>6, <2>1 DEF FindByUnionKey
    <3>. QED
      BY <1>1, <1>6, <3>1 DEF UnionInv, UnionKeyOneOwner
  <2>5. HasPhone(new.user)'
    BY <1>1, <1>2, <1>6 DEF PhoneInv, HasPhone
  <2>6. \A i \in ids' \ ids, q \in Requests :
              q # r /\ req[q].pc = "linking" /\ i.union # "" => i.union # UnionKey[req[q].flow]
    BY <1>2, <1>6, <2>1 DEF UnionLocked, Linking
  <2>7. ReqHolds(req[r], new.flow)
    BY <1>2, <1>6 DEF ReqHolds
  <2>8. \A i \in ids : i.type = "phone" => i \in ids'
    BY <1>6
  <2>. QED
    BY <1>2, <1>4, <1>6, <2>3, <2>4, <2>5, <2>6, <2>7, <2>8, WritesTable
<1>. QED
  BY <1>4, <1>5, <1>6

\* linkPhoneOnce locks a union key nobody else has locked; what others have of it goes.
LEMMA LinkKeeps ==
    ASSUME Inv, NEW r \in Requests, UNCHANGED inst, LinkPhone(r)
    PROVE  Inv'
<1>1. Typed /\ UnionInv /\ ClaimInv /\ OneHolder /\ PhoneInv
  BY DEF Inv
<1>2. /\ UNCHANGED <<flow, cb, ids, serial, exchanged, logins>> /\ req[r].pc = "link"
      /\ ~UnionLocked(UnionKey[req[r].flow])
  BY DEF LinkPhone, history, table
<1>3. PICK new : /\ Set(r, new) /\ Knows(new)
                 /\ new.pc = "linking" /\ new.flow = req[r].flow
                 /\ new.found => HasPhone(new.user)
                 /\ new.gone = Replaced(new.user, req[r].flow)
  BY <1>1, LinkEffect
<1>4. ReqTypes' /\ req'[r] = new /\ \A q \in Requests : q # r => req'[q] = req[q]
  BY <1>1, <1>3, SetTyped DEF Typed
<1>5. Typed'
  <2>1. FlowTypes'
    BY <1>1, <1>2 DEF Typed, FlowTypes
  <2>2. TableTypes'
    BY <1>1, <1>2 DEF Typed, TableTypes
  <2>. QED
    BY <1>4, <2>1, <2>2 DEF Typed
<1>6. ClaimInv'
  BY <1>1, <1>2, ClaimKept DEF Typed, FlowTypes
<1>7. OneHolder'
  <2>1. \A f \in Flows : ReqHolds(new, f) => ReqHolds(req[r], f)
    BY <1>2, <1>3 DEF ReqHolds
  <2>. QED
    BY <1>1, <1>2, <1>3, <2>1, MovesHolder
<1>8. UnionInv'
  <2>1. LinkOwns'
    <3>. SUFFICES ASSUME NEW q \in Requests, req'[q].pc = "linking", UnionKey[req'[q].flow] # "",
                         NEW i \in ids' \ req'[q].gone, i.union = UnionKey[req'[q].flow]
                  PROVE  i.user = req'[q].user
      BY DEF LinkOwns
    <3>0. i \in ids
      BY <1>2
    <3>1. CASE q = r
      <4>1. /\ UnionKey[req[r].flow] # "" /\ i.union = UnionKey[req[r].flow]
            /\ i \notin Replaced(new.user, req[r].flow) /\ req'[q].user = new.user
        BY <1>3, <1>4, <3>1
      <4>. QED
        BY <3>0, <4>1 DEF Replaced
    <3>2. CASE q # r
      BY <1>1, <1>4, <3>0, <3>2 DEF UnionInv, LinkOwns
    <3>. QED
      BY <3>1, <3>2
  <2>2. LinkExclusive'
    <3>1. \A q \in Requests : /\ q # r /\ req[q].pc = "linking" /\ UnionKey[req[q].flow] # ""
                              => UnionKey[req[q].flow] # UnionKey[req[r].flow]
      BY <1>2 DEF UnionLocked, Linking
    <3>2. req'[r].flow = req[r].flow
      BY <1>3, <1>4
    <3>3. ASSUME NEW p \in Requests, NEW q \in Requests, p # q, UnionKey[req'[p].flow] # "",
                 req'[p].pc = "linking", req'[q].pc = "linking",
                 UnionKey[req'[p].flow] = UnionKey[req'[q].flow]
          PROVE  FALSE
      <4>1. CASE p # r /\ q # r
        BY <1>1, <1>4, <3>3, <4>1 DEF UnionInv, LinkExclusive
      <4>2. CASE p = r
        BY <1>4, <3>1, <3>2, <3>3, <4>2
      <4>3. CASE q = r
        BY <1>4, <3>1, <3>2, <3>3, <4>3
      <4>. QED
        BY <4>1, <4>2, <4>3
    <3>. QED
      BY <3>3 DEF LinkExclusive
  <2>3. UnionKeyOneOwner'
    BY <1>1, <1>2 DEF UnionInv, UnionKeyOneOwner
  <2>. QED
    BY <2>1, <2>2, <2>3 DEF UnionInv
<1>9. PhoneInv'
  <2>1. \A i \in new.gone : i.type # "phone"
    <3>1. \A i \in ids : i.type = "phone" => i.union = ""
      BY <1>1 DEF Typed, TableTypes
    <3>. QED
      BY <1>3, <3>1 DEF Replaced
  <2>2. \A u : HasPhone(u) = \E i \in ids' : i.user = u /\ i.type = "phone"
    BY <1>2 DEF HasPhone
  <2>3. ASSUME NEW q \in Requests
        PROVE  /\ req'[q].pc \in {"attach", "complete", "in"} => HasPhone(req'[q].user)
               /\ req'[q].pc = "linking" =>
                    /\ req'[q].found => HasPhone(req'[q].user)
                    /\ \A i \in req'[q].gone : i.type # "phone"
    <3>1. CASE q = r
      BY <1>3, <1>4, <2>1, <3>1
    <3>2. CASE q # r
      BY <1>1, <1>4, <3>2 DEF PhoneInv
    <3>. QED
      BY <3>1, <3>2
  <2>. QED
    BY <1>2, <2>3 DEF PhoneInv, HasPhone
<1>. QED
  BY <1>5, <1>6, <1>7, <1>8, <1>9 DEF Inv

\* LinkPhone commits.  What is left of its union key, and what it adds, is of its account.
LEMMA CommitKeeps ==
    ASSUME Inv, NEW r \in Requests, UNCHANGED inst, LinkCommit(r)
    PROVE  Inv'
<1>1. Typed /\ UnionInv /\ PhoneInv
  BY DEF Inv
<1>2. UNCHANGED <<flow, cb, exchanged, logins>> /\ req[r].pc = "linking"
  BY DEF LinkCommit, history
<1>3. /\ req[r].flow \in Flows /\ req[r].phone \in Phones /\ req[r].user \in Nat
      /\ serial \in Nat \ {0}
  <2>1. Knows(req[r])
    BY <1>1 DEF Typed, ReqTypes
  <2>. QED
    BY <1>1, <1>2, <2>1 DEF Typed, TableTypes, Knows, Caller
<1>. DEFINE Added(new, phone, wechat) ==
              /\ ids' = (ids \ req[r].gone) \cup phone \cup wechat
              /\ phone = IF req[r].found THEN {}
                         ELSE {Row(serial, "phone", req[r].phone, "", new.user)}
              /\ \/ wechat = {}
                 \/ wechat = {Row(serial + 1, "wechat", Subject[req[r].flow],
                                  UnionKey[req[r].flow], new.user)}
            Stays(new) == new = Idle \/ (new.pc = "link" /\ new.flow = req[r].flow)
            Goes(new) == /\ new.pc = "complete" /\ new.flow = req[r].flow
                         /\ new.user = IF req[r].user = 0 THEN serial ELSE req[r].user
<1>4. PICK new : /\ Set(r, new) /\ Knows(new)
                 /\ \/ Stays(new) /\ UNCHANGED table
                    \/ /\ Goes(new) /\ serial' = serial + 2
                       /\ \E phone, wechat : Added(new, phone, wechat)
  BY <1>1, CommitEffect
<1>5. CASE Stays(new) /\ UNCHANGED table
  <2>1. \A f \in Flows : ReqHolds(new, f) => ReqHolds(req[r], f)
    BY <1>2, <1>5, IdleTyped DEF ReqHolds
  <2>2. new.pc \in {"idle", "link"}
    BY <1>5, IdleTyped
  <2>. QED
    BY <1>2, <1>4, <1>5, <2>1, <2>2, Moves DEF table
<1>6. ASSUME NEW phone, NEW wechat, Goes(new), Added(new, phone, wechat), serial' = serial + 2
      PROVE  Inv'
  <2>0. new.user \in Nat \ {0} /\ serial + 1 \in Nat
    <3>1. new.user = IF req[r].user = 0 THEN serial ELSE req[r].user
      BY <1>6
    <3>. QED
      BY <1>3, <3>1
  <2>1. \A i \in phone : /\ i \in Rows /\ i.id \in Nat /\ i.user = new.user /\ i.type = "phone"
                         /\ i.union = ""
    <3>. DEFINE row == Row(serial, "phone", req[r].phone, "", new.user)
    <3>1. row \in Rows
      BY <1>3, <2>0, RowTyped
    <3>2. /\ row.id = serial /\ row.user = new.user /\ row.type = "phone" /\ row.union = ""
      BY DEF Row
    <3>3. \A i \in phone : i = row
      BY <1>6
    <3>. HIDE DEF row
    <3>. QED
      BY <1>3, <3>1, <3>2, <3>3
  <2>2. \A i \in wechat : /\ i \in Rows /\ i.id \in Nat /\ i.user = new.user /\ i.type = "wechat"
                          /\ i.union = UnionKey[req[r].flow]
    <3>. DEFINE row == Row(serial + 1, "wechat", Subject[req[r].flow], UnionKey[req[r].flow],
                           new.user)
    <3>1. row \in Rows
      BY <1>3, <2>0, RowTyped
    <3>2. /\ row.id = serial + 1 /\ row.user = new.user /\ row.type = "wechat"
          /\ row.union = UnionKey[req[r].flow]
      BY DEF Row
    <3>3. \A i \in wechat : i = row
      BY <1>6
    <3>. HIDE DEF row
    <3>. QED
      BY <2>0, <3>1, <3>2, <3>3
  <2>3. TableTypes'
    <3>1. serial' \in Nat \ {0}
      <4>1. serial' = serial + 2
        BY <1>6
      <4>. QED
        BY <1>3, <4>1
    <3>2. ids' \subseteq Rows
      BY <1>1, <1>6, <2>1, <2>2 DEF Typed, TableTypes
    <3>3. \A i \in ids' : /\ i.id \in Nat /\ i.user \in Nat \ {0}
                          /\ i.type = "phone" => i.union = ""
      <4>1. \A i \in ids' : i \in ids \/ i \in phone \/ i \in wechat
        BY <1>6
      <4>2. \A i \in ids : /\ i.id \in Nat /\ i.user \in Nat \ {0}
                           /\ i.type = "phone" => i.union = ""
        BY <1>1 DEF Typed, TableTypes
      <4>. QED
        BY <2>0, <2>1, <2>2, <4>1, <4>2
    <3>. QED
      BY <3>1, <3>2, <3>3 DEF TableTypes
  <2>4. UnionKeyOneOwner'
    <3>0. \A i \in ids : i.user # 0
      BY <1>1 DEF Typed, TableTypes
    <3>1. \A i \in ids \ req[r].gone :
              i.union # "" /\ i.union = UnionKey[req[r].flow] => i.user = new.user
      BY <1>1, <1>2, <1>6, <3>0 DEF UnionInv, LinkOwns
    <3>2. \A i \in ids' : i.union # "" => i \in ids \ req[r].gone \/ i \in wechat
      BY <1>6, <2>1
    <3>3. \A i, j \in ids : i.union # "" /\ i.union = j.union => i.user = j.user
      BY <1>1 DEF UnionInv, UnionKeyOneOwner
    <3>. QED
      BY <2>2, <3>1, <3>2, <3>3 DEF UnionKeyOneOwner
  <2>5. \A i \in ids : i.type = "phone" => i \in ids'
    BY <1>1, <1>2, <1>6 DEF PhoneInv
  <2>6. HasPhone(new.user)'
    <3>1. CASE req[r].found
      <4>1. HasPhone(req[r].user)
        BY <1>1, <1>2, <3>1 DEF PhoneInv
      <4>2. req[r].user # 0
        BY <1>1, <4>1 DEF HasPhone, Typed, TableTypes
      <4>. QED
        BY <1>6, <2>5, <4>1, <4>2 DEF HasPhone
    <3>2. CASE ~req[r].found
      <4>1. \E i \in phone : TRUE
        BY <1>6, <3>2
      <4>2. phone \subseteq ids'
        BY <1>6
      <4>. QED
        BY <2>1, <4>1, <4>2 DEF HasPhone
    <3>. QED
      BY <3>1, <3>2
  <2>7. \A i \in ids' \ ids, q \in Requests :
              q # r /\ req[q].pc = "linking" /\ i.union # "" => i.union # UnionKey[req[q].flow]
    <3>1. \A i \in ids' \ ids : i.union = "" \/ i.union = UnionKey[req[r].flow]
      BY <1>6, <2>1, <2>2
    <3>. QED
      BY <1>1, <1>2, <3>1 DEF UnionInv, LinkExclusive
  <2>8. ReqHolds(req[r], new.flow)
    BY <1>2, <1>6 DEF ReqHolds
  <2>. QED
    BY <1>2, <1>4, <1>6, <2>3, <2>4, <2>5, <2>6, <2>7, <2>8, WritesTable
<1>. HIDE DEF Stays, Goes, Added
<1>. QED
  BY <1>4, <1>5, <1>6

\* A flow's keys change.
LEMMA FlowSet ==
    ASSUME FlowTypes, NEW f \in Flows, NEW new \in FlowRecords, SetFlow(f, new)
    PROVE  /\ flow' \in [Flows -> FlowRecords]
           /\ flow'[f] = new /\ \A g \in Flows : g # f => flow'[g] = flow[g]
BY DEF FlowTypes, SetFlow

\* A step of a request that writes a flow's keys and leaves claim and table alone.
LEMMA MovesFlow ==
    ASSUME Inv, NEW r \in Requests, NEW s, Knows(s), Set(r, s),
           NEW f \in Flows, NEW new \in FlowRecords, SetFlow(f, new),
           new.done = flow[f].done, new.state => flow[f].state,
           UNCHANGED <<inst, cb, ids, serial, exchanged, logins>>, s.pc # "linking",
           s.pc \in {"attach", "complete", "in"} => HasPhone(s.user), OneHolder'
    PROVE  Inv'
<1>1. Typed /\ UnionInv /\ ClaimInv /\ PhoneInv
  BY DEF Inv
<1>2. /\ flow' \in [Flows -> FlowRecords]
      /\ flow'[f] = new /\ \A g \in Flows : g # f => flow'[g] = flow[g]
  BY <1>1, FlowSet DEF Typed
<1>3. Typed'
  <2>1. ReqTypes'
    BY <1>1, SetTyped DEF Typed
  <2>2. FlowTypes'
    BY <1>1, <1>2 DEF Typed, FlowTypes
  <2>3. TableTypes'
    BY <1>1 DEF Typed, TableTypes
  <2>. QED
    BY <2>1, <2>2, <2>3 DEF Typed
<1>4. ClaimInv'
  <2>1. \A g \in Flows : flow'[g].done = flow[g].done /\ (flow'[g].state => flow[g].state)
    BY <1>2
  <2>2. \A c \in Callbacks : cb[c].pc \in {"exchange", "deliver"} => cb[c].flow \in Flows
    BY <1>1 DEF Typed, FlowTypes
  <2>. QED
    BY <1>1, <2>1, <2>2, ClaimKept
<1>5. UnionInv'
  BY <1>1, MovesUnion
<1>6. PhoneInv'
  BY <1>1, MovesPhone
<1>. QED
  BY <1>3, <1>4, <1>5, <1>6 DEF Inv

\* takeResult and takeTicket are GETDEL: the request has what the key no longer has.
LEMMA TakeKeeps ==
    ASSUME Inv, NEW r \in Requests, UNCHANGED inst, NEW f \in Flows,
           PollOAuth(r, f) \/ ExchangeOAuth(r, f)
    PROVE  Inv'
<1>1. Typed /\ OneHolder /\ FlowTypes /\ ReqTypes
  BY DEF Inv, Typed
<1>2. UNCHANGED <<cb, ids, serial, exchanged, logins>> /\ req[r].pc = "idle"
  BY DEF PollOAuth, ExchangeOAuth, history, table
<1>. DEFINE polled == [flow[f] EXCEPT !.result = "none", !.state = FALSE]
            fetched == [flow[f] EXCEPT !.ticket = "none"]
            poll == PollOAuth(r, f)
            key == IF poll THEN "result" ELSE "ticket"
<1>3. PICK s : /\ Set(r, s) /\ Knows(s)
               /\ \/ s = Idle
                  \/ /\ s.pc = "settle" /\ s.flow = f
                     /\ s.out = IF poll THEN flow[f].result ELSE flow[f].ticket
  BY <1>1, TakeEffect
<1>4. PICK new \in FlowRecords :
         /\ SetFlow(f, new) /\ new.done = flow[f].done /\ (new.state => flow[f].state)
         /\ new.bind = flow[f].bind
         /\ IF poll THEN new.result = "none" /\ new.ticket = flow[f].ticket
            ELSE new.ticket = "none" /\ new.result = flow[f].result
  <2>0. flow[f] \in FlowRecords
    BY <1>1 DEF FlowTypes
  <2>1. /\ polled \in FlowRecords /\ polled.done = flow[f].done /\ ~polled.state
        /\ polled.bind = flow[f].bind /\ polled.result = "none" /\ polled.ticket = flow[f].ticket
    BY <2>0 DEF FlowRecords, Outcomes
  <2>2. /\ fetched \in FlowRecords /\ fetched.done = flow[f].done
        /\ fetched.state = flow[f].state
        /\ fetched.bind = flow[f].bind /\ fetched.ticket = "none" /\ fetched.result = flow[f].result
    BY <2>0 DEF FlowRecords, Outcomes
  <2>3. IF poll THEN SetFlow(f, polled) ELSE SetFlow(f, fetched)
    BY DEF PollOAuth, ExchangeOAuth
  <2>. HIDE DEF polled, fetched, poll
  <2>. QED
    BY <2>1, <2>2, <2>3
<1>. HIDE DEF poll
<1>5. flow'[f] = new /\ \A g \in Flows : g # f => flow'[g] = flow[g]
  BY <1>1, <1>4, FlowSet
<1>6. req'[r] = s /\ \A q \in Requests : q # r => req'[q] = req[q]
  BY <1>1, <1>3, SetTyped
<1>7. ASSUME NEW g \in Flows, NEW k \in Kinds, NEW x \in Places, Holds(g, k, x)'
      PROVE  \/ Holds(g, k, x)
             \/ g = f /\ k = "request" /\ x = r /\ Holds(f, key, "key")
  <2>1. CASE k = "request" /\ x = r
    <3>1. ReqHolds(s, g)
      BY <1>6, <1>7, <2>1 DEF Holds, ReqHolds
    <3>2. s.flow = g /\ s.pc = "settle" /\ s.out = "ok"
      BY <1>3, <3>1, IdleTyped DEF ReqHolds
    <3>3. g = f /\ Holds(f, key, "key")
      BY <1>3, <3>2, IdleTyped DEF Holds
    <3>. QED
      BY <2>1, <3>3
  <2>2. CASE k = "request" /\ x # r
    BY <1>6, <1>7, <2>2 DEF Holds, ReqHolds
  <2>3. CASE k # "request"
    <3>1. g = f => /\ flow'[g].result = "ok" => flow[g].result = "ok"
                   /\ flow'[g].ticket = "ok" => flow[g].ticket = "ok"
                   /\ flow'[g].bind = flow[g].bind
      BY <1>4, <1>5
    <3>. QED
      BY <1>2, <1>5, <1>7, <2>3, <3>1 DEF Holds
  <2>. QED
    BY <2>1, <2>2, <2>3
<1>8. OneHolder'
  <2>0. key \in Kinds /\ "key" \in Places /\ "request" \in Kinds /\ r \in Places
    BY DEF Kinds, Places
  <2>1. CASE Holds(f, key, "key")
    <3>1. ASSUME NEW g \in Flows, NEW k \in Kinds, NEW x \in Places, Holds(g, k, x)'
          PROVE  IF g = f THEN k = "request" /\ x = r ELSE Holds(g, k, x)
      <4>1. CASE g # f
        BY <1>7, <3>1, <4>1
      <4>2. CASE g = f /\ ~(k = "request" /\ x = r)
        <5>1. Holds(f, k, x)
          BY <1>7, <3>1, <4>2
        <5>2. k = key /\ x = "key"
          BY <1>1, <2>0, <2>1, <5>1 DEF OneHolder
        <5>3. IF poll THEN k = "result" /\ flow'[f].result = "none"
              ELSE k = "ticket" /\ flow'[f].ticket = "none"
          BY <1>4, <1>5, <5>2
        <5>. QED
          BY <3>1, <4>2, <5>3 DEF Holds
      <4>. QED
        BY <4>1, <4>2
    <3>2. \A g \in Flows : logins'[g] <= 1
      BY <1>1, <1>2 DEF OneHolder
    <3>. QED
      BY <1>1, <1>2, <2>0, <2>1, <3>1, <3>2, Handed
  <2>2. CASE ~Holds(f, key, "key")
    BY <1>1, <1>2, <1>7, <2>2, NotHanded
  <2>. QED
    BY <2>1, <2>2
<1>9. s.pc \in {"idle", "settle"}
  BY <1>3, IdleTyped
<1>. QED
  BY <1>2, <1>3, <1>4, <1>8, <1>9, MovesFlow

\* settle: the request keeps its right, or leaves it with the bind ticket.
LEMMA SettleKeeps ==
    ASSUME Inv, NEW r \in Requests, UNCHANGED inst, Settle(r)
    PROVE  Inv'
<1>1. Typed /\ OneHolder /\ FlowTypes /\ ReqTypes
  BY DEF Inv, Typed
<1>. DEFINE f == req[r].flow
            bound == [flow[f] EXCEPT !.bind = TRUE]
<1>2. /\ UNCHANGED <<cb, ids, serial, exchanged, logins>> /\ req[r].pc = "settle" /\ f \in Flows
  BY <1>1 DEF Settle, history, table, ReqTypes, Knows
<1>. HIDE DEF f
<1>3. PICK s : /\ Set(r, s) /\ Knows(s)
               /\ \/ s = Idle /\ UNCHANGED flow
                  \/ s = Idle /\ req[r].out = "ok" /\ SetFlow(f, bound)
                  \/ /\ s.pc \in {"complete", "attach"} /\ s.flow = f
                     /\ req[r].out = "ok" /\ HasPhone(s.user) /\ UNCHANGED flow
  BY <1>1, SettleEffect DEF f
<1>4. CASE UNCHANGED flow
  <2>1. CASE s = Idle
    <3>1. \A g \in Flows : ~ReqHolds(s, g)
      BY <2>1, IdleTyped DEF ReqHolds
    <3>. QED
      BY <1>2, <1>3, <1>4, <2>1, <3>1, IdleTyped, Moves
  <2>2. CASE /\ s.pc \in {"complete", "attach"} /\ s.flow = f
             /\ req[r].out = "ok" /\ HasPhone(s.user)
    <3>1. \A g \in Flows : ReqHolds(s, g) => ReqHolds(req[r], g)
      BY <1>2, <2>2 DEF ReqHolds, f
    <3>. QED
      BY <1>2, <1>3, <1>4, <2>2, <3>1, Moves
  <2>. QED
    BY <1>3, <2>1, <2>2
<1>5. CASE s = Idle /\ req[r].out = "ok" /\ SetFlow(f, bound)
  <2>1. /\ bound \in FlowRecords /\ bound.done = flow[f].done /\ bound.state = flow[f].state
        /\ bound.bind /\ bound.ticket = flow[f].ticket /\ bound.result = flow[f].result
    <3>1. flow[f] \in FlowRecords
      BY <1>1, <1>2 DEF FlowTypes
    <3>. QED
      BY <3>1 DEF FlowRecords
  <2>. HIDE DEF bound
  <2>2. flow'[f] = bound /\ \A g \in Flows : g # f => flow'[g] = flow[g]
    BY <1>1, <1>2, <1>5, <2>1, FlowSet
  <2>3. req'[r] = s /\ \A q \in Requests : q # r => req'[q] = req[q]
    BY <1>1, <1>3, SetTyped
  <2>4. Holds(f, "request", r)
    BY <1>2, <1>5 DEF Holds, ReqHolds, f
  <2>5. "request" \in Kinds /\ r \in Places /\ "bind" \in Kinds /\ "key" \in Places
    BY DEF Kinds, Places
  <2>6. ASSUME NEW g \in Flows, NEW k \in Kinds, NEW x \in Places, Holds(g, k, x)'
        PROVE  IF g = f THEN k = "bind" /\ x = "key" ELSE Holds(g, k, x)
    <3>0. ~(k = "request" /\ x = r)
      BY <1>5, <2>3, <2>6, IdleTyped DEF Holds, ReqHolds
    <3>1. Holds(g, k, x) \/ (g = f /\ k = "bind" /\ x = "key")
      <4>1. CASE k = "request"
        BY <2>3, <2>6, <3>0, <4>1 DEF Holds, ReqHolds
      <4>2. CASE k # "request"
        BY <1>2, <2>1, <2>2, <2>6, <4>2 DEF Holds
      <4>. QED
        BY <4>1, <4>2
    <3>2. CASE g = f /\ ~(k = "bind" /\ x = "key")
      BY <1>1, <1>2, <2>4, <2>5, <3>0, <3>1, <3>2 DEF OneHolder
    <3>. QED
      BY <3>1, <3>2
  <2>7. OneHolder'
    <3>1. \A g \in Flows : logins'[g] <= 1
      BY <1>1, <1>2 DEF OneHolder
    <3>. QED
      BY <1>1, <1>2, <2>4, <2>5, <2>6, <3>1, Handed
  <2>. QED
    BY <1>2, <1>3, <1>5, <2>1, <2>7, IdleTyped, MovesFlow
<1>. QED
  BY <1>3, <1>4, <1>5

\* takeBind is GETDEL: of two requests with the right code for one flow, one goes on.
LEMMA TakeBindKeeps ==
    ASSUME Inv, NEW r \in Requests, UNCHANGED inst, TakeBind(r)
    PROVE  Inv'
<1>1. Typed /\ OneHolder /\ FlowTypes /\ ReqTypes
  BY DEF Inv, Typed
<1>. DEFINE f == req[r].flow
            taken == [flow[f] EXCEPT !.bind = FALSE]
<1>2. /\ UNCHANGED <<cb, ids, serial, exchanged, logins>> /\ req[r].pc = "take" /\ f \in Flows
      /\ SetFlow(f, taken)
  BY <1>1 DEF TakeBind, history, table, ReqTypes, Knows
<1>. HIDE DEF f
<1>3. PICK s : /\ Set(r, s) /\ Knows(s)
               /\ \/ s = Idle
                  \/ s.pc = "link" /\ s.flow = f /\ flow[f].bind
  BY <1>1, TakeBindEffect DEF f
<1>4. /\ taken \in FlowRecords /\ taken.done = flow[f].done /\ taken.state = flow[f].state
      /\ ~taken.bind /\ taken.ticket = flow[f].ticket /\ taken.result = flow[f].result
  <2>1. flow[f] \in FlowRecords
    BY <1>1, <1>2 DEF FlowTypes
  <2>. QED
    BY <2>1 DEF FlowRecords
<1>. HIDE DEF taken
<1>5. flow'[f] = taken /\ \A g \in Flows : g # f => flow'[g] = flow[g]
  BY <1>1, <1>2, <1>4, FlowSet
<1>6. req'[r] = s /\ \A q \in Requests : q # r => req'[q] = req[q]
  BY <1>1, <1>3, SetTyped
<1>7. "request" \in Kinds /\ r \in Places /\ "bind" \in Kinds /\ "key" \in Places
  BY DEF Kinds, Places
<1>8. ASSUME NEW g \in Flows, NEW k \in Kinds, NEW x \in Places, Holds(g, k, x)'
      PROVE  \/ Holds(g, k, x) /\ ~(g = f /\ k = "bind")
             \/ g = f /\ k = "request" /\ x = r /\ Holds(f, "bind", "key")
  <2>1. CASE k = "request" /\ x = r
    <3>1. ReqHolds(s, g)
      BY <1>6, <1>8, <2>1 DEF Holds, ReqHolds
    <3>2. s # Idle /\ s.flow = g
      BY <3>1, IdleTyped DEF ReqHolds
    <3>. QED
      BY <1>3, <2>1, <3>2 DEF Holds
  <2>2. CASE k = "request" /\ x # r
    BY <1>6, <1>8, <2>2 DEF Holds, ReqHolds
  <2>3. CASE k # "request"
    <3>1. g = f => /\ flow'[g].result = flow[g].result /\ flow'[g].ticket = flow[g].ticket
                   /\ ~flow'[g].bind
      BY <1>4, <1>5
    <3>. QED
      BY <1>2, <1>5, <1>8, <2>3, <3>1 DEF Holds
  <2>. QED
    BY <2>1, <2>2, <2>3
<1>9. OneHolder'
  <2>1. CASE Holds(f, "bind", "key")
    <3>1. ASSUME NEW g \in Flows, NEW k \in Kinds, NEW x \in Places, Holds(g, k, x)'
          PROVE  IF g = f THEN k = "request" /\ x = r ELSE Holds(g, k, x)
      <4>1. CASE g # f
        BY <1>8, <3>1, <4>1
      <4>2. CASE g = f /\ ~(k = "request" /\ x = r)
        <5>1. Holds(f, k, x) /\ k # "bind"
          BY <1>8, <3>1, <4>2
        <5>. QED
          BY <1>1, <1>2, <1>7, <2>1, <5>1 DEF OneHolder
      <4>. QED
        BY <4>1, <4>2
    <3>2. \A g \in Flows : logins'[g] <= 1
      BY <1>1, <1>2 DEF OneHolder
    <3>. QED
      BY <1>1, <1>2, <1>7, <2>1, <3>1, <3>2, Handed
  <2>2. CASE ~Holds(f, "bind", "key")
    BY <1>1, <1>2, <1>8, <2>2, NotHanded
  <2>. QED
    BY <2>1, <2>2
<1>10. s.pc \in {"idle", "link"}
  BY <1>3, IdleTyped
<1>. QED
  BY <1>2, <1>3, <1>4, <1>9, <1>10, MovesFlow

\* completeLogin spends the right.
LEMMA CompleteKeeps ==
    ASSUME Inv, NEW r \in Requests, UNCHANGED inst, CompleteLogin(r)
    PROVE  Inv'
<1>1. Typed /\ UnionInv /\ ClaimInv /\ OneHolder /\ PhoneInv /\ FlowTypes /\ ReqTypes /\ TableTypes
  BY DEF Inv, Typed
<1>. DEFINE f == req[r].flow
<1>2. UNCHANGED <<flow, cb, ids, serial, exchanged>> /\ req[r].pc = "complete"
  BY DEF CompleteLogin, table
<1>. HIDE DEF f
<1>3. PICK s : /\ Set(r, s) /\ Knows(s)
               /\ \/ s = Idle /\ UNCHANGED logins
                  \/ /\ s.pc = "in" /\ s.user = req[r].user /\ s.flow = f
                     /\ logins' = IF f \in Flows THEN [logins EXCEPT ![f] = @ + 1] ELSE logins
  BY <1>1, CompleteEffect DEF f
<1>4. /\ s.pc \in {"idle", "in"} /\ \A g \in Flows : ~ReqHolds(s, g)
      /\ s.pc = "in" => HasPhone(s.user)
  BY <1>1, <1>2, <1>3, IdleTyped DEF ReqHolds, PhoneInv
<1>5. CASE UNCHANGED logins
  BY <1>2, <1>3, <1>4, <1>5, Moves
<1>6. CASE f \in Flows /\ logins' = [logins EXCEPT ![f] = @ + 1]
  <2>1. Holds(f, "request", r)
    BY <1>2 DEF Holds, ReqHolds, f
  <2>2. "request" \in Kinds /\ r \in Places /\ "login" \in Kinds /\ "key" \in Places
    BY DEF Kinds, Places
  <2>3. logins[f] = 0
    <3>1. ~Holds(f, "login", "key")
      BY <1>1, <1>6, <2>1, <2>2 DEF OneHolder
    <3>. QED
      BY <3>1 DEF Holds
  <2>4. /\ logins' \in [Flows -> Nat] /\ logins'[f] = 1
        /\ \A g \in Flows : g # f => logins'[g] = logins[g]
    BY <1>1, <1>6, <2>3 DEF FlowTypes
  <2>5. \A g \in Flows : logins'[g] <= 1
    BY <1>1, <2>4 DEF OneHolder
  <2>6. req'[r] = s /\ \A q \in Requests : q # r => req'[q] = req[q]
    BY <1>1, <1>3, SetTyped
  <2>7. ASSUME NEW g \in Flows, NEW k \in Kinds, NEW x \in Places, Holds(g, k, x)'
        PROVE  IF g = f THEN k = "login" /\ x = "key" ELSE Holds(g, k, x)
    <3>0. ~(k = "request" /\ x = r)
      BY <1>4, <2>6, <2>7 DEF Holds, ReqHolds
    <3>1. Holds(g, k, x) \/ (g = f /\ k = "login" /\ x = "key")
      <4>1. CASE k = "request"
        BY <2>6, <2>7, <3>0, <4>1 DEF Holds, ReqHolds
      <4>2. CASE k # "request"
        BY <1>2, <2>4, <2>7, <4>2 DEF Holds
      <4>. QED
        BY <4>1, <4>2
    <3>2. CASE g = f /\ ~(k = "login" /\ x = "key")
      BY <1>1, <1>6, <2>1, <2>2, <3>0, <3>1, <3>2 DEF OneHolder
    <3>. QED
      BY <3>1, <3>2
  <2>8. OneHolder'
    BY <1>1, <1>2, <1>6, <2>1, <2>2, <2>5, <2>7, Handed
  <2>9. Typed'
    <3>1. ReqTypes'
      BY <1>1, <1>3, SetTyped
    <3>2. FlowTypes'
      BY <1>1, <1>2, <2>4 DEF FlowTypes
    <3>3. TableTypes'
      BY <1>1, <1>2 DEF TableTypes
    <3>. QED
      BY <3>1, <3>2, <3>3 DEF Typed
  <2>10. ClaimInv'
    BY <1>1, <1>2, ClaimKept DEF FlowTypes
  <2>11. UnionInv'
    BY <1>1, <1>2, <1>3, <1>4, MovesUnion
  <2>12. PhoneInv'
    BY <1>1, <1>2, <1>3, <1>4, MovesPhone
  <2>. QED
    BY <2>8, <2>9, <2>10, <2>11, <2>12 DEF Inv
<1>. QED
  BY <1>3, <1>5, <1>6

-----------------------------------------------------------------------------
(* Callbacks and keys                                                      *)

\* A step that leaves requests and table alone.
LEMMA MovesKeys ==
    ASSUME Inv, UNCHANGED <<req, ids, serial>>, FlowTypes', ClaimInv', OneHolder'
    PROVE  Inv'
<1>1. Typed /\ UnionInv /\ PhoneInv
  BY DEF Inv
<1>2. Typed'
  BY <1>1 DEF Typed, ReqTypes, TableTypes
<1>3. UnionInv'
  BY <1>1 DEF UnionInv, LinkOwns, LinkExclusive, UnionKeyOneOwner
<1>4. PhoneInv'
  BY <1>1 DEF PhoneInv, HasPhone
<1>. QED
  BY <1>2, <1>3, <1>4 DEF Inv

\* StartOAuth makes a state nobody has used, and keys expire.
LEMMA KeysKeep ==
    ASSUME Inv, UNCHANGED inst, NEW f \in Flows, StartOAuth(f) \/ Expire(f)
    PROVE  Inv'
<1>1. FlowTypes /\ ClaimInv /\ OneHolder
  BY DEF Inv, Typed
<1>2. UNCHANGED <<cb, req, ids, serial, exchanged, logins>>
  BY DEF StartOAuth, Expire, table, history
<1>3. PICK new \in FlowRecords :
         /\ SetFlow(f, new)
         /\ new.result = "ok" => flow[f].result = "ok"
         /\ new.ticket = "ok" => flow[f].ticket = "ok"
         /\ new.bind => flow[f].bind
         /\ \/ new.done = flow[f].done /\ (new.state => flow[f].state)
            \/ new.done = flow[f].done /\ exchanged[f] = 0
            \/ ~flow[f].state /\ ~new.state /\ ~new.done /\ Over(f)
  <2>0. flow[f] \in FlowRecords
    BY <1>1 DEF FlowTypes
  <2>1. CASE StartOAuth(f)
    <3>. DEFINE new == [NoFlow EXCEPT !.state = TRUE]
    <3>1. /\ new \in FlowRecords /\ new.result = "none" /\ new.ticket = "none" /\ ~new.bind
          /\ ~new.done /\ ~NoFlow.done
      BY DEF NoFlow, FlowRecords, Outcomes
    <3>2. SetFlow(f, new) /\ flow[f] = NoFlow /\ exchanged[f] = 0
      BY <2>1 DEF StartOAuth
    <3>. HIDE DEF new
    <3>3. new.done = flow[f].done
      BY <2>0, <3>1, <3>2 DEF FlowRecords
    <3>. QED
      BY <3>1, <3>2, <3>3
  <2>2. CASE SetFlow(f, [flow[f] EXCEPT !.state = FALSE])
    <3>. DEFINE new == [flow[f] EXCEPT !.state = FALSE]
    <3>1. /\ new \in FlowRecords /\ new.result = flow[f].result /\ new.ticket = flow[f].ticket
          /\ new.bind = flow[f].bind /\ new.done = flow[f].done /\ ~new.state
      BY <2>0 DEF FlowRecords
    <3>. HIDE DEF new
    <3>. QED
      BY <2>2, <3>1 DEF new
  <2>3. CASE SetFlow(f, [flow[f] EXCEPT !.ticket = "none"])
    <3>. DEFINE new == [flow[f] EXCEPT !.ticket = "none"]
    <3>1. /\ new \in FlowRecords /\ new.result = flow[f].result /\ new.ticket = "none"
          /\ new.bind = flow[f].bind /\ new.done = flow[f].done /\ new.state = flow[f].state
      BY <2>0 DEF FlowRecords
    <3>. HIDE DEF new
    <3>. QED
      BY <2>3, <3>1 DEF new
  <2>4. CASE SetFlow(f, [flow[f] EXCEPT !.bind = FALSE])
    <3>. DEFINE new == [flow[f] EXCEPT !.bind = FALSE]
    <3>1. /\ new \in FlowRecords /\ new.result = flow[f].result /\ new.ticket = flow[f].ticket
          /\ ~new.bind /\ new.done = flow[f].done /\ new.state = flow[f].state
      BY <2>0 DEF FlowRecords
    <3>. HIDE DEF new
    <3>. QED
      BY <2>4, <3>1 DEF new
  <2>5. CASE /\ SetFlow(f, [flow[f] EXCEPT !.done = FALSE, !.result = "none"])
             /\ ~flow[f].state /\ Over(f)
    <3>. DEFINE new == [flow[f] EXCEPT !.done = FALSE, !.result = "none"]
    <3>1. /\ new \in FlowRecords /\ new.result = "none" /\ new.ticket = flow[f].ticket
          /\ new.bind = flow[f].bind /\ ~new.done /\ new.state = flow[f].state
      BY <2>0 DEF FlowRecords, Outcomes
    <3>. HIDE DEF new
    <3>. QED
      BY <2>5, <3>1 DEF new
  <2>. QED
    BY <2>1, <2>2, <2>3, <2>4, <2>5 DEF Expire, Over
<1>4. /\ flow' \in [Flows -> FlowRecords] /\ flow'[f] = new
      /\ \A g \in Flows : g # f => flow'[g] = flow[g]
  BY <1>1, <1>3, FlowSet
<1>5. FlowTypes'
  BY <1>1, <1>2, <1>4 DEF FlowTypes
<1>6. ClaimInv'
  <2>0. \A c \in Callbacks : cb[c].pc \in {"exchange", "deliver"} => cb[c].flow \in Flows
    BY <1>1 DEF FlowTypes
  <2>1. \A g \in Flows : Over(g)' = Over(g)
    BY <1>2 DEF Over
  <2>2. \A g \in Flows : exchanged'[g] >= 1 => flow'[g].done \/ (~flow'[g].state /\ Over(g))
    BY <1>1, <1>2, <1>3, <1>4 DEF ClaimInv
  <2>3. \A c \in Callbacks : cb[c].pc \in {"exchange", "deliver"} => flow'[cb[c].flow].done
    BY <1>1, <1>3, <1>4, <2>0 DEF ClaimInv, Over
  <2>. QED
    BY <1>1, <1>2, <2>1, <2>2, <2>3 DEF ClaimInv
<1>7. OneHolder'
  <2>1. ASSUME NEW g \in Flows, NEW k \in Kinds, NEW x \in Places, Holds(g, k, x)'
        PROVE  Holds(g, k, x)
    <3>1. /\ flow'[g].result = "ok" => flow[g].result = "ok"
          /\ flow'[g].ticket = "ok" => flow[g].ticket = "ok"
          /\ flow'[g].bind => flow[g].bind
      BY <1>3, <1>4
    <3>. QED
      BY <1>2, <2>1, <3>1 DEF Holds, ReqHolds
  <2>. QED
    BY <1>1, <1>2, <2>1, NotHanded
<1>. QED
  BY <1>2, <1>5, <1>6, <1>7, MovesKeys

\* getState and claimCallback: who claims a flow is alone with it, and nobody has
\* exchanged its code.
LEMMA ClaimKeeps ==
    ASSUME Inv, UNCHANGED inst, NEW c \in Callbacks,
           (\E f \in Flows : CallbackState(c, f)) \/ ClaimCallback(c)
    PROVE  Inv'
<1>1. FlowTypes /\ ClaimInv /\ OneHolder /\ cb[c] \in Caller(CbPc)
  BY DEF Inv, Typed, FlowTypes
<1>2. UNCHANGED <<req, ids, serial, exchanged, logins>>
  BY DEF CallbackState, ClaimCallback, table, history
<1>3. PICK f \in Flows, p \in CbPc :
        /\ cb' \in [Callbacks -> Caller(CbPc)] /\ \A d \in Callbacks : d # c => cb'[d] = cb[d]
        /\ cb'[c].pc = p /\ cb'[c].flow = f
        /\ \A g \in Flows : g # f => flow'[g] = flow[g]
        /\ flow' \in [Flows -> FlowRecords]
        /\ \/ p = "claim" /\ flow' = flow /\ flow[f].state
           \/ p = "expired" /\ flow' = flow /\ cb[c].pc = "claim" /\ cb[c].flow = f
           \/ /\ p = "exchange" /\ ~flow[f].done /\ cb[c].pc = "claim" /\ cb[c].flow = f
              /\ flow'[f].done /\ flow'[f].state = flow[f].state
              /\ flow'[f].result = flow[f].result /\ flow'[f].ticket = flow[f].ticket
              /\ flow'[f].bind = flow[f].bind
  <2>1. ASSUME NEW f \in Flows, CallbackState(c, f)
        PROVE  /\ cb' \in [Callbacks -> Caller(CbPc)]
               /\ \A d \in Callbacks : d # c => cb'[d] = cb[d]
               /\ cb'[c].pc = "claim" /\ cb'[c].flow = f /\ flow' = flow /\ flow[f].state
    <3>. DEFINE new == [cb[c] EXCEPT !.pc = "claim", !.flow = f]
    <3>1. new \in Caller(CbPc) /\ new.pc = "claim" /\ new.flow = f
      BY <1>1 DEF Caller, CbPc
    <3>2. cb' = [cb EXCEPT ![c] = new] /\ flow' = flow /\ flow[f].state
      BY <2>1 DEF CallbackState
    <3>. HIDE DEF new
    <3>. QED
      BY <1>1, <3>1, <3>2 DEF FlowTypes
  <2>2. CASE ClaimCallback(c)
    <3>. DEFINE f == cb[c].flow
                p == IF flow[f].done THEN "expired" ELSE "exchange"
                new == [cb[c] EXCEPT !.pc = p]
                claimed == [flow[f] EXCEPT !.done = TRUE]
    <3>0. f \in Flows /\ flow[f] \in FlowRecords /\ cb[c].pc = "claim" /\ p \in CbPc
      BY <1>1, <2>2 DEF FlowTypes, ClaimCallback, CbPc
    <3>1. cb' = [cb EXCEPT ![c] = new] /\ SetFlow(f, claimed)
      BY <2>2 DEF ClaimCallback
    <3>. HIDE DEF p
    <3>2. new \in Caller(CbPc) /\ new.pc = p /\ new.flow = f
      BY <1>1, <3>0 DEF Caller
    <3>3. /\ claimed \in FlowRecords /\ claimed.done /\ claimed.state = flow[f].state
          /\ claimed.result = flow[f].result /\ claimed.ticket = flow[f].ticket
          /\ claimed.bind = flow[f].bind
      BY <3>0 DEF FlowRecords
    <3>4. flow[f].done => claimed = flow[f]
      BY <3>0 DEF FlowRecords
    <3>. HIDE DEF new, claimed, f
    <3>5. /\ cb' \in [Callbacks -> Caller(CbPc)] /\ \A d \in Callbacks : d # c => cb'[d] = cb[d]
          /\ cb'[c].pc = p /\ cb'[c].flow = f
      BY <1>1, <3>1, <3>2 DEF FlowTypes
    <3>6. /\ flow' \in [Flows -> FlowRecords] /\ flow'[f] = claimed
          /\ \A g \in Flows : g # f => flow'[g] = flow[g]
      BY <1>1, <3>0, <3>1, <3>3, FlowSet
    <3>7. flow[f].done => flow' = flow
      BY <1>1, <3>0, <3>4, <3>6 DEF FlowTypes
    <3>8. cb[c].flow = f
      BY DEF f
    <3>. QED
      BY <3>0, <3>3, <3>5, <3>6, <3>7, <3>8 DEF p
  <2>3. flow \in [Flows -> FlowRecords] /\ "claim" \in CbPc
    BY <1>1 DEF FlowTypes, CbPc
  <2>. QED
    BY <2>1, <2>2, <2>3
<1>4. FlowTypes'
  BY <1>1, <1>2, <1>3 DEF FlowTypes
<1>5. ClaimInv'
  <2>0. \A d \in Callbacks : cb[d].pc \in {"exchange", "deliver"} => cb[d].flow \in Flows
    BY <1>1 DEF FlowTypes
  <2>1. p = "exchange" => exchanged[f] = 0
    BY <1>1, <1>3 DEF ClaimInv, Over, FlowTypes
  <2>2. p = "exchange" => \A d \in Callbacks : cb[d].pc \in {"exchange", "deliver"} => cb[d].flow # f
    BY <1>1, <1>3 DEF ClaimInv
  <2>3. \A g \in Flows : /\ flow[g].done => flow'[g].done
                         /\ flow'[g].state = flow[g].state
    BY <1>3
  <2>4. ASSUME NEW g \in Flows, exchanged'[g] >= 1
        PROVE  flow'[g].done \/ (~flow'[g].state /\ Over(g)')
    <3>1. flow[g].done \/ (~flow[g].state /\ Over(g))
      BY <1>1, <1>2, <2>4 DEF ClaimInv
    <3>2. CASE ~flow[g].state /\ Over(g)
      BY <1>3, <2>3, <3>2 DEF Over
    <3>. QED
      BY <2>3, <3>1, <3>2
  <2>5. \A d \in Callbacks : cb'[d].pc \in {"exchange", "deliver"} =>
              IF d = c THEN p = "exchange" /\ cb'[d].flow = f ELSE cb'[d] = cb[d]
    BY <1>3
  <2>6. \A d \in Callbacks : cb'[d].pc \in {"exchange", "deliver"} => flow'[cb'[d].flow].done
    BY <1>1, <1>3, <2>0, <2>3, <2>5 DEF ClaimInv
  <2>7. \A d, e \in Callbacks :
          /\ cb'[d].pc \in {"exchange", "deliver"} /\ cb'[e].pc \in {"exchange", "deliver"}
          /\ cb'[d].flow = cb'[e].flow
          => d = e
    BY <1>1, <2>2, <2>5 DEF ClaimInv
  <2>8. \A d \in Callbacks : cb'[d].pc = "exchange" => exchanged'[cb'[d].flow] = 0
    BY <1>1, <1>2, <2>1, <2>5 DEF ClaimInv
  <2>. QED
    BY <1>1, <1>2, <2>4, <2>6, <2>7, <2>8 DEF ClaimInv
<1>6. OneHolder'
  <2>1. ASSUME NEW g \in Flows, NEW k \in Kinds, NEW x \in Places, Holds(g, k, x)'
        PROVE  Holds(g, k, x)
    <3>1. /\ flow'[g].result = flow[g].result /\ flow'[g].ticket = flow[g].ticket
          /\ flow'[g].bind = flow[g].bind
      BY <1>3
    <3>2. \A d \in Callbacks : cb'[d].pc = "deliver" => cb'[d] = cb[d]
      BY <1>3
    <3>. QED
      BY <1>2, <2>1, <3>1, <3>2 DEF Holds, ReqHolds
  <2>. QED
    BY <1>1, <1>2, <2>1, NotHanded
<1>. QED
  BY <1>2, <1>4, <1>5, <1>6, MovesKeys

\* exchangeCode: the first exchange of a flow makes the right to log in.
LEMMA ExchangeKeeps ==
    ASSUME Inv, UNCHANGED inst, NEW c \in Callbacks, ExchangeCode(c)
    PROVE  Inv'
<1>1. FlowTypes /\ ClaimInv /\ OneHolder /\ cb[c] \in Caller(CbPc)
  BY DEF Inv, Typed, FlowTypes
<1>. DEFINE f == cb[c].flow
<1>2. UNCHANGED <<flow, req, ids, serial, logins>> /\ cb[c].pc = "exchange" /\ f \in Flows
  BY <1>1 DEF ExchangeCode, table, FlowTypes
<1>3. exchanged[f] = 0
  BY <1>1, <1>2 DEF ClaimInv
<1>. HIDE DEF f
<1>4. PICK out \in Outcomes :
        /\ cb' = [cb EXCEPT ![c].pc = "deliver", ![c].out = out]
        /\ exchanged' = [exchanged EXCEPT ![f] = IF out = "cancelled" THEN @ ELSE @ + 1]
  BY DEF ExchangeCode, Exchange, Outcomes, f
<1>. DEFINE new == [cb[c] EXCEPT !.pc = "deliver", !.out = out]
<1>5. new \in Caller(CbPc) /\ new.pc = "deliver" /\ new.out = out /\ new.flow = f
  BY <1>1 DEF Caller, CbPc, f
<1>6. cb' = [cb EXCEPT ![c] = new]
  BY <1>4
<1>. HIDE DEF new
<1>7. /\ cb' \in [Callbacks -> Caller(CbPc)] /\ cb'[c] = new
      /\ \A d \in Callbacks : d # c => cb'[d] = cb[d]
  BY <1>1, <1>5, <1>6 DEF FlowTypes
<1>8. /\ exchanged' \in [Flows -> Nat] /\ exchanged'[f] = IF out = "cancelled" THEN 0 ELSE 1
      /\ \A g \in Flows : g # f => exchanged'[g] = exchanged[g]
  BY <1>1, <1>2, <1>3, <1>4 DEF FlowTypes
<1>9. FlowTypes'
  BY <1>1, <1>2, <1>5, <1>7, <1>8 DEF FlowTypes
<1>10. ClaimInv'
  <2>1. flow[f].done
    BY <1>1, <1>2 DEF ClaimInv, f
  <2>2. ASSUME NEW g \in Flows, exchanged'[g] >= 1
        PROVE  flow'[g].done \/ (~flow'[g].state /\ Over(g)')
    <3>1. CASE g = f
      BY <1>2, <2>1, <3>1
    <3>2. CASE g # f
      <4>1. flow[g].done \/ (~flow[g].state /\ Over(g))
        BY <1>1, <1>8, <2>2, <3>2 DEF ClaimInv
      <4>2. Over(g) => Over(g)'
        BY <1>5, <1>7, <3>2 DEF Over
      <4>. QED
        BY <1>2, <4>1, <4>2
    <3>. QED
      BY <3>1, <3>2
  <2>3. \A d \in Callbacks : IF d = c THEN cb'[d].pc = "deliver" /\ cb'[d].flow = f
                                         /\ cb[d].pc = "exchange" /\ cb[d].flow = f
                             ELSE cb'[d] = cb[d]
    BY <1>2, <1>5, <1>7 DEF f
  <2>4. \A d \in Callbacks : cb'[d].pc \in {"exchange", "deliver"} => flow'[cb'[d].flow].done
    BY <1>1, <1>2, <2>1, <2>3 DEF ClaimInv
  <2>5. \A d, e \in Callbacks :
          /\ cb'[d].pc \in {"exchange", "deliver"} /\ cb'[e].pc \in {"exchange", "deliver"}
          /\ cb'[d].flow = cb'[e].flow
          => d = e
    BY <1>1, <2>3 DEF ClaimInv
  <2>6. ASSUME NEW d \in Callbacks, cb'[d].pc = "exchange" PROVE exchanged'[cb'[d].flow] = 0
    <3>1. d # c /\ cb'[d] = cb[d]
      BY <2>3, <2>6
    <3>2. cb[d].flow # f /\ cb[d].flow \in Flows
      BY <1>1, <1>2, <2>3, <2>6, <3>1 DEF ClaimInv, FlowTypes
    <3>. QED
      BY <1>1, <1>8, <2>6, <3>1, <3>2 DEF ClaimInv
  <2>7. \A g \in Flows : exchanged'[g] <= 1
    BY <1>1, <1>8 DEF ClaimInv
  <2>. QED
    BY <2>2, <2>4, <2>5, <2>6, <2>7 DEF ClaimInv
<1>11. OneHolder'
  <2>1. \A k \in Kinds, x \in Places : ~Holds(f, k, x)
    BY <1>1, <1>2, <1>3 DEF OneHolder
  <2>2. ASSUME NEW g \in Flows, NEW k \in Kinds, NEW x \in Places, Holds(g, k, x)'
        PROVE  IF g = f THEN k = "callback" /\ x = c /\ exchanged'[g] = 1
               ELSE Holds(g, k, x)
    <3>1. CASE k = "callback" /\ x = c
      BY <1>5, <1>7, <1>8, <2>2, <3>1 DEF Holds
    <3>2. CASE ~(k = "callback" /\ x = c)
      <4>1. Holds(g, k, x)
        BY <1>2, <1>7, <2>2, <3>2 DEF Holds, ReqHolds
      <4>. QED
        BY <2>1, <4>1
    <3>. QED
      BY <3>1, <3>2
  <2>. SUFFICES ASSUME NEW g \in Flows
                PROVE  /\ logins'[g] <= 1
                       /\ \A k \in Kinds, x \in Places : Holds(g, k, x)' => exchanged'[g] >= 1
                       /\ \A k, l \in Kinds, x, y \in Places :
                             Holds(g, k, x)' /\ Holds(g, l, y)' => k = l /\ x = y
    BY DEF OneHolder
  <2>3. CASE g = f
    BY <1>1, <1>2, <2>2, <2>3 DEF OneHolder
  <2>4. CASE g # f
    BY <1>1, <1>2, <1>8, <2>2, <2>4 DEF OneHolder
  <2>. QED
    BY <2>3, <2>4
<1>. QED
  BY <1>2, <1>9, <1>10, <1>11, MovesKeys

\* putResult and putTicket: what the callback has goes to one key, or is lost.
LEMMA DeliverKeeps ==
    ASSUME Inv, UNCHANGED inst, NEW c \in Callbacks, DeliverResult(c)
    PROVE  Inv'
<1>1. FlowTypes /\ ClaimInv /\ OneHolder /\ cb[c] \in Caller(CbPc)
  BY DEF Inv, Typed, FlowTypes
<1>. DEFINE f == cb[c].flow
            out == cb[c].out
            key == IF Deliver[f] = "poll" THEN "result" ELSE "ticket"
            gone == [flow[f] EXCEPT !.state = FALSE]
<1>2. /\ UNCHANGED <<req, ids, serial, exchanged, logins>> /\ cb[c].pc = "deliver" /\ f \in Flows
      /\ cb' = [cb EXCEPT ![c].pc = "done"]
  BY <1>1 DEF DeliverResult, table, history, FlowTypes
<1>3. Deliver[f] \in {"web", "poll"} /\ out \in Outcomes /\ flow[f] \in FlowRecords
  BY <1>1, <1>2, SignInAssumption DEF FlowTypes, Caller
<1>4. PICK new \in FlowRecords :
        /\ SetFlow(f, new) /\ new.done = flow[f].done /\ (new.state => flow[f].state)
        /\ new.bind = flow[f].bind
        /\ new.result = "ok" => \/ flow[f].result = "ok"
                                \/ out = "ok" /\ key = "result"
        /\ new.ticket = "ok" => \/ flow[f].ticket = "ok"
                                \/ out = "ok" /\ key = "ticket"
  <2>. DEFINE polled == [flow[f] EXCEPT !.result = out]
              ticketed == [gone EXCEPT !.ticket = "ok"]
              Fine(new) == /\ new \in FlowRecords
                           /\ new.done = flow[f].done /\ (new.state => flow[f].state)
                           /\ new.bind = flow[f].bind
                           /\ new.result = "ok" => \/ flow[f].result = "ok"
                                                   \/ out = "ok" /\ key = "result"
                           /\ new.ticket = "ok" => \/ flow[f].ticket = "ok"
                                                   \/ out = "ok" /\ key = "ticket"
  <2>1. \/ SetFlow(f, polled) /\ Deliver[f] = "poll"
        \/ SetFlow(f, ticketed) /\ Deliver[f] = "web" /\ out = "ok"
        \/ SetFlow(f, gone)
        \/ SetFlow(f, flow[f])
    BY DEF DeliverResult
  <2>. HIDE DEF f, out
  <2>2. /\ gone \in FlowRecords /\ gone.done = flow[f].done /\ ~gone.state
        /\ gone.bind = flow[f].bind /\ gone.result = flow[f].result /\ gone.ticket = flow[f].ticket
    BY <1>3 DEF FlowRecords
  <2>3. /\ polled \in FlowRecords /\ polled.done = flow[f].done /\ polled.state = flow[f].state
        /\ polled.bind = flow[f].bind /\ polled.result = out /\ polled.ticket = flow[f].ticket
    BY <1>3 DEF FlowRecords
  <2>. HIDE DEF gone, polled
  <2>4. /\ ticketed \in FlowRecords /\ ticketed.done = flow[f].done /\ ~ticketed.state
        /\ ticketed.bind = flow[f].bind /\ ticketed.result = flow[f].result /\ ticketed.ticket = "ok"
    BY <2>2 DEF FlowRecords
  <2>. HIDE DEF ticketed
  <2>5. Fine(gone) /\ Fine(flow[f])
    BY <1>3, <2>2
  <2>6. Deliver[f] = "poll" => Fine(polled)
    BY <1>3, <2>3
  <2>7. Deliver[f] = "web" /\ out = "ok" => Fine(ticketed)
    BY <1>3, <2>4
  <2>8. \E new : SetFlow(f, new) /\ Fine(new)
    <3>. HIDE DEF Fine
    <3>. QED
      BY <2>1, <2>5, <2>6, <2>7
  <2>. QED
    BY <2>8
<1>5. flow' \in [Flows -> FlowRecords] /\ flow'[f] = new /\ \A g \in Flows : g # f => flow'[g] = flow[g]
  BY <1>1, <1>2, <1>4, FlowSet
<1>. DEFINE over == [cb[c] EXCEPT !.pc = "done"]
<1>6. over \in Caller(CbPc) /\ over.pc = "done" /\ over.flow = f
  BY <1>1 DEF Caller, CbPc
<1>7. cb' = [cb EXCEPT ![c] = over]
  BY <1>2
<1>. HIDE DEF over
<1>8. /\ cb' \in [Callbacks -> Caller(CbPc)] /\ cb'[c] = over
      /\ \A d \in Callbacks : d # c => cb'[d] = cb[d]
  BY <1>1, <1>6, <1>7 DEF FlowTypes
<1>9. FlowTypes'
  BY <1>1, <1>2, <1>5, <1>6, <1>8 DEF FlowTypes
<1>10. ClaimInv'
  <2>1. \A g \in Flows : flow'[g].done = flow[g].done /\ (flow'[g].state => flow[g].state)
    BY <1>4, <1>5
  <2>2. \A d \in Callbacks : cb[d].pc \in {"exchange", "deliver"} => cb[d].flow \in Flows
    BY <1>1 DEF FlowTypes
  <2>3. \A d \in Callbacks : cb'[d].pc \in {"exchange", "deliver"} => cb'[d] = cb[d]
    BY <1>6, <1>8
  <2>4. \A g \in Flows : Over(g) => Over(g)'
    BY <1>6, <1>8 DEF Over
  <2>5. \A g \in Flows : exchanged'[g] >= 1 => flow'[g].done \/ (~flow'[g].state /\ Over(g)')
    BY <1>1, <1>2, <2>1, <2>4 DEF ClaimInv
  <2>6. \A d \in Callbacks : cb'[d].pc \in {"exchange", "deliver"} => flow'[cb'[d].flow].done
    BY <1>1, <2>1, <2>2, <2>3 DEF ClaimInv
  <2>. QED
    BY <1>1, <1>2, <2>3, <2>5, <2>6 DEF ClaimInv
<1>11. OneHolder'
  <2>0. /\ "callback" \in Kinds /\ c \in Places /\ key \in Kinds /\ "key" \in Places
    BY DEF Kinds, Places
  <2>1. ASSUME NEW g \in Flows, NEW k \in Kinds, NEW x \in Places, Holds(g, k, x)'
        PROVE  /\ ~(k = "callback" /\ x = c)
               /\ \/ Holds(g, k, x)
                  \/ g = f /\ k = key /\ x = "key" /\ out = "ok"
    <3>1. ~(k = "callback" /\ x = c)
      BY <1>6, <1>8, <2>1 DEF Holds
    <3>2. /\ flow'[g].result = "ok" => \/ flow[g].result = "ok"
                                       \/ g = f /\ out = "ok" /\ key = "result"
          /\ flow'[g].ticket = "ok" => \/ flow[g].ticket = "ok"
                                       \/ g = f /\ out = "ok" /\ key = "ticket"
          /\ flow'[g].bind = flow[g].bind
      BY <1>4, <1>5
    <3>. HIDE DEF key, f, out
    <3>. QED
      BY <1>2, <1>8, <2>1, <3>1, <3>2 DEF Holds, ReqHolds
  <2>2. CASE out = "ok"
    <3>1. Holds(f, "callback", c)
      BY <1>2, <2>2 DEF Holds
    <3>2. ASSUME NEW g \in Flows, NEW k \in Kinds, NEW x \in Places, Holds(g, k, x)'
          PROVE  IF g = f THEN k = key /\ x = "key" ELSE Holds(g, k, x)
      <4>. HIDE DEF key, f
      <4>1. CASE g # f
        BY <2>1, <3>2, <4>1
      <4>2. CASE g = f /\ ~(k = key /\ x = "key")
        <5>1. Holds(f, k, x) /\ ~(k = "callback" /\ x = c)
          BY <2>1, <3>2, <4>2
        <5>. QED
          BY <1>1, <1>2, <2>0, <3>1, <5>1 DEF OneHolder
      <4>. QED
        BY <4>1, <4>2
    <3>3. \A g \in Flows : logins'[g] <= 1
      BY <1>1, <1>2 DEF OneHolder
    <3>. HIDE DEF key, f
    <3>. QED
      BY <1>1, <1>2, <2>0, <3>1, <3>2, <3>3, Handed
  <2>3. CASE out # "ok"
    BY <1>1, <1>2, <2>1, <2>3, NotHanded
  <2>. QED
    BY <2>2, <2>3
<1>. QED
  BY <1>2, <1>9, <1>10, <1>11, MovesKeys

-----------------------------------------------------------------------------
(* The theorems                                                            *)

\* The invariants hold to begin with.
LEMMA InvInit == Init => Inv /\ CodeInv
<1>. SUFFICES ASSUME Init PROVE Inv /\ CodeInv
  OBVIOUS
<1>1. FlowTypes
  <2>1. NoFlow \in FlowRecords
    BY DEF NoFlow, FlowRecords, Outcomes
  <2>. QED
    BY <2>1, IdleTyped DEF Init, FlowTypes
<1>2. ReqTypes
  BY IdleTyped DEF Init, ReqTypes
<1>3. TableTypes
  <2>1. Cardinality(ids) \in Nat
    BY TableAssumption, FS_CardinalityType DEF Init
  <2>2. serial \in Nat \ {0}
    <3>1. serial = Cardinality(ids) + 1
      BY DEF Init
    <3>. QED
      BY <2>1, <3>1
  <2>3. ids \subseteq Rows
    BY DEF Init, Rows
  <2>4. \A i \in ids : /\ i.id \in Nat /\ i.user \in Nat \ {0}
                       /\ i.type = "phone" => i.union = ""
    BY TableAssumption DEF Init
  <2>. QED
    BY <2>2, <2>3, <2>4 DEF TableTypes
<1>4. UnionInv
  <2>1. \A r \in Requests : req[r].pc = "idle"
    BY IdleTyped DEF Init
  <2>2. UnionKeyOneOwner
    BY TableAssumption DEF Init, UnionKeyOneOwner
  <2>. QED
    BY <2>1, <2>2 DEF UnionInv, LinkOwns, LinkExclusive
<1>5. ClaimInv
  <2>1. \A c \in Callbacks : cb[c].pc = "idle"
    BY IdleTyped DEF Init
  <2>2. \A f \in Flows : exchanged[f] = 0
    BY DEF Init
  <2>. QED
    BY <2>1, <2>2 DEF ClaimInv
<1>6. OneHolder
  <2>1. \A c \in Callbacks : cb[c].pc = "idle"
    BY IdleTyped DEF Init
  <2>2. \A r \in Requests : req[r].pc = "idle"
    BY IdleTyped DEF Init
  <2>3. \A f \in Flows : /\ flow[f].result = "none" /\ flow[f].ticket = "none" /\ ~flow[f].bind
                         /\ logins[f] = 0
    BY DEF Init, NoFlow
  <2>4. \A f \in Flows, k \in Kinds, x \in Places : ~Holds(f, k, x)
    BY <2>1, <2>2, <2>3 DEF Holds, ReqHolds
  <2>. QED
    BY <2>3, <2>4 DEF OneHolder
<1>7. PhoneInv
  BY IdleTyped DEF Init, PhoneInv
<1>8. CodeInv
  <2>1. CodeTypes
    BY Numbers DEF Init, CodeTypes, NoCode
  <2>2. \A n \in Phones : code[n].val = 0
    BY DEF Init, NoCode
  <2>3. \A c \in 1..MaxCodes : tried[c] = 0 /\ used[c] = 0
    BY DEF Init
  <2>. QED
    BY <2>1, <2>2, <2>3, Numbers DEF CodeInv, TriesCounted, OnePhone, TriesBounded
<1>. QED
  BY <1>1, <1>2, <1>3, <1>4, <1>5, <1>6, <1>7, <1>8 DEF Inv, Typed

\* Nothing that flows and requests depend on changes.
LEMMA InvStutter ==
    ASSUME Inv, UNCHANGED <<inst, flow, cb, req, ids, serial, exchanged, logins>> PROVE Inv'
<1>1. FlowTypes' /\ ClaimInv'
  BY DEF Inv, Typed, FlowTypes, ClaimInv, Over
<1>2. OneHolder'
  BY DEF Inv, OneHolder, Holds, ReqHolds
<1>. QED
  BY <1>1, <1>2, MovesKeys

\* Every step keeps the invariant of flows, requests and table.
LEMMA InvStep == Inv /\ [Next]_vars => Inv'
<1>. SUFFICES ASSUME Inv, [Next]_vars PROVE Inv'
  OBVIOUS
<1>1. CASE UNCHANGED vars
  BY <1>1, InvStutter DEF vars, table, history
<1>2. CASE Next
  <2>0. UNCHANGED inst
    BY <1>2 DEF Next
  <2>1. ASSUME NEW n \in Phones,
               \/ SendLoginCode(n) \/ Tick(n) \/ WrongCode(n)
               \/ \E i \in DOMAIN Rules : WindowEnds(n, i)
        PROVE  Inv'
    BY <2>0, <2>1, InvStutter DEF SendLoginCode, Tick, WrongCode, WindowEnds, table, history
  <2>2. ASSUME NEW f \in Flows, StartOAuth(f) \/ Expire(f) PROVE Inv'
    BY <2>0, <2>2, KeysKeep
  <2>3. ASSUME NEW c \in Callbacks, OAuthCallback(c) PROVE Inv'
    BY <2>0, <2>3, ClaimKeeps, ExchangeKeeps, DeliverKeeps DEF OAuthCallback
  <2>4. ASSUME NEW r \in Requests, OAuthHandler(r) PROVE Inv'
    BY <2>0, <2>4, TakeKeeps, PlainKeeps DEF OAuthHandler
  <2>5. ASSUME NEW r \in Requests, OAuthService(r) PROVE Inv'
    BY <2>0, <2>5, SettleKeeps, AttachKeeps, PlainKeeps, TakeBindKeeps, LinkKeeps, CommitKeeps
       DEF OAuthService
  <2>6. ASSUME NEW r \in Requests,
               \/ \E n \in Phones : Login(r, n)
               \/ ResolveUser(r) \/ CompleteLogin(r) \/ Fail(r)
        PROVE  Inv'
    BY <2>0, <2>6, PlainKeeps, InsertKeeps, CompleteKeeps DEF ResolveUser
  <2>. QED
    BY <1>2, <2>1, <2>2, <2>3, <2>4, <2>5, <2>6 DEF Next, Step
<1>. QED
  BY <1>1, <1>2

\* Every step keeps the invariant of the codes.
LEMMA CodeStep == Inv /\ CodeInv /\ [Next]_vars => CodeInv'
<1>. SUFFICES ASSUME Inv, CodeInv, [Next]_vars PROVE CodeInv'
  OBVIOUS
<1>0. UNCHANGED inst
  BY DEF vars, Next
<1>1. ASSUME UNCHANGED <<code, minted, tried, used>> PROVE CodeInv'
  BY <1>0, <1>1 DEF CodeInv, CodeTypes, TriesCounted, OnePhone, TriesBounded, CodeTTL
<1>2. ASSUME NEW n \in Phones,
             \/ SendLoginCode(n) \/ Tick(n) \/ WrongCode(n)
             \/ \E i \in DOMAIN Rules : WindowEnds(n, i)
      PROVE  CodeInv'
  <2>1. CASE SendLoginCode(n)
    BY <1>0, <2>1, SendKeeps
  <2>2. CASE Tick(n)
    BY <1>0, <2>2, TickKeeps
  <2>3. CASE WrongCode(n)
    BY <1>0, <2>3, VerifyKeeps DEF WrongCode
  <2>4. CASE \E i \in DOMAIN Rules : WindowEnds(n, i)
    BY <1>1, <2>4 DEF WindowEnds
  <2>. QED
    BY <1>2, <2>1, <2>2, <2>3, <2>4
<1>3. ASSUME NEW r \in Requests, NEW n \in Phones, Login(r, n) PROVE CodeInv'
  BY <1>0, <1>3, VerifyKeeps DEF Login
<1>4. ASSUME NEW r \in Requests, BindVerify(r) PROVE CodeInv'
  <2>1. req[r].phone \in Phones
    BY <1>4 DEF Inv, Typed, ReqTypes, Knows, BindVerify
  <2>. QED
    BY <1>0, <1>4, <2>1, VerifyKeeps DEF BindVerify
<1>5. ASSUME NEW f \in Flows, StartOAuth(f) \/ Expire(f) PROVE CodeInv'
  BY <1>1, <1>5 DEF StartOAuth, Expire, codes
<1>6. ASSUME NEW c \in Callbacks, OAuthCallback(c) PROVE CodeInv'
  BY <1>1, <1>6
     DEF OAuthCallback, CallbackState, ClaimCallback, ExchangeCode, DeliverResult, codes
<1>7. ASSUME NEW r \in Requests, OAuthHandler(r) PROVE CodeInv'
  BY <1>1, <1>7 DEF OAuthHandler, PollOAuth, ExchangeOAuth, BindPhone, codes
<1>8. ASSUME NEW r \in Requests, OAuthService(r) PROVE CodeInv'
  BY <1>1, <1>4, <1>8
     DEF OAuthService, Settle, AttachIdentity, TakeBind, LinkPhone, LinkCommit, codes
<1>9. ASSUME NEW r \in Requests, ResolveUser(r) \/ CompleteLogin(r) \/ Fail(r) PROVE CodeInv'
  BY <1>1, <1>9 DEF ResolveUser, EnsureFind, EnsureInsert, CompleteLogin, Fail, codes
<1>10. CASE UNCHANGED vars
  BY <1>1, <1>10 DEF vars, codes
<1>11. CASE Step
  BY <1>2, <1>3, <1>5, <1>6, <1>7, <1>8, <1>9, <1>11 DEF Step
<1>. QED
  BY <1>10, <1>11 DEF Next

\* The strengthened invariants hold always.
LEMMA InvHolds == Spec => [](Inv /\ CodeInv)
<1>1. Inv /\ CodeInv /\ [Next]_vars => (Inv /\ CodeInv)'
  BY InvStep, CodeStep
<1>. QED
  BY InvInit, <1>1, PTL DEF Spec

\* verifyScript and issueScript: however sends, expiries and tries of all phones
\* interleave, a code is compared at most MaxTries times and accepted at most once.
THEOREM TriesLimited == Spec => []TriesBounded
<1>1. Inv /\ CodeInv => TriesBounded
  BY DEF CodeInv
<1>. QED
  BY InvHolds, <1>1, PTL

\* lockUnionKeyTx: however attaches and links of any number of requests interleave, a
\* union key belongs to one account.
THEOREM OneOwner == Spec => []UnionKeyOneOwner
<1>1. Inv /\ CodeInv => UnionKeyOneOwner
  BY DEF Inv, UnionInv
<1>. QED
  BY InvHolds, <1>1, PTL

\* claimCallback, takeResult, takeTicket, takeBind and settle: a flow exchanges its code
\* once and logs in once, whatever arrives twice, and never somebody without a phone.
THEOREM OneLogin == Spec => []OneLoginPerFlow
<1>1. Inv /\ CodeInv => OneLoginPerFlow
  BY DEF Inv, ClaimInv, OneHolder, PhoneInv, OneLoginPerFlow
<1>. QED
  BY InvHolds, <1>1, PTL
=============================================================================
