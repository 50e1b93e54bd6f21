----------------------------- MODULE LoginFence -----------------------------
(***************************************************************************)
(* Logins of one user racing the administration of that user's account.    *)
(*                                                                         *)
(* AuthService.Login (internal/service/auth.go) issues a session in Redis; *)
(* AccountService.SetStatus / ResetPassword / RevokeUsersSessions          *)
(* (internal/service/account.go) change the account in Postgres, bump the  *)
(* user's revocation epoch and sweep the user's sessions.  None of them    *)
(* takes a lock: the fence is the ORDER of the steps (status or password,  *)
(* then epoch, then sweep; epoch read, then write, then recheck).          *)
(*                                                                         *)
(* Each database or Redis round trip is one action.  Every process runs    *)
(* one operation; a retry is another process.  Any round trip may fail,    *)
(* before or after taking effect.  Users do not interact, so one user is   *)
(* modelled.  A login owns at most one session, named after the login.     *)
(***************************************************************************)
EXTENDS Naturals

CONSTANTS Logins,          \* login attempts of the user
          Admins           \* administrative operations on the user

VARIABLES
    status,                \* app_user.status
    hash,                  \* app_user.password_hash, as a version: bcrypt's salt
                           \* makes each SetPassword store a string never seen before
    epoch,                 \* fp:epoch:{user} in Redis
    live,                  \* logins whose session key exists in Redis
    lpc,                   \* where each login stands
    snapHash,              \* PasswordHash of the user read by the login
    lepoch,                \* epoch engraved in the session
    apc, op,               \* where each administrative operation stands, and which
    todo,                  \* tokens its sweep still has to delete
    gen,                   \* history: number of writes of status
    lgen,                  \* history: gen when the login read the epoch
    seenGen, seenHash      \* history: gen / hash the operation established

fenceVars == <<status, hash, epoch, live, lpc, snapHash, lepoch,
               apc, op, todo, gen, lgen, seenGen, seenHash>>

loginVars == <<lpc, snapHash, lepoch, lgen>>
adminVars == <<apc, op, todo, seenGen, seenHash>>
dbVars    == <<status, hash, gen>>

-----------------------------------------------------------------------------
\* domain/user.go: the statuses and the transitions the state machine allows.
Status == {"ACTIVE", "FROZEN", "PENDING_DELETE", "DELETED"}

userTransitions ==
    {<<"ACTIVE", "FROZEN">>, <<"ACTIVE", "PENDING_DELETE">>,
     <<"FROZEN", "ACTIVE">>,
     <<"PENDING_DELETE", "ACTIVE">>, <<"PENDING_DELETE", "DELETED">>}

CanLogin(s) == s \in {"ACTIVE", "PENDING_DELETE"}

\* The session of l passes the epoch comparison of SessionService.Validate.
Usable(l) == l \in live /\ lepoch[l] = epoch

LoginPc == {"start", "authed", "revive", "rewrite", "epoch", "put", "recheck",
            "undo", "ok", "err"}
AdminPc == {"idle", "write", "bump", "list", "sweep", "done", "failed"}
Ops     == Status \cup {"reset", "kick"}

-----------------------------------------------------------------------------
FenceInit ==
    /\ status \in Status
    /\ hash = 0 /\ epoch = 0 /\ gen = 0
    /\ live = {}
    /\ lpc = [l \in Logins |-> "start"]
    /\ snapHash = [l \in Logins |-> 0]
    /\ lepoch = [l \in Logins |-> 0]   /\ lgen = [l \in Logins |-> 0]
    /\ apc = [a \in Admins |-> "idle"] /\ op = [a \in Admins |-> "kick"]
    /\ todo = [a \in Admins |-> {}]
    /\ seenGen = [a \in Admins |-> 0]  /\ seenHash = [a \in Admins |-> 0]

-----------------------------------------------------------------------------
(* AuthService.Login                                                       *)

\* connector.Authenticate: the password is compared with the stored hash.
Authenticate(l) ==
    /\ lpc[l] = "start"
    /\ lpc' = [lpc EXCEPT ![l] = "authed"]
    /\ UNCHANGED <<dbVars, epoch, live, snapHash, lepoch, lgen, adminVars>>

\* resolveUser, and the first branches of completeLogin on the user it read.
ResolveLogin(l) ==
    /\ lpc[l] = "authed"
    /\ snapHash' = [snapHash EXCEPT ![l] = hash]
    /\ lpc' = [lpc EXCEPT ![l] = CASE ~CanLogin(status)         -> "err"
                                   [] status = "PENDING_DELETE" -> "revive"
                                   [] OTHER                     -> "epoch"]
    /\ UNCHANGED <<dbVars, epoch, live, lepoch, lgen, adminVars>>

\* UserService.SetStatus(ACTIVE) called by completeLogin, its read.
ReviveRead(l) ==
    /\ lpc[l] = "revive"
    /\ \/ /\ status = "ACTIVE"
          /\ lpc' = [lpc EXCEPT ![l] = "epoch"]
          /\ snapHash' = [snapHash EXCEPT ![l] = hash]
       \/ /\ <<status, "ACTIVE">> \in userTransitions
          /\ lpc' = [lpc EXCEPT ![l] = "rewrite"]
          /\ UNCHANGED snapHash
       \/ /\ status # "ACTIVE"
          /\ <<status, "ACTIVE">> \notin userTransitions
          /\ lpc' = [lpc EXCEPT ![l] = "err"]
          /\ UNCHANGED snapHash
    /\ UNCHANGED <<dbVars, epoch, live, lepoch, lgen, adminVars>>

\* ... and its UPDATE, which is conditional on the id only.
ReviveWrite(l) ==
    /\ lpc[l] = "rewrite"
    /\ status' = "ACTIVE" /\ gen' = gen + 1
    /\ snapHash' = [snapHash EXCEPT ![l] = hash]
    /\ \E next \in {"epoch", "err"} : lpc' = [lpc EXCEPT ![l] = next]
    /\ UNCHANGED <<hash, epoch, live, lepoch, lgen, adminVars>>

\* SessionService.Issue reads the epoch ...
ReadEpoch(l) ==
    /\ lpc[l] = "epoch"
    /\ lepoch' = [lepoch EXCEPT ![l] = epoch]
    /\ lgen' = [lgen EXCEPT ![l] = gen]
    /\ lpc' = [lpc EXCEPT ![l] = "put"]
    /\ UNCHANGED <<dbVars, epoch, live, snapHash, adminVars>>

\* ... and writes session key and user index in one MULTI.
PutSession(l) ==
    /\ lpc[l] = "put"
    /\ live' = live \cup {l}
    /\ \E next \in {"recheck", "err"} : lpc' = [lpc EXCEPT ![l] = next]
    /\ UNCHANGED <<dbVars, epoch, snapHash, lepoch, lgen, adminVars>>

\* Variants of recheckLoginable: without the status check, without the hash check.
RecheckWithoutStatus(l) ==
    /\ lpc[l] = "recheck"
    /\ lpc' = [lpc EXCEPT ![l] = IF hash = snapHash[l] THEN "ok" ELSE "undo"]
    /\ UNCHANGED <<dbVars, epoch, live, snapHash, lepoch, lgen, adminVars>>

RecheckWithoutHash(l) ==
    /\ lpc[l] = "recheck"
    /\ lpc' = [lpc EXCEPT ![l] = IF CanLogin(status) THEN "ok" ELSE "undo"]
    /\ UNCHANGED <<dbVars, epoch, live, snapHash, lepoch, lgen, adminVars>>

\* recheckLoginable: re-read the user; a read error counts as "not loginable".
RecheckLoginable(l) ==
    /\ lpc[l] = "recheck"
    /\ \/ lpc' = [lpc EXCEPT ![l] = IF CanLogin(status) /\ hash = snapHash[l]
                                      THEN "ok" ELSE "undo"]
       \/ lpc' = [lpc EXCEPT ![l] = "undo"]
    /\ UNCHANGED <<dbVars, epoch, live, snapHash, lepoch, lgen, adminVars>>

\* revokeIssued: a failure is only logged, the login is refused either way.
RevokeIssued(l) ==
    /\ lpc[l] = "undo"
    /\ live' \in {live, live \ {l}}
    /\ lpc' = [lpc EXCEPT ![l] = "err"]
    /\ UNCHANGED <<dbVars, epoch, snapHash, lepoch, lgen, adminVars>>

\* A step before the session is written fails without effect
\* (EnsureRegistration and TouchIdentityLogin fail here as well).
LoginError(l) ==
    /\ lpc[l] \in {"authed", "revive", "rewrite", "epoch", "put"}
    /\ lpc' = [lpc EXCEPT ![l] = "err"]
    /\ UNCHANGED <<dbVars, epoch, live, snapHash, lepoch, lgen, adminVars>>

\* A session ends: AuthService.Logout, the idle timeout, or Validate deleting
\* a session whose epoch is stale.
SessionEnds(l) ==
    /\ l \in live
    /\ lpc[l] = "ok" \/ lepoch[l] # epoch
    /\ live' = live \ {l}
    /\ UNCHANGED <<dbVars, epoch, loginVars, adminVars>>

-----------------------------------------------------------------------------
(* AccountService                                                          *)

\* What SetStatus does once the status is established.
AfterStatus(s) == IF CanLogin(s) THEN "done" ELSE "bump"

\* Variant: an account that already has the status is not fenced again.
SetStatusReadNoop(a) ==
    /\ apc[a] = "idle"
    /\ \E s \in Status :
          /\ op' = [op EXCEPT ![a] = s]
          /\ apc' = [apc EXCEPT ![a] =
                CASE status = s                        -> "done"
                  [] <<status, s>> \in userTransitions -> "write"
                  [] OTHER                             -> "failed"]
    /\ seenGen' = [seenGen EXCEPT ![a] = gen]
    /\ UNCHANGED <<dbVars, epoch, live, loginVars, todo, seenHash>>

\* UserService.SetStatus, its read: no change, a legal change, an illegal one.
SetStatusRead(a) ==
    /\ apc[a] = "idle"
    /\ \E s \in Status :
          /\ op' = [op EXCEPT ![a] = s]
          /\ apc' = [apc EXCEPT ![a] =
                CASE status = s                        -> AfterStatus(s)
                  [] <<status, s>> \in userTransitions -> "write"
                  [] OTHER                             -> "failed"]
    /\ seenGen' = [seenGen EXCEPT ![a] = gen]
    /\ UNCHANGED <<dbVars, epoch, live, loginVars, todo, seenHash>>

\* ... and its UPDATE, conditional on the id only.
SetStatusWrite(a) ==
    /\ apc[a] = "write"
    /\ status' = op[a] /\ gen' = gen + 1
    /\ seenGen' = [seenGen EXCEPT ![a] = gen + 1]
    /\ \E next \in {AfterStatus(op[a]), "failed"} : apc' = [apc EXCEPT ![a] = next]
    /\ UNCHANGED <<hash, epoch, live, loginVars, op, todo, seenHash>>

\* ResetPassword begins with UserService.SetPassword.
SetPassword(a) ==
    /\ apc[a] = "idle"
    /\ op' = [op EXCEPT ![a] = "reset"]
    /\ hash' = hash + 1
    /\ seenHash' = [seenHash EXCEPT ![a] = hash + 1]
    /\ \E next \in {"bump", "failed"} : apc' = [apc EXCEPT ![a] = next]
    /\ UNCHANGED <<status, gen, epoch, live, loginVars, todo, seenGen>>

\* RevokeUsersSessions has nothing to write before the epoch.
RevokeUsersSessions(a) ==
    /\ apc[a] = "idle"
    /\ op' = [op EXCEPT ![a] = "kick"]
    /\ apc' = [apc EXCEPT ![a] = "bump"]
    /\ UNCHANGED <<dbVars, epoch, live, loginVars, todo, seenGen, seenHash>>

\* Variant: DECR for INCR.
BumpDown(a) ==
    /\ apc[a] = "bump"
    /\ epoch' = epoch - 1
    /\ apc' = [apc EXCEPT ![a] = "list"]
    /\ UNCHANGED <<dbVars, live, loginVars, op, todo, seenGen, seenHash>>

\* EpochStore.Bump: INCR.
Bump(a) ==
    /\ apc[a] = "bump"
    /\ epoch' = epoch + 1
    /\ \E next \in {"list", "failed"} : apc' = [apc EXCEPT ![a] = next]
    /\ UNCHANGED <<dbVars, live, loginVars, op, todo, seenGen, seenHash>>

\* SessionStore.ListUserTokens, called by revokeUserTokens.
ListUserTokens(a) ==
    /\ apc[a] = "list"
    /\ todo' = [todo EXCEPT ![a] = live]
    /\ apc' = [apc EXCEPT ![a] = "sweep"]
    /\ UNCHANGED <<dbVars, epoch, live, loginVars, op, seenGen, seenHash>>

\* One turn of revokeUserTokens' loop: Get, then Delete; a token that is gone
\* is passed over.
RevokeToken(a) ==
    /\ apc[a] = "sweep"
    /\ \E l \in todo[a] :
          /\ live' = live \ {l}
          /\ todo' = [todo EXCEPT ![a] = @ \ {l}]
    /\ \E next \in {"sweep", "failed"} : apc' = [apc EXCEPT ![a] = next]
    /\ UNCHANGED <<dbVars, epoch, loginVars, op, seenGen, seenHash>>

\* The loop is over; the operation reports success.
AdminDone(a) ==
    /\ apc[a] = "sweep" /\ todo[a] = {}
    /\ apc' = [apc EXCEPT ![a] = "done"]
    /\ UNCHANGED <<dbVars, epoch, live, loginVars, op, todo, seenGen, seenHash>>

\* A round trip fails without effect; what was done stays done.
AdminError(a) ==
    /\ apc[a] \in {"write", "bump", "list", "sweep"}
    /\ apc' = [apc EXCEPT ![a] = "failed"]
    /\ UNCHANGED <<dbVars, epoch, live, loginVars, op, todo, seenGen, seenHash>>

-----------------------------------------------------------------------------
LoginStep(l) ==
    \/ Authenticate(l) \/ ResolveLogin(l) \/ ReviveRead(l) \/ ReviveWrite(l)
    \/ ReadEpoch(l) \/ PutSession(l) \/ RecheckLoginable(l) \/ RevokeIssued(l)
    \/ LoginError(l) \/ SessionEnds(l)

AdminStep(a) ==
    \/ SetStatusRead(a) \/ SetStatusWrite(a) \/ SetPassword(a)
    \/ RevokeUsersSessions(a) \/ Bump(a) \/ ListUserTokens(a) \/ RevokeToken(a)
    \/ AdminDone(a) \/ AdminError(a)

FenceNext == (\E l \in Logins : LoginStep(l)) \/ (\E a \in Admins : AdminStep(a))

FenceSpec == FenceInit /\ [][FenceNext]_fenceVars

-----------------------------------------------------------------------------
\* Types of the variables; only SetStatus has a status to write.
FenceTypeOK ==
    /\ status \in Status /\ hash \in Nat /\ epoch \in Nat /\ gen \in Nat
    /\ live \in SUBSET Logins
    /\ lpc \in [Logins -> LoginPc]
    /\ snapHash \in [Logins -> Nat]
    /\ lepoch \in [Logins -> Nat] /\ lgen \in [Logins -> Nat]
    /\ apc \in [Admins -> AdminPc] /\ op \in [Admins -> Ops]
    /\ todo \in [Admins -> SUBSET Logins]
    /\ seenGen \in [Admins -> Nat] /\ seenHash \in [Admins -> Nat]
    /\ \A a \in Admins : apc[a] = "write" => op[a] \in Status

\* An operation that made the account non-loginable reported success and the
\* status has not been written since.
Locks(a) == /\ apc[a] = "done"
            /\ op[a] \in Status /\ ~CanLogin(op[a])
            /\ seenGen[a] = gen

\* Tokens that a client holds and that Validate accepts.
Granted == {l \in Logins : lpc[l] = "ok" /\ Usable(l)}
Locked  == \E a \in Admins : Locks(a)

\* AccountService.SetStatus: once a freeze has been acknowledged, no token a
\* login ever handed out is accepted, whatever login raced the freeze.
FreezeFence == \A a \in Admins : Locks(a) => Granted = {}

\* AccountService.ResetPassword: once a reset has been acknowledged, no login
\* that had read the user before the new password was stored keeps its token.
ResetFence ==
    \A a \in Admins : apc[a] = "done" /\ op[a] = "reset" =>
        \A l \in Granted : snapHash[l] >= seenHash[a]

\* Login and account administration together implement AccountAccess.
Access == INSTANCE AccountAccess WITH granted <- Granted, locked <- Locked
AccessSpec == Access!ASpec

=============================================================================
