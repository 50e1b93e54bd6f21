--------------------------- MODULE AccountAccess ---------------------------
(***************************************************************************)
(* What the login path and the account administration promise together,    *)
(* seen by the holders of tokens: while an account is locked nobody holds  *)
(* a usable token, and nobody obtains one.  Locking is only reported once  *)
(* the last usable token is gone.  LoginFence implements this.             *)
(***************************************************************************)
CONSTANT Logins            \* one login attempt, hence at most one token, each

VARIABLES granted,         \* logins whose token was handed out and is usable
          locked           \* an administrator was told the account is locked

avars == <<granted, locked>>

AInit == granted = {} /\ locked = FALSE

\* A login succeeds; impossible while the account is locked.
Grant(l) == /\ ~locked
            /\ granted' = granted \cup {l}
            /\ UNCHANGED locked

\* Tokens stop being usable: a bump of the epoch, a sweep, an expiry, a logout.
Withdraw(S) == /\ granted' = granted \ S
               /\ UNCHANGED locked

\* The lock is acknowledged, and by then no token is usable.
Lock == /\ granted = {}
        /\ locked' = TRUE
        /\ UNCHANGED granted

\* The account's status moves on.
Unlock == locked' = FALSE /\ UNCHANGED granted

ANext == \/ \E l \in Logins : Grant(l)
         \/ \E S \in SUBSET Logins : Withdraw(S)
         \/ Lock
         \/ Unlock

ASpec == AInit /\ [][ANext]_avars
=============================================================================
