---------------------------- MODULE MCLoginFence ----------------------------
(* A few logins and administrative operations of one user; an operation may*)
(* be of any kind, so freeze followed by unfreeze and retries occur.       *)
EXTENDS LoginFence, TLC

Perms == Permutations(Logins) \cup Permutations(Admins)
=============================================================================
