----------------------------- MODULE MCSession -----------------------------
(* SessionLifecycle with a handful of requests on one session.             *)
EXTENDS SessionLifecycle, TLC

CONSTANTS v1, v2, v3, r1, r2

(* Two requests that rotate and extend together, past the end of the       *)
(* session's life; one with a logout and a bump of the epoch; one with two *)
(* logouts.                                                                *)
Rotating == [validators |-> {v1, v2}, revokers |-> {}, life |-> 4, epochs |-> 0, time |-> 5]
Revoking == [validators |-> {v3}, revokers |-> {r1}, life |-> 5, epochs |-> 1, time |-> 4]
TwoLogouts == [validators |-> {v3}, revokers |-> {r1, r2}, life |-> 3, epochs |-> 0, time |-> 3]

MCInstances == {Rotating, Revoking, TwoLogouts}

Perms == Permutations({v1, v2}) \cup Permutations({r1, r2})
=============================================================================
