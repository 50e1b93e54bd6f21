------------------------------ MODULE MCNotify ------------------------------
(* One caller that retries, and two callers with the same key, each with a *)
(* fault; and one caller while the console changes providers, templates    *)
(* and links.                                                              *)
EXTENDS Notify, TLC

Sending(ch, cs, n) == [channel |-> ch, clients |-> cs, attempts |-> n, params |-> {Vars},
                       ops |-> 0, faults |-> 1]
Changing(ch, n) == [channel |-> ch, clients |-> Clients, attempts |-> 1, params |-> {Vars, {}},
                 ops |-> n, faults |-> 0]
Cases == {Sending("sms", {c}, 3) : c \in Clients}
         \cup {Sending("sms", Clients, 1), Sending("im", Clients, 1),
               Changing("sms", 2), Changing("im", 1)}
Symmetric == Permutations(Clients)
=============================================================================
