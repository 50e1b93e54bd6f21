---------------------------- MODULE MCRevokePush ----------------------------
(* One SDK client of one fp server, with small buffers and windows.        *)
EXTENDS RevokePush

(* Faults and a full buffer, in no time; windows that pass, with a fault,  *)
(* and with entries that serve while fp cannot be reached.                 *)
Delivery  == [ttl |-> 1, stale |-> 0, others |-> 1, breaks |-> 2, time |-> 0, logout |-> FALSE]
Leaving   == [Delivery EXCEPT !.breaks = 1, !.logout = TRUE]
Degraded  == [ttl |-> 2, stale |-> 0, others |-> 0, breaks |-> 1, time |-> 3, logout |-> FALSE]
Staleness == [ttl |-> 2, stale |-> 1, others |-> 0, breaks |-> 0, time |-> 4, logout |-> TRUE]

MCInstances == {Delivery, Leaving, Degraded, Staleness}
=============================================================================
