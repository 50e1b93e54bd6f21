----------------------------- MODULE MCImEntry -----------------------------
(* Instances of ImEntry.  Sharing: two clients with one token, by code and *)
(* by id, one of which may be kicked.  Crossing: clients of two            *)
(* applications and a revocation of all.  Guests: three guests of one      *)
(* address and a clock.  Returning: a client whose connections are closed  *)
(* or broken twice.  Refusing: the same with the other codes and refusals. *)
(* Business: the token of the business.  Outage: fp and nodes fail, and    *)
(* nothing else happens.                                                   *)
EXTENDS ImEntry

CONSTANTS c1, c2, c3, a1, a2, t1, t2

Client(kind, app, by, token) == [kind |-> kind, app |-> app, by |-> by, token |-> token]

Sharing ==
    [who |-> (c1 :> Client("fp", a1, "code", t1) @@ c2 :> Client("fp", a1, "id", t1)
                @@ c3 :> Client("fp", a2, "code", t2)),
     part |-> {c1, c2}, revokes |-> {[app |-> a1, tokens |-> {t1}]},
     ticks |-> 0, closes |-> {4003}, faults |-> 1, kinds |-> {}]

Crossing ==
    [Sharing EXCEPT !.part = {c1, c3}, !.revokes = {[app |-> All, tokens |-> {t1, t2}]}, !.kinds = {"gap"}]

Guests ==
    [who |-> [c \in Clients |-> Client("guest", a1, "id", t1)],
     part |-> Clients, revokes |-> {}, ticks |-> Minute, closes |-> {}, faults |-> 0, kinds |-> {}]

Returning ==
    [who |-> [c \in Clients |-> Client("fp", a1, "id", t1)],
     part |-> {c1}, revokes |-> {[app |-> a1, tokens |-> {t1}]},
     ticks |-> 0, closes |-> {4003, 4005}, faults |-> 2, kinds |-> {"net", "node", "fp", "close"}]

Refusing ==
    [Returning EXCEPT !.revokes = {}, !.closes = {4004, 1013}, !.kinds = {"redis", "full", "slow"}]

Business ==
    [Returning EXCEPT !.who = [c \in Clients |-> Client("biz", a1, "code", t1)],
                      !.revokes = {}, !.kinds = {"net", "node", "biz"}]

Outage == [Returning EXCEPT !.revokes = {}, !.closes = {}, !.kinds = {"node", "fp"}]

MCInstances == {Sharing, Crossing, Guests, Returning, Refusing, Business, Outage}

=============================================================================
