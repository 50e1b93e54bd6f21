---------------------------- MODULE MCImServing ----------------------------
(* Small instances of ImServing: where the streams and the connections are,*)
(* who may stop, which faults happen.                                      *)
EXTENDS ImServing

CONSTANTS a, b, c, s1, s2, k1, k2

Weights == [n \in Nodes |-> CASE n = a -> 3 [] n = b -> 2 [] OTHER -> 1]

Inst(part, place, ticking, messages, stopping, kinds, bound) ==
    [part |-> part, at |-> place, weight |-> Weights, hash |-> 1, ticks |-> ticking,
     ups |-> messages, stops |-> stopping, faults |-> bound, kinds |-> kinds]

Place(x, y, z) == [m \in Streams \cup Conns |-> CASE m = s1 -> x [] m = s2 -> y [] OTHER -> z]

(* Two streams of one node come and go while its loop writes the table.    *)
Declaring == Inst({a, s1, s2}, Place(a, a, a), {a}, {}, {}, {"redis"}, 2)

(* A connection on c, a stream on a and one on b; a may crash, a publish   *)
(* may fail or fail after it arrived.                                      *)
Routing(kinds, messages) ==
    Inst({a, b, c, s1, s2, k1}, Place(a, b, c), {c}, messages, {}, kinds, 1)

(* Two connections and the streams on the node that stops.                 *)
Draining == Inst({c, s1, k1, k2}, Place(c, c, c), {}, {k1}, {c}, {"budget"}, 1)

(* The node that stops has one of the streams.                             *)
Leaving == Inst({a, c, s1, s2, k1}, Place(a, c, c), {}, {}, {c}, {"redis"}, 1)

MCInstances == {Declaring, Routing({"redis", "unsure", "crash"}, {}), Draining, Leaving}
=============================================================================
