---------------------------- MODULE MCImStream ----------------------------
(* Small instances of ImStream, in which every limit is one and is reached.*)
EXTENDS ImStream

CONSTANTS c1, c2, n1, p1, p2

Inst(requests, room, dials, written, bound, kinds) ==
    [part |-> requests, streams |-> dials, frames |-> written, faults |-> bound,
     kinds |-> kinds, window |-> room, workers |-> 1, queue |-> 1, misses |-> 2]

(* More frames than the queue, the window and the callback take, and a     *)
(* callback that calls.                                                    *)
Crowded == Inst({c1, c2, n1}, 1, 1, 4, 0, {})

(* The stream ends under calls in flight.                                  *)
Broken == Inst({c1, n1}, 1, 2, 2, 1, {"break", "stop", "close", "timeout"})

(* Nothing passes any more, and only the heartbeat can tell, while its     *)
(* pings still find room on the stream.                                    *)
Stalled == Inst({c1, p1, p2}, 2, 2, 0, 1, {"stall"})

MCInstances == {Crowded, Broken, Stalled}
=============================================================================
