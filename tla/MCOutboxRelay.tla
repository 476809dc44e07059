---------------------------- MODULE MCOutboxRelay ----------------------------
(* Two replicas; the timer of the first can fire while a tick of it waits    *)
(* for the lock, so it has two ticks under way.                              *)
EXTENDS OutboxRelay

CONSTANTS i1, i2, t1, t2, t3, nobody

MCInstanceOf == [t \in Tick |-> IF t = t3 THEN i2 ELSE i1]
=============================================================================
