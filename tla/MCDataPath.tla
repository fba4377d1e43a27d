----------------------------- MODULE MCDataPath -----------------------------
(* A small instance of DataPath for TLC: two queues per domain; two       *)
(* stateless buckets of equal loads, which a table puts on one queue or on *)
(* two, and a stateful one, which can leave packets behind in the ring of  *)
(* its former queue; batches that tie, that overload the link's FIFO and a *)
(* handoff's buffer, and one that together with the other domain's exceeds *)
(* the cap of the arbiter.                                                 *)
EXTENDS DataPathQueues

CONSTANTS q1, q2, b1, b2

Per(sl, sf) == [stateless |-> sl, stateful |-> sf]

MCQueues == Per({q1, q2}, {q1, q2})
MCBuckets == Per({b1, b2}, {b1})
MCRings == Per(1, 2)
MCServiceTimes == Per({1}, {2})
MCTransits == [size \in 1..3 |-> 2]
MCEpochBins == Per(2, 1)
MCNumEpochs == Per(2, 3)
MCTables == Per([x \in {b1, b2} |-> IF x = b1 THEN q1 ELSE q2], [x \in {b1} |-> q1])

P(at, size, bucket) == [at |-> at, size |-> size, bucket |-> bucket]

MCBatches == Per({<<P(1, 2, b1), P(1, 2, b2)>>},
                 {<< >>, <<P(0, 1, b1), P(2, 2, b1)>>})

MCArbiter == [policy |-> "wrr", w |-> Per(2, 1), cap |-> 6]
MCWeight == [w1 |-> 3, w2 |-> 2, w3 |-> 5, eps |-> 0]
=============================================================================
