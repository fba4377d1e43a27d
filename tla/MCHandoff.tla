----------------------------- MODULE MCHandoff -----------------------------
(* A small instance of Handoff for TLC.                                    *)
EXTENDS Handoff

CONSTANTS q1, q2, q3, q4, b1, b2, b3

(* One table up to a renaming of the queues: two buckets share a queue.    *)
MCSharedTable == {[b \in Buckets |-> IF b \in {b1, b2} THEN q1 ELSE q2]}

(* The protocol is checked without traffic: MCDelivery adds it.            *)
NoLoads == {NoTraffic}

MCLatencies == {1, 2, 5}
=============================================================================
