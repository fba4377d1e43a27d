----------------------------- MODULE MCDelivery -----------------------------
(* A small instance of StatefulDelivery for TLC: two queues, two buckets   *)
(* that start on the same queue, handoffs of exactly one epoch and of two, *)
(* a buffer and rings that a few packets fill.                             *)
EXTENDS StatefulDelivery

CONSTANTS q1, q2, b1, b2

MCSharedTable == {[b \in Buckets |-> q1]}

(* Every bucket sends two packets in every bin, any of which may be lost   *)
(* on delivery; a buffer of 7 bytes holds the first pair of a bucket in    *)
(* transition and cuts the next within a packet.                           *)
PairLoads == {[bytes |-> 5, pkts |-> 2]}

MCLatencies == {2, 3}
=============================================================================
