-------------------------- MODULE MCQueuePipeline --------------------------
(* A small instance of QueuePipeline for TLC: a ring of two descriptors,   *)
(* a core that may need less than a bin or two bins for one packet, and    *)
(* packets that overtake each other on their way to the ring.              *)
EXTENDS QueuePipeline

MCServiceTimes == {1, 5}
MCTransitTimes == {1, 3}
=============================================================================
