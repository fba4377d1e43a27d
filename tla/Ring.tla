-------------------------------- MODULE Ring --------------------------------
(***************************************************************************)
(* What a queue of the host pipeline promises, without times: packets are  *)
(* numbered in order of admission, at most Depth of them are in flight,    *)
(* and they complete in the order in which they were admitted, none        *)
(* skipped, none twice.                                                    *)
(***************************************************************************)
EXTENDS Integers, Sequences

CONSTANT Depth

VARIABLES
    ring,   \* the packets in flight, the oldest first
    next    \* the number of the next packet to be admitted

Init == ring = << >> /\ next = 0

(* A call on the queue first completes the n oldest packets, then may      *)
(* admit one if there is room.                                             *)
After(n) == SubSeq(ring, n + 1, Len(ring))

Complete(n) == ring' = After(n) /\ UNCHANGED next

Admit(n) ==
    /\ Len(After(n)) < Depth
    /\ ring' = Append(After(n), next)
    /\ next' = next + 1

Next == \E n \in 0..Len(ring) : Complete(n) \/ Admit(n)

Spec == Init /\ [][Next]_<<ring, next>>

=============================================================================
