------------------------ MODULE MCStatelessScheduler ------------------------
(* A small instance of StatelessScheduler for TLC: with these weights some *)
(* buckets fit nowhere, some only after another has left; all queues may   *)
(* be hot, so that a bucket is received and moved on in one pass; and the  *)
(* blend of pressure and risk can lie between the two.                     *)
EXTENDS StatelessScheduler

CONSTANTS q1, q2, q3, b1, b2, b3

Names == {"static", "proposed", "reactive_no_pred", "pred_greedy", "pred_qp_oneshot"}
=============================================================================
