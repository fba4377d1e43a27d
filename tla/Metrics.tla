------------------------------ MODULE Metrics ------------------------------
(***************************************************************************)
(* What is logged of an epoch and summed up over a run (src/src/metrics.py)*)
(* A ratio is a numerator with its denominator, without the terms that     *)
(* only keep a quotient from dividing by zero.                             *)
(***************************************************************************)
EXTENDS Telemetry

One == [num |-> 1, den |-> 1]
Zero == [num |-> 0, den |-> 1]

(* Jain's index of x over S.                                               *)
fairness(x, S) ==
    LET s  == Sum(x, S)
        sq == Sum([i \in S |-> x[i] * x[i]], S)
    IN  IF s <= 0 \/ sq <= 0 THEN One
        ELSE [num |-> s * s, den |-> Cardinality(S) * sq]

(* The Gini coefficient, from the ranks of the sorted values.              *)
(* Mutant: ranks that start at 0.                                          *)
Weighted_FromZero(sx) == Sum([i \in DOMAIN sx |-> (i - 1) * sx[i]], DOMAIN sx)

Weighted(sx) == Sum([i \in DOMAIN sx |-> i * sx[i]], DOMAIN sx)

imbalance(x, S) ==
    LET s  == Sum(x, S)
        n  == Cardinality(S)
        sx == Sorted([i \in 1..n |-> x[SetToSeq(S)[i]]])
    IN  IF n = 0 \/ s = 0 THEN Zero
        ELSE [num |-> 2 * Weighted(sx) - (n + 1) * s, den |-> n * s]

(* The row of an epoch.                                                    *)
log_epoch(s, epoch, telem, reassigned) ==
    LET bytes == [q \in s.queues |-> telem.gen[q].bytes]
    IN  [time_interval |-> epoch,
         gen   |-> Total(telem.gen, s.queues),
         adm   |-> Total(telem.adm, s.queues),
         drop  |-> Total(telem.drop, s.queues),
         fairness_B  |-> fairness(bytes, s.queues),
         imbalance_B |-> imbalance(bytes, s.queues),
         P_q     |-> telem.P_q,
         latency |-> telem.latency,
         reassignments |-> reassigned]

(* summary(): sums over the rows, and the worst latency.                   *)
summary(rows) ==
    LET Over(v) == Sum(v, DOMAIN rows)
    IN  [epochs |-> Len(rows),
         gen  |-> Over([i \in DOMAIN rows |-> rows[i].gen.bytes]),
         adm  |-> Over([i \in DOMAIN rows |-> rows[i].adm.bytes]),
         drop |-> Over([i \in DOMAIN rows |-> rows[i].drop.bytes]),
         total_reassignments |-> Over([i \in DOMAIN rows |-> rows[i].reassignments]),
         worst_lat_max |-> Max({0} \cup {rows[i].latency.max : i \in DOMAIN rows})]
=============================================================================
