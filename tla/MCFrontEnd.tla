----------------------------- MODULE MCFrontEnd -----------------------------
(* A small instance of FrontEnd for TLC: every layout of a domain beside a *)
(* plain one, every arbiter on a plain layout, and configurations that     *)
(* fail a check.                                                           *)
EXTENDS FrontEnd

Host == [rtt_table |-> <<[size |-> 2, rtt |-> 120], [size |-> 4, rtt |-> 150],
                         [size |-> 7, rtt |-> 160]>>,
         t_app_base |-> 10, t_wb |-> 20]

Plain == [num_queues |-> 2, num_buckets |-> 2, num_cores |-> 2,
          initial_rss |-> "modulo", queue_to_core_map |-> "one_to_one"]

Layouts ==
    {[Plain EXCEPT !.num_queues = q, !.num_cores = c, !.queue_to_core_map = m] :
        q \in 1..6, c \in 1..4, m \in {"round_robin", "block"}} \cup
    {[Plain EXCEPT !.num_queues = q, !.num_buckets = b, !.initial_rss = i] :
        q \in 1..7, b \in {1, 4, 5, 12, 15, 23}, i \in {"modulo", "skewed"}} \cup
    {[Plain EXCEPT !.num_buckets = 3, !.initial_rss = "random"],
     [Plain EXCEPT !.initial_rss = "even"], [Plain EXCEPT !.queue_to_core_map = "none"]}

Arbiters ==
    [policy : ArbiterPolicies \cup {"fifo"}, w : {Pair(2, 1), Pair(1, 1)}, cap : {3, 4}]

Default ==
    [weights |-> [w1 |-> 3, w2 |-> 2, w3 |-> 5], etas |-> [eta1 |-> 6, eta2 |-> 4],
     alpha_blend |-> 5, enabled |-> Pair(TRUE, TRUE),
     topology |-> Pair(Plain, Plain), host |-> Host,
     arbiter |-> [policy |-> "wrr", w |-> Pair(2, 1), cap |-> 3]]

MCConfigs ==
    {[Default EXCEPT !.topology = Pair(l, Plain)] : l \in Layouts} \cup
    {[Default EXCEPT !.topology = Pair(Plain, l)] : l \in Layouts} \cup
    {[Default EXCEPT !.arbiter = a, !.enabled = Pair(s, f)] :
        a \in Arbiters, s \in BOOLEAN, f \in BOOLEAN} \cup
    {[Default EXCEPT !.weights.w1 = 4], [Default EXCEPT !.etas.eta1 = 5],
     [Default EXCEPT !.alpha_blend = 11]}
=============================================================================
