---------------------------- MODULE HostTopology ----------------------------
(***************************************************************************)
(* Which queues share a core of the host, and how long a packet is on its  *)
(* way without the link (build_queue_to_core, build_domain_pipeline and    *)
(* build_t_dma_one_way_fn of src/src/host_pipeline.py).  Queues and cores  *)
(* are numbered from 0.                                                    *)
(***************************************************************************)
EXTENDS Integers, Sequences, FiniteSets, FiniteSetsExt

QueueToCorePolicies == {"one_to_one", "round_robin", "block"}

CeilDiv(x, y) == (x + y - 1) \div y

(* Queues of a core under "block".  Mutant: rounded down.                  *)
per_Down(n_queues, n_cores) == Max({1, n_queues \div n_cores})

per(n_queues, n_cores) == Max({1, CeilDiv(n_queues, n_cores)})

build_queue_to_core(n_queues, n_cores, policy) ==
    [q \in 0..(n_queues - 1) |->
        IF policy = "block" THEN Min({n_cores - 1, q \div per(n_queues, n_cores)})
                            ELSE q % n_cores]

(* How many queues a core serves: each is slowed down by that factor.      *)
core_load(q2c, core) == Cardinality({q \in DOMAIN q2c : q2c[q] = core})

core_share_factor(q2c) == [q \in DOMAIN q2c |-> core_load(q2c, q2c[q])]

(* _t_app() of a queue that shares its core: with at least a tenth of the  *)
(* mean, all times in tenths.                                              *)
_t_app(mean, jitter, share, lookup) ==
    Max({mean, 10 * (mean + jitter)}) * share + 10 * lookup

-----------------------------------------------------------------------------
(* np.interp over rows [size, rtt] of increasing size: a straight line     *)
(* between two rows, constant outside them; a ratio.                       *)
Measured(rows) == {rows[i].size : i \in DOMAIN rows}

Whole(x) == [num |-> x, den |-> 1]

(* The last row at or before a size.                                       *)
Left(rows, size) == Max({1} \cup {i \in DOMAIN rows : rows[i].size <= size})

interp(rows, size) ==
    LET i == Left(rows, size)
        l == rows[i]
        r == rows[i + 1]
    IN  IF size <= l.size \/ i = Len(rows) THEN Whole(l.rtt)
        ELSE [num |-> l.rtt * (r.size - size) + r.rtt * (size - l.size),
              den |-> r.size - l.size]

(* T_dma is what a measured round trip leaves beside service and           *)
(* write-back, and at least 100 ns.                                        *)
t_dma(host, size) ==
    LET rtt == interp(host.rtt_table, size)
        rest == rtt.num - rtt.den * (host.t_app_base + host.t_wb)
    IN  [rtt EXCEPT !.num = Max({100 * rtt.den, rest})]
=============================================================================
