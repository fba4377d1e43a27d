------------------------------ MODULE FrontEnd ------------------------------
(***************************************************************************)
(* The front of the simulator: a configuration is checked, the tables and  *)
(* the cores of both domains are laid out, and bin after bin the arbiter   *)
(* divides the link between them (Config.__post_init__ of                  *)
(* src/src/config.py, Simulator.__init__ and _init_domain of               *)
(* src/src/sim.py, Arbiter of src/src/arbiter.py).                         *)
(*                                                                         *)
(* A configuration is a record with the fields weights (of the telemetry), *)
(* etas, alpha_blend, enabled, topology, host and arbiter; weights are in  *)
(* parts of WeightUnit.                                                    *)
(***************************************************************************)
EXTENDS Arbiter, RssTable, HostTopology

CONSTANTS
    Configs,        \* the configurations that may be given
    Loads,          \* bytes a domain may bring in a bin
    WeightUnit,     \* the weight 1
    MaxOverloads    \* overloaded bins, to keep the state space finite

ASSUME FrontEndAssumption ==
    /\ Loads \subseteq Nat
    /\ MaxOverloads \in Nat
    /\ \A c \in Configs :
          /\ c.arbiter.cap \in Nat \ {0}
          /\ c.arbiter.w \in [Egress -> Nat \ {0}]
          /\ c.enabled \in [Egress -> BOOLEAN]
          /\ c.arbiter.policy \in STRING

(* A domain has queues, buckets and cores.                                 *)
ASSUME TopologyAssumption ==
    \A c \in Configs, d \in Egress :
        /\ c.topology[d].num_queues \in Nat \ {0}
        /\ c.topology[d].num_buckets \in Nat \ {0}
        /\ c.topology[d].num_cores \in Nat \ {0}

(* np.interp asks for measurements in the order of their sizes.            *)
ASSUME HostAssumption ==
    \A c \in Configs :
        LET h == c.host
        IN  /\ h.t_app_base \in Nat /\ h.t_wb \in Nat
            /\ h.rtt_table \in Seq([size : Nat, rtt : Nat]) /\ h.rtt_table # << >>
            /\ \A i, j \in DOMAIN h.rtt_table :
                  i < j => h.rtt_table[i].size < h.rtt_table[j].size

VARIABLES
    config,
    phase,      \* "config", a domain to be built, "arbiter", "run" or "failed"
    rss,        \* domain |-> initial table
    q2c,        \* domain |-> queue |-> core
    share,      \* domain |-> queue |-> core_share_factor
    deficit,    \* _drr_s and _drr_t
    offered,    \* domain |-> bytes of the last bin
    granted,    \* the shares of the last bin
    overloads,  \* overloaded bins so far; not in the code
    paid,       \* domain |-> what it was granted in them; not in the code
    cut         \* whether drr ever scaled its shares down; not in the code

layoutVars == <<rss, q2c, share>>
arbiterVars == <<deficit, offered, granted, overloads, paid, cut>>
vars == <<config, phase, layoutVars, arbiterVars>>

NotBuilt == << >>

Init ==
    /\ config \in Configs
    /\ phase = "config"
    /\ rss = [d \in Egress |-> NotBuilt]
    /\ q2c = [d \in Egress |-> NotBuilt]
    /\ share = [d \in Egress |-> NotBuilt]
    /\ deficit = [d \in Egress |-> 0]
    /\ offered = [d \in Egress |-> 0]
    /\ granted = Undivided(0, 0)
    /\ overloads = 0
    /\ paid = [d \in Egress |-> 0]
    /\ cut = FALSE

-----------------------------------------------------------------------------
(* Config.__post_init__ and the first check of Simulator.__init__.         *)
WeightsValid(c) ==
    /\ c.weights.w1 + c.weights.w2 + c.weights.w3 = WeightUnit
    /\ c.etas.eta1 + c.etas.eta2 = WeightUnit
    /\ c.alpha_blend \in 0..WeightUnit

SomeEnabled(c) == \E d \in Egress : c.enabled[d]

CheckConfig ==
    /\ phase = "config"
    /\ phase' = IF WeightsValid(config) /\ SomeEnabled(config) THEN "stateless"
                                                              ELSE "failed"
    /\ UNCHANGED <<config, layoutVars, arbiterVars>>

(* _init_domain(): an unknown name of a table or of a map raises.          *)
NamesKnown(t) == t.initial_rss \in RssInits /\ t.queue_to_core_map \in QueueToCorePolicies

_init_domain(d) ==
    LET t == config.topology[d]
    IN  /\ phase = d
        /\ NamesKnown(t)
        /\ \E table \in InitialTables(t.initial_rss, t.num_buckets, t.num_queues) :
              rss' = [rss EXCEPT ![d] = table]
        /\ q2c' = [q2c EXCEPT ![d] =
                      build_queue_to_core(t.num_queues, t.num_cores, t.queue_to_core_map)]
        /\ share' = [share EXCEPT ![d] = core_share_factor(q2c'[d])]
        /\ phase' = IF d = "stateless" THEN "stateful" ELSE "arbiter"
        /\ UNCHANGED <<config, arbiterVars>>

NameUnknown(d) ==
    /\ phase = d
    /\ ~NamesKnown(config.topology[d])
    /\ phase' = "failed"
    /\ UNCHANGED <<config, layoutVars, arbiterVars>>

(* Arbiter.__post_init__.                                                  *)
MakeArbiter ==
    /\ phase = "arbiter"
    /\ phase' = IF config.arbiter.policy \in ArbiterPolicies THEN "run" ELSE "failed"
    /\ deficit' = [d \in Egress |-> 0]
    /\ UNCHANGED <<config, layoutVars, offered, granted, overloads, paid, cut>>

-----------------------------------------------------------------------------
(* Steps 1 and 2 of _process_bin_merged; a disabled domain brings nothing. *)
Brings(d) == IF config.enabled[d] THEN Loads ELSE {0}

Whole_shares(sh) == [d \in Egress |-> sh.num[d] \div sh.den]

Arbitrate(bytes) ==
    LET a    == config.arbiter
        sh   == shares(a, deficit, bytes)
        over == Overloaded(a, bytes)
    IN  /\ offered' = bytes
        /\ granted' = sh
        /\ deficit' = deficits(a, deficit, bytes)
        /\ overloads' = IF over THEN overloads + 1 ELSE overloads
        /\ paid' = IF over THEN [d \in Egress |-> paid[d] + Whole_shares(sh)[d]] ELSE paid
        /\ cut' = IF sh.den > 1 THEN TRUE ELSE cut

Bin ==
    /\ phase = "run"
    /\ overloads < MaxOverloads
    /\ \E sl \in Brings("stateless"), sf \in Brings("stateful") : Arbitrate(Pair(sl, sf))
    /\ UNCHANGED <<config, phase, layoutVars>>

Next ==
    \/ CheckConfig
    \/ \E d \in Egress : _init_domain(d) \/ NameUnknown(d)
    \/ MakeArbiter
    \/ Bin

Spec == Init /\ [][Next]_vars

-----------------------------------------------------------------------------
CountOf(table, q) == Cardinality({b \in DOMAIN table : table[b] = q})

(* Every bucket has a queue.  A modulo table gives no queue two buckets    *)
(* more than another; a skewed one of three or more queues gives the two   *)
(* hot queues a majority, the hottest first, and all others the same       *)
(* number, however the rounding of its weights came out.                   *)
TableSound(t, table) ==
    LET Qs == 0..(t.num_queues - 1)
        n(q) == CountOf(table, q)
    IN  /\ DOMAIN table = 0..(t.num_buckets - 1)
        /\ \A b \in DOMAIN table : table[b] \in Qs
        /\ t.initial_rss = "modulo" => \A q, r \in Qs : n(q) <= n(r) + 1
        /\ t.initial_rss = "skewed" /\ t.num_queues > 2 =>
              /\ 2 * (n(0) + n(1)) > t.num_buckets
              /\ n(0) >= n(1)
              /\ \A q, r \in Qs \ {0, 1} : n(q) = n(r) /\ n(q) <= n(1)

(* No core serves more queues than an even distribution needs, under any   *)
(* policy and any ratio of queues to cores.                                *)
CoresBalanced(t, cores, factor) ==
    \A q \in DOMAIN cores :
        /\ cores[q] \in 0..(t.num_cores - 1)
        /\ factor[q] <= CeilDiv(t.num_queues, t.num_cores)

(* A packet of a measured size, alone on a core it does not share, takes   *)
(* the measured round trip, unless less than 100 ns would be left for the  *)
(* transit; in tenths.  A larger packet is never faster, if none of those  *)
(* measured was.                                                           *)
RoundTrip(h, t) == t.num * 10 + t.den * (_t_app(h.t_app_base, 0, 1, 0) + 10 * h.t_wb)

Grows(rows) == \A i, j \in DOMAIN rows : i <= j => rows[i].rtt <= rows[j].rtt

TransitsCalibrated(h) ==
    LET Spare(i) == h.rtt_table[i].rtt - h.t_app_base - h.t_wb
    IN  /\ \A i \in DOMAIN h.rtt_table :
              Spare(i) >= 100 =>
                 LET t == t_dma(h, h.rtt_table[i].size)
                 IN  RoundTrip(h, t) = t.den * 10 * h.rtt_table[i].rtt
        /\ Grows(h.rtt_table) => \A s \in 0..Max(Measured(h.rtt_table)) :
              LET t == t_dma(h, s)
                  u == t_dma(h, s + 1)
              IN  t.num * u.den <= u.num * t.den

(* What the simulator starts with is sound in both domains: their tables,  *)
(* their cores and the calibration of their transits.                      *)
DomainsProvisioned ==
    phase = "run" =>
        /\ \A d \in Egress :
              /\ TableSound(config.topology[d], rss[d])
              /\ CoresBalanced(config.topology[d], q2c[d], share[d])
        /\ TransitsCalibrated(config.host)

(* The shares respect the link in every bin, whatever deficits have piled  *)
(* up: no domain gets more than it brings or, together, more than the cap. *)
(* Only drr leaves capacity unused in an overload, and under wrr a domain  *)
(* gets its part of the cap whenever it needs it.                          *)
Divides(sh, b, cap) ==
    /\ sh.den \in Nat \ {0}
    /\ \A d \in Egress : sh.num[d] \in 0..(sh.den * b[d])
    /\ Both(sh.num) <= sh.den * cap

ScaledBytes(a, bytes) == [d \in Egress |-> Scaled(a, bytes[d])]

WithinCap(a, bytes, sh) ==
    LET b   == ScaledBytes(a, bytes)
        cap == Scaled(a, a.cap)
    IN  IF Overloaded(a, bytes)
        THEN /\ Divides(sh, b, cap)
             /\ a.policy # "drr" => Both(sh.num) = sh.den * cap
             /\ a.policy = "wrr" =>
                   \A d \in Egress : sh.num[d] >= Least(b[d], Part(a, d))
        ELSE sh.den = 1 /\ \A d \in Egress : sh.num[d] = b[d]

SharesWithinCap == WithinCap(config.arbiter, offered, granted)

(* Over all overloaded bins deficit round robin grants no domain more than *)
(* its part of the link, and what it has not granted is still owed to it   *)
(* unless shares were scaled down after they were charged.                 *)
DrrEntitlement ==
    config.arbiter.policy = "drr" =>
        \A d \in Egress :
            /\ deficit[d] >= 0
            /\ paid[d] + deficit[d] <= overloads * Part(config.arbiter, d)
            /\ ~cut => paid[d] + deficit[d] = overloads * Part(config.arbiter, d)

=============================================================================
