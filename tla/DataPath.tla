------------------------------ MODULE DataPath ------------------------------
(***************************************************************************)
(* The packets of both domains on their way through a bin and an epoch     *)
(* (Simulator of src/src/sim.py): the arbiter, the withholding of buckets  *)
(* in transition, the merge of both streams in the order of their          *)
(* timestamps, the credit check, the shared PCIe link, the queues of the   *)
(* host, the telemetry and the two epoch boundaries.                       *)
(*                                                                         *)
(* The link is the one of PCIeLink, its variables are used as they are;    *)
(* every queue is checked to behave as the queue of QueuePipeline.  Open   *)
(* here are the packets a bin brings, the table a scheduler returns and    *)
(* the moves it reports, and which handoffs begin and end at a boundary    *)
(* (Handoff says which may).                                               *)
(***************************************************************************)
EXTENDS PCIeLink, Metrics, Arbiter

CONSTANTS
    Queues, Buckets,    \* of a domain
    D_q,                \* descriptor ring depth of a domain
    ServiceTimes,       \* values of _t_app in a domain
    T_dma,              \* transit of a packet of a size without the link
    TWb,                \* t_wb_ns
    BinNs,              \* delta_bin_ns
    EpochBins,          \* epoch_bins of a domain
    NumEpochs,          \* num_epochs_for(domain)
    InitTables,         \* the table a domain starts with
    Batches,            \* what a domain may bring in a bin: sequences of
                        \* packets by time, [at, size, bucket]
    LinkModes,          \* values of use_pcie_link
    arb,                \* the arbiter's policy, weights and cap
    Weight,             \* w1, w2, w3 and eps of the telemetry
    MaxConcurrent,      \* max_concurrent_handoffs
    BufferCapacity,     \* handoff_buffer_bytes
    MaxUndone           \* bound: moves of one call of the stateless scheduler
                        \* that leave no trace in its table

EndOfRun ==
    BinNs * Later(EpochBins["stateless"] * NumEpochs["stateless"],
                  EpochBins["stateful"] * NumEpochs["stateful"])

ASSUME DataPathAssumption ==
    /\ Domains = Egress
    /\ BinNs \in Nat \ {0}
    /\ MaxTime >= EndOfRun
    /\ \A d \in Domains :
          /\ IsFiniteSet(Queues[d]) /\ Queues[d] # {} /\ IsFiniteSet(Buckets[d])
          /\ D_q[d] \in Nat
          /\ EpochBins[d] \in Nat \ {0} /\ NumEpochs[d] \in Nat
          /\ Batches[d] \subseteq
                Seq([at : 0..(BinNs - 1), size : Sizes, bucket : Buckets[d]])
    /\ DOMAIN InitTables = Domains
    /\ \A d \in Domains : InitTables[d] \in [Buckets[d] -> Queues[d]]
    /\ LinkModes \subseteq BOOLEAN
    /\ BufferCapacity \in Nat /\ MaxUndone \in Nat
    /\ \A x \in {"w1", "w2", "w3", "eps"} : Weight[x] \in Nat

VARIABLES
    use_pcie_link,
    pipeline,   \* domain |-> queue |-> QueuePipeline
    rss,        \* domain |-> bucket |-> queue
    telem,      \* domain |-> telemetry
    log,        \* domain |-> rows
    deficit,    \* _drr_s and _drr_t
    handoffs,   \* pending of the handoff manager: bucket |-> handoff
    finished,   \* handoffs whose buffers are still to be released
    generated,  \* domain |-> bucket |-> what it generated in this bin
    todo,       \* packets of this bin not yet processed
    lost,       \* domain |-> queue |-> bytes thinned or withheld in this
                \* epoch; not in the code
    t_start,    \* start of the running or next bin
    in_epoch,   \* domain |-> bin_in_epoch
    epoch,      \* domain |-> epoch_idx
    phase       \* what is next: "pull", "packets", or a domain's boundary

pathVars == <<use_pcie_link, pipeline, rss, telem, log, deficit, handoffs,
              finished, generated, todo, lost, t_start, in_epoch, epoch, phase>>
allVars == <<vars, pathVars>>

t_end == t_start + BinNs

Shape(d) ==
    [H |-> EpochBins[d], buckets |-> Buckets[d], queues |-> Queues[d], D_q |-> D_q[d],
     w1 |-> Weight.w1, w2 |-> Weight.w2, w3 |-> Weight.w3, eps |-> Weight.eps]

-----------------------------------------------------------------------------
(* One queue; the counters keep packets and bytes.                         *)
NoCounts == [adm |-> Nothing, drop |-> Nothing, credit_drop |-> Nothing,
             pcie_drop |-> Nothing, returned |-> 0, u_max |-> 0, latency |-> << >>]

NewQueue(d) == [credits |-> D_q[d], heap |-> {}, next_free |-> 0, now |-> 0,
                stats |-> NoCounts, row |-> NoCounts, admitted |-> 0]

(* advance_to(t).  Mutant: a call returns at most one credit.              *)
advanced_One(d, q, t) ==
    LET due == {p \in q.heap : p.back <= t}
        c   == IF due = {} THEN q.credits ELSE Least(D_q[d], q.credits + 1)
    IN  [q EXCEPT !.credits = c, !.heap = @ \ due, !.now = t,
                  !.stats.returned = @ + (c - q.credits)]

advanced(d, q, t) ==
    LET due == {p \in q.heap : p.back <= t}
        c   == Least(D_q[d], q.credits + Cardinality(due))
    IN  [q EXCEPT !.credits = c, !.heap = @ \ due, !.now = t,
                  !.stats.returned = @ + (c - q.credits)]

dropped_for_credit(q, size) ==
    [q EXCEPT !.stats.drop = More(@, 1, size), !.stats.credit_drop = More(@, 1, size)]

(* Mutant: only the cause is counted, not the drop.                        *)
dropped_by_link_CauseOnly(q, size) ==
    [q EXCEPT !.stats.pcie_drop = More(@, 1, size)]

dropped_by_link(q, size) ==
    [q EXCEPT !.stats.drop = More(@, 1, size), !.stats.pcie_drop = More(@, 1, size)]

taken(d, q, t, size, arrive, service) ==
    LET end == Later(arrive, q.next_free) + service
    IN  [q EXCEPT !.credits = @ - 1,
                  !.heap = @ \cup {[id |-> q.admitted, back |-> end + TWb]},
                  !.next_free = end,
                  !.admitted = @ + 1,
                  !.stats.adm = More(@, 1, size),
                  !.stats.u_max = Later(@, D_q[d] - (q.credits - 1)),
                  !.stats.latency = Append(@, end - t)]

(* try_admit(t, size, arrive) of a packet that is then served in service.  *)
try_admit(d, q, t, size, arrive, service) ==
    LET a == advanced(d, q, t)
    IN  IF a.credits <= 0 THEN dropped_for_credit(a, size)
                          ELSE taken(d, a, t, size, arrive, service)

snapshot_V(d) == [q \in Queues[d] |-> pipeline[d][q].credits]

(* Mutant: the free descriptors as the telemetry saw them last.            *)
V_start_Recorded(d) == telem[d].V[EpochBins[d]]

V_start(d) == snapshot_V(d)

-----------------------------------------------------------------------------
InitPath ==
    /\ Init
    /\ use_pcie_link \in LinkModes
    /\ pipeline = [d \in Domains |-> [q \in Queues[d] |-> NewQueue(d)]]
    /\ rss = InitTables
    /\ telem = [d \in Domains |->
                  set_V_start(reset_epoch(Shape(d)), [q \in Queues[d] |-> D_q[d]])]
    /\ log = [d \in Domains |-> << >>]
    /\ deficit = [d \in Domains |-> 0]
    /\ handoffs = [b \in {} |-> Nothing] /\ finished = {}
    /\ generated = [d \in Domains |-> [b \in Buckets[d] |-> Nothing]]
    /\ todo = {}
    /\ lost = [d \in Domains |-> [q \in Queues[d] |-> Nothing]]
    /\ t_start = 0
    /\ in_epoch = [d \in Domains |-> 0] /\ epoch = [d \in Domains |-> 0]
    /\ phase = "pull"

(* What a domain brings, by bucket and in total.                           *)
Counted(batch, S) == [pkts  |-> Cardinality(S),
                      bytes |-> Sum([i \in S |-> batch[i].size], S)]

OfBucket(batch, S, b) == Counted(batch, {i \in S : batch[i].bucket = b})

Horizon(d) == BinNs * EpochBins[d] * NumEpochs[d] + 1

Streams(d) == IF t_start < Horizon(d) THEN Batches[d] ELSE {<< >>}

(* _apply_arbiter: the packets of a domain that may be kept.               *)
KeptOf(sh, d, batch, bytes) ==
    CASE KeepsAll(sh, arb, d, bytes) -> {DOMAIN batch}
      [] ~KeepsAll(sh, arb, d, bytes) /\ KeepsNone(sh, d) -> {{}}
      [] OTHER -> SUBSET DOMAIN batch

(* _apply_handoff_redirection: the packets of buckets in transition.       *)
Withheld(d, batch, S) ==
    IF d = "stateful" THEN {i \in S : batch[i].bucket \in DOMAIN handoffs} ELSE {}

(* absorb_bucket_traffic: what of a load still fits in a handoff's buffer. *)
(* A load too large for the room is cut at the byte, its packets in        *)
(* proportion, rounded down.                                               *)
Fitting(buffer, load) ==
    LET room  == BufferCapacity - buffer.bytes
        added == Later(0, room)
    IN  IF load.bytes <= room THEN load
        ELSE [pkts |-> (load.pkts * added) \div Later(1, load.bytes), bytes |-> added]

(* The packets of the bin; pos is a packet's place in the concatenation of *)
(* both streams, which the stable sort keeps among equal timestamps.       *)
Entry(d, batch, offset, i) ==
    [domain |-> d, bucket |-> batch[i].bucket, size |-> batch[i].size,
     t |-> t_start + batch[i].at, pos |-> offset + i]

Merged(stream, passed) ==
    {Entry("stateless", stream["stateless"], 0, i) : i \in passed["stateless"]} \cup
    {Entry("stateful", stream["stateful"], Len(stream["stateless"]), i) :
        i \in passed["stateful"]}

(* Of the packets that came, the arbiter keeps some, and a handoff holds   *)
(* some of those back, as many as its buffer takes; the others of its      *)
(* bucket are gone.                                                        *)
Distribute(stream, kept) ==
    LET held == [d \in Domains |-> Withheld(d, stream[d], kept[d])]
        passed == [d \in Domains |-> kept[d] \ held[d]]
        Missing(d, q) == {i \in DOMAIN stream[d] \ passed[d] :
                            rss[d][stream[d][i].bucket] = q}
    IN  /\ generated' = [d \in Domains |-> [b \in Buckets[d] |->
                            OfBucket(stream[d], DOMAIN stream[d], b)]]
        /\ handoffs' = [b \in DOMAIN handoffs |->
              LET more == Fitting(handoffs[b].buffer,
                              OfBucket(stream["stateful"], held["stateful"], b))
              IN  [handoffs[b] EXCEPT !.buffer = More(@, more.pkts, more.bytes)]]
        /\ lost' = [d \in Domains |-> [q \in Queues[d] |->
              LET more == Counted(stream[d], Missing(d, q))
              IN  More(lost[d][q], more.pkts, more.bytes)]]
        /\ todo' = Merged(stream, passed)

(* reset_bin_stats of all queues.                                          *)
reset_bin_queues == [d \in Domains |-> [q \in Queues[d] |->
    [pipeline[d][q] EXCEPT !.stats = NoCounts]]]

(* Steps 1 to 4 of _process_bin_merged.                                    *)
Pull ==
    /\ phase = "pull" /\ t_start < EndOfRun
    /\ \E sl \in Streams("stateless"), sf \in Streams("stateful") :
          LET stream == Pair(sl, sf)
              bytes  == [d \in Domains |-> Counted(stream[d], DOMAIN stream[d]).bytes]
              sh     == shares(arb, deficit, bytes)
          IN  /\ \E k_sl \in KeptOf(sh, "stateless", sl, bytes),
                    k_sf \in KeptOf(sh, "stateful", sf, bytes) :
                    Distribute(stream, Pair(k_sl, k_sf))
              /\ deficit' = deficits(arb, deficit, bytes)
    /\ pipeline' = reset_bin_queues
    /\ IF use_pcie_link THEN reset_bin_stats ELSE UNCHANGED vars
    /\ phase' = "packets"
    /\ UNCHANGED <<use_pcie_link, rss, telem, log, finished, t_start, in_epoch, epoch>>

-----------------------------------------------------------------------------
(* Step 5 of _process_bin_merged: one packet at a time, the earliest       *)
(* first.                                                                  *)
Before(p, r) == p.t < r.t \/ (p.t = r.t /\ p.pos < r.pos)

Earliest(p) == \A r \in todo : r = p \/ Before(p, r)

QueueOf(p) == rss[p.domain][p.bucket]

AtFpga(p) == advanced(p.domain, pipeline[p.domain][QueueOf(p)], p.t)

PutQueue(d, q, new) == pipeline' = [pipeline EXCEPT ![d][q] = new]

CreditDrop(p) ==
    /\ AtFpga(p).credits <= 0
    /\ PutQueue(p.domain, QueueOf(p), dropped_for_credit(AtFpga(p), p.size))
    /\ UNCHANGED vars

LinkDrop(p) ==
    /\ AtFpga(p).credits > 0
    /\ use_pcie_link /\ offered < MaxPkts
    /\ try_transmit(p.t, p.size, p.domain)
    /\ busy_until' = busy_until
    /\ now' = p.t /\ offered' = offered + 1
    /\ PutQueue(p.domain, QueueOf(p), dropped_by_link(AtFpga(p), p.size))

(* The link is busy until the packet is complete, and only then.           *)
AdmitOverLink(p) ==
    /\ AtFpga(p).credits > 0
    /\ use_pcie_link /\ offered < MaxPkts
    /\ try_transmit(p.t, p.size, p.domain)
    /\ busy_until' > busy_until
    /\ now' = p.t /\ offered' = offered + 1
    /\ \E service \in ServiceTimes[p.domain] :
          PutQueue(p.domain, QueueOf(p),
                   try_admit(p.domain, AtFpga(p), p.t, p.size, busy_until', service))

AdmitWithoutLink(p) ==
    /\ AtFpga(p).credits > 0
    /\ ~use_pcie_link
    /\ \E service \in ServiceTimes[p.domain] :
          PutQueue(p.domain, QueueOf(p),
                   try_admit(p.domain, AtFpga(p), p.t, p.size, p.t + T_dma[p.size], service))
    /\ UNCHANGED vars

Packet ==
    /\ phase = "packets"
    /\ \E p \in todo :
          /\ Earliest(p)
          /\ CreditDrop(p) \/ LinkDrop(p) \/ AdmitOverLink(p) \/ AdmitWithoutLink(p)
          /\ todo' = todo \ {p}
    /\ UNCHANGED <<use_pcie_link, rss, telem, log, deficit, handoffs, finished,
                   generated, lost, t_start, in_epoch, epoch, phase>>

(* Steps 6 and 7: advance every queue and the link, record the bin.        *)
EndBin ==
    /\ phase = "packets" /\ todo = {}
    /\ pipeline' = [d \in Domains |-> [q \in Queues[d] |->
          LET a == advanced(d, pipeline[d][q], t_end)
          IN  [a EXCEPT !.row = a.stats]]]
    /\ telem' = [d \in Domains |->
          record_bin(Shape(d), telem[d], in_epoch[d], generated[d], rss[d],
                     [q \in Queues[d] |-> pipeline'[d][q].stats],
                     [q \in Queues[d] |-> pipeline'[d][q].credits])]
    /\ IF use_pcie_link THEN advance(t_end) ELSE UNCHANGED vars
    /\ in_epoch' = [d \in Domains |-> in_epoch[d] + 1]
    /\ t_start' = t_end
    /\ phase' = "stateless"
    /\ UNCHANGED <<use_pcie_link, rss, log, deficit, handoffs, finished, generated,
                   todo, lost, epoch>>

-----------------------------------------------------------------------------
(* The epoch boundaries.                                                   *)
AtBoundary(d) == in_epoch[d] >= EpochBins[d] /\ epoch[d] < NumEpochs[d]

(* At the end of an iteration: the bin counter of a domain that has closed *)
(* all its epochs stays 0.                                                 *)
Clipped_bins(bins, closed) ==
    [d \in Domains |-> IF closed[d] >= NumEpochs[d] THEN 0 ELSE bins[d]]

(* The end of a boundary: log the epoch, start the next.                   *)
Close(d, reassigned) ==
    /\ log' = [log EXCEPT ![d] = Append(@,
                  log_epoch(Shape(d), epoch[d], finalize_epoch(Shape(d), telem[d]),
                            reassigned))]
    /\ telem' = [telem EXCEPT ![d] = set_V_start(reset_epoch(Shape(d)), V_start(d))]
    /\ epoch' = [epoch EXCEPT ![d] = @ + 1]
    /\ lost' = [lost EXCEPT ![d] = [q \in Queues[d] |-> Nothing]]

(* moves_this_epoch of the scheduler: the entries that changed, and the    *)
(* moves that later ones took back.                                        *)
Reassigned(d, table) ==
    LET changed == Cardinality({b \in Buckets[d] : table[b] # rss[d][b]})
    IN  changed..(changed + MaxUndone)

_on_stateless_epoch_boundary ==
    /\ phase = "stateless" /\ AtBoundary("stateless")
    /\ \E table \in [Buckets["stateless"] -> Queues["stateless"]] :
          /\ \E moves \in Reassigned("stateless", table) : Close("stateless", moves)
          /\ rss' = [rss EXCEPT !["stateless"] = table]
    /\ in_epoch' = [in_epoch EXCEPT !["stateless"] = 0]
    /\ phase' = "stateful"
    /\ UNCHANGED <<vars, use_pcie_link, pipeline, deficit, handoffs, finished,
                   generated, todo, t_start>>

NoStatelessBoundary ==
    /\ phase = "stateless" /\ ~AtBoundary("stateless")
    /\ phase' = "stateful"
    /\ UNCHANGED <<vars, use_pcie_link, pipeline, rss, telem, log, deficit, handoffs,
                   finished, generated, todo, lost, t_start, in_epoch, epoch>>

(* Handoffs of the boundary: those in "ended" commit, then new ones begin, *)
(* each of a bucket without one, to another queue than the table says.     *)
Committed(ended) ==
    [b \in Buckets["stateful"] |->
        IF b \in ended THEN handoffs[b].q_dst ELSE rss["stateful"][b]]

Remaining(ended) == [b \in DOMAIN handoffs \ ended |-> handoffs[b]]

Issue(left, table) ==
    \E new \in SUBSET (Buckets["stateful"] \ DOMAIN left) :
    \E dst \in [new -> Queues["stateful"]] :
        /\ new # {} => Cardinality(DOMAIN left) + Cardinality(new) <= MaxConcurrent
        /\ \A b \in new : dst[b] # table[b]
        /\ handoffs' = [b \in DOMAIN left \cup new |->
                           IF b \in new THEN [q_dst |-> dst[b], buffer |-> Nothing]
                                        ELSE left[b]]

_on_stateful_epoch_boundary ==
    /\ phase = "stateful" /\ AtBoundary("stateful")
    /\ \E ended \in SUBSET DOMAIN handoffs :
          /\ rss' = [rss EXCEPT !["stateful"] = Committed(ended)]
          /\ Issue(Remaining(ended), Committed(ended))
          /\ finished' = {[bucket |-> b, q_dst |-> handoffs[b].q_dst,
                           left |-> handoffs[b].buffer.pkts,
                           avg_size |-> Later(1, handoffs[b].buffer.bytes \div
                                                 Later(1, handoffs[b].buffer.pkts))] :
                             b \in ended}
    /\ phase' = "release"
    /\ UNCHANGED <<vars, use_pcie_link, pipeline, telem, log, deficit, generated, todo,
                   lost, t_start, in_epoch, epoch>>

(* One packet of a finished handoff enters its new queue, past the link.   *)
Release ==
    /\ phase = "release"
    /\ \E h \in finished :
          /\ h.left > 0
          /\ \E service \in ServiceTimes["stateful"] :
                PutQueue("stateful", h.q_dst,
                         try_admit("stateful", pipeline["stateful"][h.q_dst],
                                   t_start - 1, h.avg_size,
                                   t_start - 1 + T_dma[h.avg_size], service))
          /\ finished' = (finished \ {h}) \cup {[h EXCEPT !.left = @ - 1]}
    /\ UNCHANGED <<vars, use_pcie_link, rss, telem, log, deficit, handoffs, generated,
                   todo, lost, t_start, in_epoch, epoch, phase>>

CloseStateful ==
    /\ phase = "release" /\ \A h \in finished : h.left = 0
    /\ Close("stateful", Cardinality(finished))
    /\ in_epoch' = Clipped_bins([in_epoch EXCEPT !["stateful"] = 0], epoch')
    /\ finished' = {}
    /\ phase' = "pull"
    /\ UNCHANGED <<vars, use_pcie_link, pipeline, rss, deficit, handoffs, generated,
                   todo, t_start>>

NoStatefulBoundary ==
    /\ phase = "stateful" /\ ~AtBoundary("stateful")
    /\ in_epoch' = Clipped_bins(in_epoch, epoch)
    /\ phase' = "pull"
    /\ UNCHANGED <<vars, use_pcie_link, pipeline, rss, telem, log, deficit, handoffs,
                   finished, generated, todo, lost, t_start, epoch>>

Done == phase = "pull" /\ t_start = EndOfRun /\ UNCHANGED allVars

NextPath ==
    \/ Pull \/ Packet \/ EndBin
    \/ _on_stateless_epoch_boundary \/ NoStatelessBoundary
    \/ _on_stateful_epoch_boundary \/ Release \/ CloseStateful \/ NoStatefulBoundary
    \/ Done

SpecPath == InitPath /\ [][NextPath]_allVars

-----------------------------------------------------------------------------
Closing(d) == phase = d /\ AtBoundary(d)

Counter(d, name) ==
    Total([q \in Queues[d] |-> pipeline[d][q].stats[name]], Queues[d]).pkts

(* Every packet generated in an epoch is counted once, by queue and by     *)
(* domain: admitted, dropped, thinned by the arbiter or withheld for a     *)
(* handoff; every admission has its latency sample; and what the queues    *)
(* counted in a bin is what the link counted.                              *)
EachPacketOnce ==
    /\ \A d \in Domains : Closing(d) =>
          LET e == finalize_epoch(Shape(d), telem[d])
          IN  /\ \A q \in Queues[d] :
                    /\ e.gen[q].pkts = e.adm[q].pkts + e.drop[q].pkts + lost[d][q].pkts
                    /\ e.gen[q].bytes = e.adm[q].bytes + e.drop[q].bytes + lost[d][q].bytes
              /\ e.latency.n = Total(e.adm, Queues[d]).pkts
    /\ use_pcie_link /\ phase \in {"packets", "stateless"} =>
          /\ stats.accepted_pkts = Both([d \in Domains |-> Counter(d, "adm")])
          /\ \A d \in Domains : stats.by_domain[d] = Counter(d, "pcie_drop")

(* The growth that enters the pressure of an epoch is what its own bins    *)
(* admitted beyond what they got back: descriptors taken by a release      *)
(* between two epochs belong to neither.                                   *)
GrowthMatches ==
    \A d \in Domains : Closing(d) =>
        LET e == finalize_epoch(Shape(d), telem[d])
        IN  \A q \in Queues[d] : e.G_q[q] = e.adm[q].pkts - e.K_q[q]

(* The pressure lies in [0, 1] before it is clipped, in overload, across   *)
(* releases and changes of the table: the clip never hides a drop ratio or *)
(* an occupancy above 1.                                                   *)
PressureUnclipped ==
    \A d \in Domains : Closing(d) =>
        \A q \in Queues[d] :
            LET P == Pressure(Shape(d), telem[d], q) IN P.num \in 0..P.den

(* The Gini coefficient by its definition: the mean absolute difference    *)
(* over twice the mean.                                                    *)
Distance(x, y) == IF x < y THEN y - x ELSE x - y

MeanDifference(x, S) ==
    Sum([p \in S |-> Sum([r \in S |-> Distance(x[p], x[r])], S)], S)

(* What the row of a closing epoch says: imbalance is the Gini coefficient *)
(* of what the queues were sent, 0 exactly for equal loads, at most        *)
(* (n - 1)/n, and that exactly when one queue got everything, where the    *)
(* docstring promises 1.0 (metrics.py:39-40); fairness lies between 1/n    *)
(* and 1 and is 1 exactly for equal loads; the latency quantiles are in    *)
(* order; and the summary never reports more lost or admitted than         *)
(* generated.                                                              *)
RowsMeaningful ==
    \A d \in Domains : Closing(d) =>
        LET e    == finalize_epoch(Shape(d), telem[d])
            row  == log_epoch(Shape(d), epoch[d], e, 0)
            all  == summary(Append(log[d], row))
            n    == Cardinality(Queues[d])
            x    == [q \in Queues[d] |-> e.gen[q].bytes]
            l    == row.latency
        IN  /\ row.imbalance_B.num * (2 * n * Sum(x, Queues[d]))
                  = row.imbalance_B.den * MeanDifference(x, Queues[d])
            /\ row.imbalance_B.num = 0 <=> \A q, r \in Queues[d] : x[q] = x[r]
            /\ row.imbalance_B.num * n <= row.imbalance_B.den * (n - 1)
            /\ Sum(x, Queues[d]) > 0 =>
                  (row.imbalance_B.num * n = row.imbalance_B.den * (n - 1)
                     <=> \E q \in Queues[d] : \A r \in Queues[d] \ {q} : x[r] = 0)
            /\ row.fairness_B.num <= row.fairness_B.den
            /\ row.fairness_B.den <= n * row.fairness_B.num
            /\ row.fairness_B.num = row.fairness_B.den
                  <=> \A q, r \in Queues[d] : x[q] = x[r]
            /\ l.p50 <= l.p95 /\ l.p95 <= l.p99 /\ l.p99 <= l.p999
            /\ l.p999 <= 1000 * l.max
            /\ all.adm + all.drop <= all.gen /\ all.epochs = epoch[d] + 1

=============================================================================
