---------------------------- MODULE TraceReplay ----------------------------
(***************************************************************************)
(* The trace of one domain from its generation to the last bin: a source   *)
(* generates per-flow timelines (FlowSources, HalWorkload), they become    *)
(* the flows of a TraceSet (_materialise_flows), and the simulation pulls  *)
(* the packets of one bin after the other through the flows' cursors       *)
(* (generate_bin_packets), while epoch boundaries shift the pattern: some  *)
(* flows get another source port, and so another RSS bucket (sim.py,       *)
(* _shift_pattern).  The other domain is present as the bins that the run  *)
(* goes on for after this domain's last one.                               *)
(***************************************************************************)
EXTENDS FlowSources, HalWorkload

CONSTANTS
    AllBins,      \* total_bins of the run
    EpochBins,    \* epoch_bins of the domain
    ShiftPeriod,  \* pattern_shift_period_epochs; 0: never
    Addrs,        \* what the five-tuples draw at random, ports excepted
    Ports,        \* source ports
    PortOf,       \* flow_id |-> its first source port
    BucketOf      \* Toeplitz.bucket_of: [addr, port] |-> bucket

Tuples == [addr : Addrs, port : Ports]

ASSUME TraceReplayAssumption ==
    /\ AllBins \in Nat /\ AllBins >= MyBins
    /\ EpochBins \in Nat \ {0} /\ ShiftPeriod \in Nat
    /\ \A f \in DOMAIN PortOf : PortOf[f] \in Ports
    /\ DOMAIN BucketOf = Tuples

VARIABLES
    stage,      \* "generate", "materialise", "bin", "boundary", "done"
    flows,      \* flows of the TraceSet
    bins,       \* bins processed
    batch       \* what generate_bin_packets returned for the last bin

replayVars == <<stage, flows, bins, batch>>

vars == <<genVars, halVars, replayVars>>

-----------------------------------------------------------------------------
Init ==
    /\ InitSources /\ InitHal
    /\ stage = "generate" /\ flows = << >> /\ bins = 0 /\ batch = << >>

Generate ==
    /\ stage = "generate" /\ source # "hal_composite"
    /\ NextSources
    /\ UNCHANGED <<halVars, replayVars>>

GenerateHal ==
    /\ stage = "generate" /\ source = "hal_composite"
    /\ NextHal
    /\ UNCHANGED <<genVars, replayVars>>

(* The generator returns, and its locals are gone.                         *)
Return ==
    /\ stage = "generate"
    /\ \/ Generated /\ pairs' = Timelines /\ UNCHANGED asked
       \/ /\ source = "hal_composite" /\ HalDone
          /\ pairs' = HalPairs
          /\ asked' = [k \in 1..(Len(HalPairs) + 1) |-> Unasked]
    /\ LocalsGone
    /\ line' = << >> /\ t' = 0 /\ count' = 0
    /\ stage' = "materialise"
    /\ UNCHANGED <<source, flows, bins, batch>>

Flow(tuple, packets) ==
    [tuple |-> tuple, bucket |-> BucketOf[tuple],
     packets |-> packets, cursor |-> 0]

_materialise_flows ==
    /\ stage = "materialise"
    /\ \E addr \in [DOMAIN pairs -> Addrs] :
          flows' = [f \in DOMAIN pairs |->
                      Flow([addr |-> addr[f], port |-> PortOf[f]], pairs[f])]
    /\ stage' = "bin"
    /\ UNCHANGED <<genVars, halVars, bins, batch>>

(* searchsorted(ts_remaining, to, side="left"): how many of the packets    *)
(* from the cursor on come before the first at or past the bin's end.      *)
(* Mutant: side="right".                                                   *)
Pulled_Right(f, to) ==
    CHOOSE n \in 0..(Len(f.packets) - f.cursor) :
        /\ \A k \in 1..n : f.packets[f.cursor + k].ts <= to
        /\ f.cursor + n < Len(f.packets) => f.packets[f.cursor + n + 1].ts > to

Pulled(f, to) ==
    CHOOSE n \in 0..(Len(f.packets) - f.cursor) :
        /\ \A k \in 1..n : f.packets[f.cursor + k].ts < to
        /\ f.cursor + n < Len(f.packets) => f.packets[f.cursor + n + 1].ts >= to

Labelled(f, packets) ==
    [k \in DOMAIN packets |->
        [ts |-> packets[k].ts, sz |-> packets[k].sz, bucket |-> f.bucket]]

Merged(streams) == InOrder(FlattenSeq(streams))

generate_bin_packets(to) ==
    /\ batch' = Merged([k \in DOMAIN flows |->
          Labelled(flows[k], SubSeq(flows[k].packets, flows[k].cursor + 1,
                                    flows[k].cursor + Pulled(flows[k], to)))])
    /\ flows' = [k \in DOMAIN flows |->
                   [flows[k] EXCEPT !.cursor = @ + Pulled(flows[k], to)]]

(* One bin; past its horizon the domain generates nothing.                 *)
Bin ==
    /\ stage = "bin"
    /\ IF bins * DeltaBin < horizon_ns
       THEN generate_bin_packets((bins + 1) * DeltaBin)
       ELSE batch' = << >> /\ UNCHANGED flows
    /\ bins' = bins + 1
    /\ stage' = "boundary"
    /\ UNCHANGED <<genVars, halVars>>

(* An epoch boundary that shifts the pattern: the domain still closes      *)
(* epochs, and a period of them is complete.                               *)
ShiftDue ==
    LET epoch == bins \div EpochBins - 1
    IN  /\ bins % EpochBins = 0 /\ bins <= MyBins
        /\ ShiftPeriod > 0 /\ epoch > 0
        /\ epoch % ShiftPeriod = 0
        /\ flows # << >>

(* Mutant: the bucket of a flow is not computed again.                     *)
Rebucketed_Stale(f) == f

Rebucketed(f) == [f EXCEPT !.bucket = BucketOf[f.tuple]]

_shift_pattern ==
    \E shifted \in SUBSET DOMAIN flows :
        /\ Cardinality(shifted) = Greatest(1, Len(flows) \div 10)
        /\ \E port \in [shifted -> Ports] :
              flows' = [k \in DOMAIN flows |->
                  Rebucketed(IF k \in shifted
                             THEN [flows[k] EXCEPT !.tuple.port = port[k]]
                             ELSE flows[k])]

Boundary ==
    /\ stage = "boundary"
    /\ IF ShiftDue THEN _shift_pattern ELSE UNCHANGED flows
    /\ batch' = << >>
    /\ stage' = IF bins = AllBins THEN "done" ELSE "bin"
    /\ UNCHANGED <<genVars, halVars, bins>>

Done == stage = "done" /\ UNCHANGED vars

Next ==
    \/ Generate \/ GenerateHal \/ Return
    \/ _materialise_flows
    \/ Bin \/ Boundary
    \/ Done

Spec == Init /\ [][Next]_vars

-----------------------------------------------------------------------------
(* "timestamps_ns: int64, sorted" (traces.py:113): what every source hands *)
(* over is what the cursors rely on, in order and before the horizon, also *)
(* under jitter and for rows in any order.  The messages of a connection   *)
(* and the packets of a message also never come faster than the flow's     *)
(* rate: a message begins only after the last one has been sent.  A source *)
(* that cuts bytes into packets keeps to the MTU; the sizes of a mix or of *)
(* CSV rows are whatever they are, above the MTU too.                      *)
MixedSizes == {"synthetic_rates", "imc17_cdf", "trace_csv"}

LeastGap == IF source \in {"poisson_flow", "rpc"} THEN Gap \div Grain ELSE 0

TimelinesPaced ==
    stage = "materialise" =>
        \A p \in ToSet(pairs) :
            /\ \A k \in DOMAIN p :
                  /\ p[k].ts < horizon_ns
                  /\ source \notin MixedSizes => p[k].sz <= Mtu
            /\ \A k \in 1..(Len(p) - 1) : p[k + 1].ts - p[k].ts >= LeastGap

(* No flow sends more than its size, its messages or its budget, whatever  *)
(* is cut off at the horizon; and if there was time for another packet     *)
(* before the horizon, messages have been sent to the last whole byte.     *)
(* HAL flows send what their windows grant, see WindowShare.               *)
Room(p) == p = << >> \/ p[Len(p)].ts + Gap \div Grain + 1 < horizon_ns

WithinBudget ==
    stage = "materialise" =>
        \A k \in DOMAIN pairs : asked[k] # Unasked =>
            /\ Bytes(pairs[k]) <= asked[k]
            /\ source # "synthetic_sustained" /\ Room(pairs[k])
                  => Bytes(pairs[k]) = asked[k]

(* The HAL flows of a class send together in a window no more than its     *)
(* target, and all of it (to a unit for each flow) unless a cap has ended  *)
(* the spawning; they send only when the window closes, each at most what  *)
(* it has left, and neither cap is ever exceeded, flows carried over from  *)
(* earlier windows included.                                               *)
WindowStep ==
    LET sent == FoldLeft(LAMBDA sum, i : sum + (all[i].rem - all'[i].rem), 0,
                         [i \in DOMAIN all |-> i])
    IN  /\ \A i \in DOMAIN all' : all'[i].rem >= 0
        /\ spawned' <= MaxSpawn /\ Len(present') <= MaxAlive
        /\ IF step = "spawn" /\ step' = "window"
           THEN /\ sent <= target
                /\ \/ sent = target \/ sent + Len(present) > target
                   \/ spawned = MaxSpawn
                   \/ Len(present) = MaxAlive
           ELSE sent = 0

WindowShare == [][stage = "generate" /\ stage' = "generate" => WindowStep]_vars

(* A bin gets exactly the packets whose timestamps lie in it, from all     *)
(* flows, in the order of time, each with the bucket its flow has in that  *)
(* bin, although the cursors only move forward and buckets change between  *)
(* bins; also the bin after the domain's last epoch.                       *)
InBin(p) == (bins - 1) * DeltaBin <= p.ts /\ p.ts < bins * DeltaBin

BatchExact ==
    stage = "boundary" =>
        batch = InOrder(FlattenSeq([k \in DOMAIN flows |->
                   Labelled(flows[k], Masked(flows[k].packets, InBin))]))

(* RSS puts a flow into the bucket of its present five-tuple: a shift of   *)
(* the pattern leaves no stale bucket, in the shifted flows or in others.  *)
BucketMatchesTuple ==
    \A k \in DOMAIN flows : flows[k].bucket = BucketOf[flows[k].tuple]

(* "This guarantees realised-bytes-per-window <= target_bytes (so no       *)
(* over-shoot of the Layer-1 process)" (hal_workload.py:528-529): the      *)
(* packets made of what the flows of a class send in a window carry no     *)
(* more bytes than its target, even if every flow is granted the rounding  *)
(* of its bytes to a whole one.                                            *)
Closed == IF class = 1 THEN window - 1 ELSE window

Realised(f) ==
    LET sent == SelectSeq(f.sent, LAMBDA e : e.from = Closed * RateUpdate)
    IN  FoldLeft(LAMBDA sum, e : sum + Bytes(WindowPackets(e)), 0, sent)

RealisedWithinTarget ==
    step = "window" =>
        FoldLeft(LAMBDA sum, i : sum + Realised(all[i]), 0, present) * Grain
            <= target + Len(present) * Grain

=============================================================================
