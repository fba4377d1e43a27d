---------------------------- MODULE EpochDriver ----------------------------
(***************************************************************************)
(* The top level of the simulator (Simulator.run and what it calls, in     *)
(* src/src/sim.py): bins are processed in turn, and each domain closes an  *)
(* epoch of its own length every epoch_bins bins until it has closed its   *)
(* num_epochs epochs.  The domains' epochs, the telemetry that is indexed  *)
(* by the bin within the epoch, the horizon that ends a domain's trace and *)
(* the accumulators that carry PCIe counts across the bins of an epoch are *)
(* modelled, and the predictor that is shown every epoch the stateless     *)
(* domain closes.  What a bin does to the packets is open: in every bin a  *)
(* domain may have a packet accepted by the PCIe link, refused by it, or   *)
(* none; and so is the row of an epoch.                                    *)
(***************************************************************************)
EXTENDS Predictors

CONSTANT
    Configs,   \* the configurations to run, see ConfigRecord
    DeltaNs    \* delta_bin_ns

Domains == {"stateless", "stateful"}

PredictorTypes == {"ewma", "linear", "oracle", "none"}

(* enabled: experiment.enable_<domain>; epoch_bins and num_epochs_of: the  *)
(* overrides of a domain, 0 for none; features: what the rows of the       *)
(* stateless domain's epochs may be.                                       *)
ConfigRecord ==
    [enabled : SUBSET Domains \ {{}},
     H_bins_per_epoch : Nat \ {0}, epoch_bins : [Domains -> Nat],
     num_epochs : Nat, num_epochs_of : [Domains -> Nat],
     use_pcie_link : BOOLEAN,
     predictor : [predictor_type : PredictorTypes, W : Nat \ {0},
                  linear_lookback : Nat \ {0}],
     features : SUBSET [B : Nat, R : Nat, P : 0..PSteps]]

ASSUME EpochDriverAssumption ==
    /\ Configs \subseteq ConfigRecord
    /\ DeltaNs \in Nat \ {0}

VARIABLES
    cfg,        \* the configuration of this run
    t,          \* start of the next bin
    left,       \* bins that remain of total_bins
    phase,      \* the statement of run()'s loop body that is next
    bin,        \* domain |-> bin_in_epoch
    epoch,      \* domain |-> sl_epoch, sf_epoch
    telem,      \* domain |-> k |-> start of the bin recorded at index k
    acc,        \* domain |-> the PCIe drops of both domains in its window
    accepts,    \* _pcie_sf_epoch_accept_pkts
    log,        \* domain |-> what its epochs logged
    total,      \* what the link really accepted and dropped; not in the code
    history,    \* _history of the predictor
    ewma_feat,  \* of the EWMA predictor
    timeline,   \* the features of all stateless epochs, which the recording
                \* predictor of gen_tcn_dataset.py keeps
    shown       \* the windows a network was shown; not in the code

predictorVars == <<history, ewma_feat, timeline, shown>>
vars == <<cfg, t, left, phase, bin, epoch, telem, acc, accepts, log, total,
          predictorVars>>

-----------------------------------------------------------------------------
(* The epoch length of a domain and num_epochs_for(domain).                *)
bins(c, d) == IF c.epoch_bins[d] = 0 THEN c.H_bins_per_epoch ELSE c.epoch_bins[d]

num_epochs_for(c, d) ==
    IF c.num_epochs_of[d] = 0 THEN c.num_epochs ELSE c.num_epochs_of[d]

TotalBins(c, d) == num_epochs_for(c, d) * bins(c, d)

(* horizon_ns of _init_domain, one more than the end of the last epoch.    *)
horizon_ns(d) == DeltaNs * TotalBins(cfg, d) + 1

Unrecorded == -1

NoDrops == [d \in Domains |-> 0]

reset_epoch(c, d) == [k \in 0..(bins(c, d) - 1) |-> Unrecorded]

Init ==
    /\ cfg \in Configs
    /\ t = 0
    /\ left \in {TotalBins(cfg, d) : d \in cfg.enabled}
    /\ \A d \in cfg.enabled : TotalBins(cfg, d) <= left
    /\ phase = "bin"
    /\ bin = [d \in Domains |-> 0] /\ epoch = [d \in Domains |-> 0]
    /\ telem = [d \in Domains |-> reset_epoch(cfg, d)]
    /\ acc = [d \in Domains |-> NoDrops] /\ accepts = 0
    /\ log = [d \in Domains |-> [rows |-> 0, drops |-> 0, accepts |-> 0]]
    /\ total = [drops |-> NoDrops, accepts |-> 0]
    /\ history = << >> /\ ewma_feat = NoAverage
    /\ timeline = << >> /\ shown = << >>

(* A domain pulls packets only if it is enabled and the bin starts within  *)
(* its horizon.                                                            *)
MayGenerate(d) == d \in cfg.enabled /\ t < horizon_ns(d)

Outcomes(d) == IF MayGenerate(d) /\ cfg.use_pcie_link
               THEN {"none", "accepted", "refused"} ELSE {"none"}

Refused(o) == [d \in Domains |-> IF o[d] = "refused" THEN 1 ELSE 0]

Accepted(o) == (IF o["stateless"] = "accepted" THEN 1 ELSE 0)
             + (IF o["stateful"] = "accepted" THEN 1 ELSE 0)

Plus(x, y) == [d \in Domains |-> x[d] + y[d]]

(* Mutant: the bin counter has been advanced before.                       *)
record_bin_Advanced(d) ==
    IF d \in cfg.enabled THEN [telem[d] EXCEPT ![bin[d] + 1] = t] ELSE telem[d]

(* record_bin stores a row at the index bin_in_epoch.                      *)
record_bin(d) ==
    IF d \in cfg.enabled THEN [telem[d] EXCEPT ![bin[d]] = t] ELSE telem[d]

(* _process_bin_merged, _accumulate_pcie_epoch, and the bin counters.      *)
ProcessBin ==
    /\ phase = "bin" /\ left > 0
    /\ \E o \in [Domains -> {"none", "accepted", "refused"}] :
          /\ \A d \in Domains : o[d] \in Outcomes(d)
          /\ acc' = [d \in Domains |-> Plus(acc[d], Refused(o))]
          /\ accepts' = accepts + Accepted(o)
          /\ total' = [drops |-> Plus(total.drops, Refused(o)),
                       accepts |-> total.accepts + Accepted(o)]
    /\ telem' = [d \in Domains |-> record_bin(d)]
    /\ t' = t + DeltaNs /\ left' = left - 1
    /\ bin' = [d \in Domains |-> IF d \in cfg.enabled THEN bin[d] + 1 ELSE bin[d]]
    /\ phase' = "stateless"
    /\ UNCHANGED <<cfg, epoch, log, predictorVars>>

(* The predictor observes the epoch that closes.                           *)
Observe(feat) ==
    /\ history' = observe(cfg.predictor.W, history, feat)
    /\ ewma_feat' = average(ewma_feat, feat)
    /\ timeline' = Append(timeline, feat)
    /\ shown' = Append(shown, tcn_window(cfg.predictor.W, history'))

(* _on_stateless_epoch_boundary and _on_stateful_epoch_boundary: log the   *)
(* epoch with the accumulated PCIe counts, reset them and the telemetry.   *)
(* The stateful domain also logs what the link accepted from both.         *)
(* Mutant: the test is one bin late.                                       *)
AtBoundary_BinLate(d) ==
    d \in cfg.enabled /\ bin[d] > bins(cfg, d) /\ epoch[d] < num_epochs_for(cfg, d)

AtBoundary(d) ==
    d \in cfg.enabled /\ bin[d] >= bins(cfg, d) /\ epoch[d] < num_epochs_for(cfg, d)

(* Mutant: both domains' accumulators start again.                         *)
Restarted_Both(d) == [e \in Domains |-> NoDrops]

Restarted(d) == [acc EXCEPT ![d] = NoDrops]

Following(d) == IF d = "stateless" THEN "stateful" ELSE "clip"

Boundary(d) ==
    /\ phase = d
    /\ AtBoundary(d)
    /\ log' = [log EXCEPT ![d] =
                  [rows |-> @.rows + 1, drops |-> @.drops + acc[d][d],
                   accepts |-> IF d = "stateful" THEN @.accepts + accepts
                                                 ELSE @.accepts]]
    /\ acc' = Restarted(d)
    /\ accepts' = IF d = "stateful" THEN 0 ELSE accepts
    /\ telem' = [telem EXCEPT ![d] = reset_epoch(cfg, d)]
    /\ bin' = [bin EXCEPT ![d] = 0]
    /\ epoch' = [epoch EXCEPT ![d] = @ + 1]
    /\ IF d = "stateless" THEN \E feat \in cfg.features : Observe(feat)
                          ELSE UNCHANGED predictorVars
    /\ phase' = Following(d)
    /\ UNCHANGED <<cfg, t, left, total>>

NoBoundary(d) ==
    /\ phase = d
    /\ ~AtBoundary(d)
    /\ phase' = Following(d)
    /\ UNCHANGED <<cfg, t, left, bin, epoch, telem, acc, accepts,
                   log, total, predictorVars>>

(* A domain that has closed all its epochs keeps its bin counter at 0.     *)
PastQuota(d) == epoch[d] >= num_epochs_for(cfg, d)

Clip ==
    /\ phase = "clip"
    /\ bin' = [d \in Domains |-> IF PastQuota(d) THEN 0 ELSE bin[d]]
    /\ phase' = "bin"
    /\ UNCHANGED <<cfg, t, left, epoch, telem, acc, accepts, log,
                   total, predictorVars>>

Finished == phase = "bin" /\ left = 0

Done == Finished /\ UNCHANGED vars

Next ==
    \/ ProcessBin
    \/ \E d \in Domains : Boundary(d) \/ NoBoundary(d)
    \/ Clip
    \/ Done

Spec == Init /\ [][Next]_vars

(* save_all's totals, summed from the logs of the enabled domains.         *)
total_accept_pkts == log["stateful"].accepts
total_pcie_drops(d) == log[d].drops

-----------------------------------------------------------------------------
(* record_bin is never called with an index past the end of the epoch's    *)
(* arrays, although the two domains' counters advance at the same pace and *)
(* one may have stopped closing epochs while the other goes on.            *)
IndexInRange ==
    phase = "bin" => \A d \in cfg.enabled : bin[d] < bins(cfg, d)

(* An epoch is finalized from exactly its own bins: when epoch e closes,   *)
(* index k holds the record of bin e * H + k, none missing and none stale; *)
(* and when the run is over every configured epoch has been logged.        *)
EpochComplete ==
    /\ \A d \in Domains : phase = d /\ AtBoundary(d) =>
          \A k \in 0..(bins(cfg, d) - 1) :
              telem[d][k] = (epoch[d] * bins(cfg, d) + k) * DeltaNs
    /\ Finished => \A d \in cfg.enabled : log[d].rows = num_epochs_for(cfg, d)

(* The PCIe drops of a domain are in its log or in its accumulator,        *)
(* whichever of the two domains' boundaries came in between; those of bins *)
(* after its last epoch stay in the accumulator.                           *)
DropsAccounted ==
    \A d \in Domains : log[d].drops + acc[d][d] = total.drops[d]

(* What the network is shown while a run lasts is what it was trained on:  *)
(* the window before an epoch, with that epoch's pressure, is the training *)
(* sample cut from the recorded timeline at the same place; only the first *)
(* W - 1 windows, padded with zeros, have no counterpart.                  *)
WindowsAligned ==
    LET W       == cfg.predictor.W
        samples == windows_from_timeline(timeline, W)
    IN  /\ \A i \in DOMAIN samples :
              samples[i] = [X |-> shown[i + W - 1], y |-> timeline[i + W].P]
        /\ \A i \in DOMAIN shown : i < W =>
              /\ SubSeq(shown[i], W - i + 1, W) = SubSeq(timeline, 1, i)
              /\ \A j \in 1..(W - i) : shown[i][j] = NoFeature

(* The risk is no artefact of the estimator.  The average weighs the epoch *)
(* i before the last with alpha (1 - alpha)^i and the first with what is   *)
(* left, and the risk made of it is not cut off above; pressures on a line *)
(* are continued along that line, up to the clip.  Neither divides by 0.   *)
Power(x, n) == LET p[k \in 0..n] == IF k = 0 THEN 1 ELSE x * p[k - 1] IN p[n]

Weight(n, i) ==
    IF i = 1 THEN Power(AlphaDen - Alpha, n - 1)
    ELSE Alpha * Power(AlphaDen, i - 2) * Power(AlphaDen - Alpha, n - i)

WeightedPressures(s) == [i \in 1..Len(s) |-> Weight(Len(s), i) * s[i].P]

RiskSound ==
    LET p      == cfg.predictor
        n      == Len(timeline)
        recent == Latest(timeline, Smaller(p.W, p.linear_lookback))
        OnLine(step) == \A i \in 1..(Len(recent) - 1) :
                            recent[i + 1].P - recent[i].P = step
        mixed  == ewma_risk(history, ewma_feat)
        risk   == predict(p, history, ewma_feat)
    IN  /\ n > 0 /\ p.predictor_type = "ewma" =>
              /\ ewma_feat.den = Power(AlphaDen, n - 1)
              /\ ewma_feat.P = SumFunction(WeightedPressures(timeline))
              /\ mixed.num <= mixed.den /\ mixed.den > 0
        /\ Len(recent) > 1 /\ p.predictor_type = "linear" =>
              /\ risk.den > 0
              /\ \A step \in -PSteps..PSteps :
                     OnLine(step) =>
                         risk.num * PSteps =
                             risk.den * Between(recent[Len(recent)].P + step, 0, PSteps)

(* "The top-level pcie block aggregates total PCIe-layer accepts"          *)
(* (README.md:345): the summary's total is what the link accepted.         *)
SummaryHasAllAccepts == Finished => total_accept_pkts = total.accepts

=============================================================================
