----------------------------- MODULE Predictors -----------------------------
(***************************************************************************)
(* The hotspot predictors (src/src/predictors) and the training windows    *)
(* cut for the learned one (src/scripts/gen_tcn_dataset.py), for one       *)
(* queue: the queues are columns that do not meet.                         *)
(*                                                                         *)
(* A feature is the row of an epoch, [B, R, P]: bytes generated, peak rate *)
(* and pressure.  Pressures are counted in steps of 1/PSteps and rates in  *)
(* units of which RFull is the 100e9 bytes per second of the code.         *)
(* Averages and risks are numerators with their denominators.              *)
(***************************************************************************)
EXTENDS Integers, Sequences, SequencesExt, FiniteSetsExt

CONSTANTS
    PSteps, RFull,
    Alpha, AlphaDen   \* ewma_alpha is Alpha / AlphaDen

ASSUME PredictorsAssumption ==
    /\ PSteps \in Nat \ {0} /\ RFull \in Nat \ {0}
    /\ AlphaDen \in Nat \ {0} /\ Alpha \in 0..AlphaDen

NoFeature == [B |-> 0, R |-> 0, P |-> 0]

Smaller(x, y) == IF x <= y THEN x ELSE y
Larger(x, y) == IF x >= y THEN x ELSE y
Between(x, lo, hi) == Larger(lo, Smaller(x, hi))

Latest(seq, n) == SubSeq(seq, Larger(1, Len(seq) - n + 1), Len(seq))

-----------------------------------------------------------------------------
(* A deque of the last W features.  Mutant: a full deque takes no more.    *)
observe_Full(W, history, feat) ==
    IF Len(history) = W THEN history ELSE Append(history, feat)

observe(W, history, feat) == Latest(Append(history, feat), W)

(* EWMAPredictor.observe: a feature with a denominator for its fields.     *)
NoAverage == [B |-> 0, R |-> 0, P |-> 0, den |-> 0]

average(ewma, feat) ==
    LET mix(x, y) == Alpha * x * ewma.den + (AlphaDen - Alpha) * y
    IN  IF ewma = NoAverage THEN [B |-> feat.B, R |-> feat.R, P |-> feat.P, den |-> 1]
        ELSE [B |-> mix(feat.B, ewma.B), R |-> mix(feat.R, ewma.R),
              P |-> mix(feat.P, ewma.P), den |-> AlphaDen * ewma.den]

NoRisk == [num |-> 0, den |-> 1]

Clip01(r) == [r EXCEPT !.num = Between(@, 0, r.den)]

(* EWMAPredictor.predict before its clip: 0.6 P + 0.25 trend + 0.15 R.     *)
ewma_risk(history, ewma) ==
    LET cur  == history[Len(history)].B
        td   == Larger(ewma.den, ewma.B)
        tn   == Between(cur * ewma.den - ewma.B, -td, td)
        rn   == Smaller(ewma.R, RFull * ewma.den)
    IN  [num |-> 12 * ewma.P * RFull * td + 5 * tn * PSteps * RFull * ewma.den
                 + 3 * rn * PSteps * td,
         den |-> 20 * PSteps * RFull * ewma.den * td]

(* LinearPredictor.predict before its clip: the least-squares line through *)
(* the pressures at 0, ..., T-1, at T.                                     *)
line_at(P, x) ==
    LET T   == Len(P)
        I   == 0..(T - 1)
        S1  == SumFunctionOnSet([i \in I |-> i], I)
        S2  == SumFunctionOnSet([i \in I |-> i * i], I)
        SP  == SumFunctionOnSet([i \in I |-> P[i + 1]], I)
        StP == SumFunctionOnSet([i \in I |-> i * P[i + 1]], I)
        den == T * S2 - S1 * S1
    IN  [num |-> SP * den + (T * StP - S1 * SP) * (T * x - S1), den |-> T * den * PSteps]

(* Mutant: at T-1.                                                        *)
linear_risk_Last(lookback, W, history) ==
    LET P == [i \in 1..Len(Latest(history, Smaller(lookback, W))) |->
                 Latest(history, Smaller(lookback, W))[i].P]
    IN  IF Len(P) < 2 THEN [num |-> P[Len(P)], den |-> PSteps]
                      ELSE line_at(P, Len(P) - 1)

linear_risk(lookback, W, history) ==
    LET recent == Latest(history, Smaller(lookback, W))
        P      == [i \in DOMAIN recent |-> recent[i].P]
    IN  IF Len(P) < 2 THEN [num |-> P[Len(P)], den |-> PSteps]
                      ELSE line_at(P, Len(P))

(* predict() of the predictor of a type; p has its parameters.  Nothing in *)
(* src calls OraclePredictor.set_truth, so the oracle predicts nothing.    *)
predict(p, history, ewma) ==
    CASE history = << >> \/ p.predictor_type \in {"oracle", "none"} -> NoRisk
      [] history # << >> /\ p.predictor_type = "ewma" -> Clip01(ewma_risk(history, ewma))
      [] history # << >> /\ p.predictor_type = "linear" ->
            Clip01(linear_risk(p.linear_lookback, p.W, history))

-----------------------------------------------------------------------------
(* What TCNPredictor.predict shows the network: W features, zeros first.   *)
tcn_window(W, history) ==
    [i \in 1..W |-> IF i <= W - Len(history) THEN NoFeature
                    ELSE history[i - (W - Len(history))]]

(* _windows_from_timeline: windows of W epochs with the pressure of the    *)
(* epoch that follows.                                                     *)
windows_from_timeline(timeline, W) ==
    [i \in 1..Larger(0, Len(timeline) - W) |->
        [X |-> SubSeq(timeline, i, i + W - 1), y |-> timeline[i + W].P]]
=============================================================================
