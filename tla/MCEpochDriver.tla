--------------------------- MODULE MCEpochDriver ---------------------------
(* Small instances of EpochDriver for TLC: epochs whose lengths divide     *)
(* each other or not, with and without overrides, a domain that ends       *)
(* before the other, and isolated domains; and runs of one-bin epochs that *)
(* are long enough for the windows of the predictors.                      *)
EXTENDS EpochDriver

Of(sl, sf) == [stateless |-> sl, stateful |-> sf]

Steady == {[B |-> 1, R |-> 0, P |-> 1]}

(* An override of 0 falls back to two bins and three epochs.               *)
Both(slBins, sfBins, slEpochs, sfEpochs) ==
    [enabled |-> Domains,
     H_bins_per_epoch |-> 2, epoch_bins |-> Of(slBins, sfBins),
     num_epochs |-> 3, num_epochs_of |-> Of(slEpochs, sfEpochs),
     use_pcie_link |-> TRUE,
     predictor |-> [predictor_type |-> "none", W |-> 2, linear_lookback |-> 2],
     features |-> Steady]

Only(d, slBins, sfBins, slEpochs, sfEpochs) ==
    [Both(slBins, sfBins, slEpochs, sfEpochs) EXCEPT !.enabled = {d}]

Rows == {[B |-> 0, R |-> 5, P |-> 0], [B |-> 3, R |-> 0, P |-> 1],
         [B |-> 1, R |-> 2, P |-> 2], [B |-> 6, R |-> 9, P |-> 4]}

Predicting(type, W, lookback) ==
    [Only("stateless", 1, 1, 5, 1) EXCEPT
        !.use_pcie_link = FALSE, !.features = Rows,
        !.predictor = [predictor_type |-> type, W |-> W, linear_lookback |-> lookback]]

MCConfigs ==
    {Both(1, 3, 0, 1), Both(0, 3, 2, 2), Both(2, 3, 3, 1),
     Both(1, 0, 1, 2), Both(0, 0, 1, 2),
     Only("stateless", 0, 3, 2, 2), Only("stateful", 2, 3, 0, 1),
     Predicting("ewma", 2, 1), Predicting("linear", 3, 4), Predicting("linear", 4, 2),
     Predicting("oracle", 3, 3)}

(* The smallest run whose summary misses what the link accepted.           *)
StatelessOnly == {Only("stateless", 2, 3, 2, 2)}
=============================================================================
