------------------------- MODULE EpochDriverProofs -------------------------
(***************************************************************************)
(* Proofs about EpochDriver, for every pair of epoch lengths and counts,   *)
(* every choice of enabled domains and every behaviour of the link.        *)
(***************************************************************************)
EXTENDS EpochDriver, SequenceTheorems, FiniteSums

(* The part of the state the proofs speak of.                              *)
Counts ==
    /\ cfg \in ConfigRecord
    /\ phase \in Domains \cup {"bin", "clip"}
    /\ bin \in [Domains -> Nat] /\ epoch \in [Domains -> Nat]
    /\ acc \in [Domains -> [Domains -> Nat]]
    /\ DOMAIN log = Domains /\ \A d \in Domains : log[d].drops \in Nat
    /\ total.drops \in [Domains -> Nat]

(* A domain whose boundary has been passed has not reached the end of its  *)
(* epoch, unless it closes no more: then its counter is about to be reset. *)
Passed(d) ==
    \/ phase = "clip"
    \/ phase = "stateful" /\ d = "stateless"

CountersInRange ==
    \A d \in cfg.enabled :
        /\ bin[d] <= bins(cfg, d)
        /\ phase = "bin" => bin[d] < bins(cfg, d)
        /\ Passed(d) => bin[d] < bins(cfg, d) \/ PastQuota(d)

Inductive == Counts /\ CountersInRange /\ DropsAccounted

LEMMA BinsPositive ==
    ASSUME NEW c \in ConfigRecord, NEW d \in Domains
    PROVE  bins(c, d) \in Nat \ {0} /\ num_epochs_for(c, d) \in Nat
  BY DEF bins, num_epochs_for, ConfigRecord

LEMMA EnabledDomains ==
    ASSUME Counts
    PROVE  /\ cfg.enabled \subseteq Domains
           /\ \A d \in Domains : bins(cfg, d) \in Nat \ {0} /\ num_epochs_for(cfg, d) \in Nat
  BY BinsPositive DEF Counts, ConfigRecord

LEMMA InitInductive == Init => Inductive
  <1> SUFFICES ASSUME Init PROVE Inductive
    OBVIOUS
  <1>1. Counts
    BY EpochDriverAssumption DEF Init, Counts, NoDrops, Domains
  <1>2. CountersInRange
    BY <1>1, EnabledDomains DEF Init, CountersInRange, Passed, Domains
  <1>3. DropsAccounted
    BY DEF Init, DropsAccounted, NoDrops, Domains
  <1> QED
    BY <1>1, <1>2, <1>3 DEF Inductive

(* A bin is one step of every counter, and adds the same to the            *)
(* accumulators of both domains as to the totals.                          *)
LEMMA BinInductive ==
    ASSUME Inductive, ProcessBin
    PROVE  Inductive'
  <1>1. PICK o \in [Domains -> {"none", "accepted", "refused"}] :
          /\ acc' = [d \in Domains |-> Plus(acc[d], Refused(o))]
          /\ total'.drops = Plus(total.drops, Refused(o))
    BY DEF ProcessBin
  <1>2. /\ phase = "bin" /\ phase' = "stateless" /\ UNCHANGED <<cfg, epoch, log>>
        /\ bin' = [d \in Domains |-> IF d \in cfg.enabled THEN bin[d] + 1 ELSE bin[d]]
    BY DEF ProcessBin
  <1>3. Refused(o) \in [Domains -> Nat]
    BY DEF Refused
  <1>4. Counts /\ CountersInRange /\ DropsAccounted
    BY DEF Inductive
  <1>5. \A d \in Domains : acc'[d] = [e \in Domains |-> acc[d][e] + Refused(o)[e]]
    BY <1>1 DEF Plus
  <1>6. total'.drops = [e \in Domains |-> total.drops[e] + Refused(o)[e]]
    BY <1>1 DEF Plus
  <1>7. Counts'
    <2>1. acc' \in [Domains -> [Domains -> Nat]]
      BY <1>1, <1>3, <1>4 DEF Plus, Counts
    <2>2. total'.drops \in [Domains -> Nat]
      BY <1>3, <1>4, <1>6 DEF Counts
    <2>3. bin' \in [Domains -> Nat]
      BY <1>2, <1>4 DEF Counts
    <2> QED
      BY <1>2, <1>4, <2>1, <2>2, <2>3 DEF Counts, Domains
  <1>8. CountersInRange'
    <2> SUFFICES ASSUME NEW d \in cfg.enabled
                 PROVE  bin'[d] <= bins(cfg, d)
      BY <1>2 DEF CountersInRange, Passed
    <2>1. d \in Domains /\ bin[d] \in Nat /\ bins(cfg, d) \in Nat \ {0}
      BY <1>4, EnabledDomains DEF Counts
    <2>2. bin[d] < bins(cfg, d) /\ bin'[d] = bin[d] + 1
      BY <1>2, <1>4, <2>1 DEF CountersInRange
    <2> QED
      BY <2>1, <2>2
  <1>9. DropsAccounted'
    <2> SUFFICES ASSUME NEW d \in Domains
                 PROVE  log[d].drops + acc'[d][d] = total'.drops[d]
      BY <1>2 DEF DropsAccounted
    <2>1. /\ log[d].drops \in Nat /\ acc[d][d] \in Nat
          /\ total.drops[d] \in Nat /\ Refused(o)[d] \in Nat
      BY <1>3, <1>4 DEF Counts
    <2>2. log[d].drops + acc[d][d] = total.drops[d]
      BY <1>4 DEF DropsAccounted
    <2>3. /\ acc'[d][d] = acc[d][d] + Refused(o)[d]
          /\ total'.drops[d] = total.drops[d] + Refused(o)[d]
      BY <1>5, <1>6
    <2> QED
      BY <2>1, <2>2, <2>3
  <1> QED
    BY <1>7, <1>8, <1>9 DEF Inductive

(* A boundary moves a domain's drops from its accumulator to its log and   *)
(* leaves the other domain's alone.                                        *)
LEMMA BoundaryInductive ==
    ASSUME Inductive, NEW d \in Domains, Boundary(d)
    PROVE  Inductive'
  <1>1. /\ phase = d /\ phase' = Following(d) /\ UNCHANGED <<cfg, total>>
        /\ bin' = [bin EXCEPT ![d] = 0] /\ epoch' = [epoch EXCEPT ![d] = @ + 1]
        /\ acc' = [acc EXCEPT ![d] = NoDrops]
    BY DEF Boundary, Restarted
  <1>2. PICK row : row.drops = log[d].drops + acc[d][d] /\ log' = [log EXCEPT ![d] = row]
    <2> DEFINE new == [rows |-> log[d].rows + 1, drops |-> log[d].drops + acc[d][d],
                       accepts |-> IF d = "stateful" THEN log[d].accepts + accepts
                                                     ELSE log[d].accepts]
    <2>1. log' = [log EXCEPT ![d] = new]
      BY DEF Boundary
    <2>2. new.drops = log[d].drops + acc[d][d]
      OBVIOUS
    <2> HIDE DEF new
    <2> QED
      BY <2>1, <2>2
  <1>3. Counts /\ CountersInRange /\ DropsAccounted
    BY DEF Inductive
  <1>4. Following(d) \in Domains \cup {"bin", "clip"} /\ NoDrops \in [Domains -> Nat]
    BY DEF Following, NoDrops, Domains
  <1>5. log[d].drops \in Nat /\ acc[d][d] \in Nat
    BY <1>3 DEF Counts
  <1>6. Counts'
    <2>1. acc' \in [Domains -> [Domains -> Nat]]
      BY <1>1, <1>3, <1>4 DEF Counts
    <2>2. DOMAIN log' = Domains /\ \A e \in Domains : log'[e].drops \in Nat
      BY <1>2, <1>3, <1>5 DEF Counts
    <2>3. bin' \in [Domains -> Nat] /\ epoch' \in [Domains -> Nat]
      BY <1>1, <1>3 DEF Counts
    <2> QED
      BY <1>1, <1>3, <1>4, <2>1, <2>2, <2>3 DEF Counts
  <1>7. CountersInRange'
    <2> SUFFICES ASSUME NEW e \in cfg.enabled
                 PROVE  /\ bin'[e] <= bins(cfg, e)
                        /\ Passed(e)' => bin'[e] < bins(cfg, e) \/ PastQuota(e)'
      BY <1>1, <1>4 DEF CountersInRange, Following, Domains
    <2>1. e \in Domains /\ bins(cfg, e) \in Nat \ {0} /\ bin[e] \in Nat
      BY <1>3, EnabledDomains DEF Counts
    <2>2. CASE e = d
      BY <1>1, <1>3, <2>1, <2>2 DEF Counts
    <2>3. CASE e # d
      <3>1. bin'[e] = bin[e] /\ epoch'[e] = epoch[e]
        BY <1>1, <1>3, <2>1, <2>3 DEF Counts
      <3>2. bin[e] <= bins(cfg, e)
        BY <1>3 DEF CountersInRange
      <3>3. ASSUME Passed(e)' PROVE Passed(e)
        BY <1>1, <2>1, <2>3, <3>3 DEF Passed, Following, Domains
      <3>4. PastQuota(e)' <=> PastQuota(e)
        BY <1>1, <3>1 DEF PastQuota
      <3> QED
        BY <1>3, <3>1, <3>2, <3>3, <3>4 DEF CountersInRange
    <2> QED
      BY <2>2, <2>3
  <1>8. DropsAccounted'
    <2> SUFFICES ASSUME NEW e \in Domains
                 PROVE  log'[e].drops + acc'[e][e] = total.drops[e]
      BY <1>1 DEF DropsAccounted
    <2>1. log[e].drops + acc[e][e] = total.drops[e]
      BY <1>3 DEF DropsAccounted
    <2>2. CASE e = d
      <3>1. log'[e].drops = log[d].drops + acc[d][d] /\ acc'[e][e] = 0
        BY <1>1, <1>2, <1>3, <2>2 DEF Counts, NoDrops
      <3> QED
        BY <1>5, <2>1, <2>2, <3>1
    <2>3. CASE e # d
      <3>1. log'[e] = log[e] /\ acc'[e] = acc[e]
        BY <1>1, <1>2, <1>3, <2>3 DEF Counts
      <3> QED
        BY <2>1, <3>1
    <2> QED
      BY <2>2, <2>3
  <1> QED
    BY <1>6, <1>7, <1>8 DEF Inductive

(* A boundary that is not reached leaves the counter below the end, or the *)
(* domain has closed all its epochs.                                       *)
LEMMA NoBoundaryInductive ==
    ASSUME Inductive, NEW d \in Domains, NoBoundary(d)
    PROVE  Inductive'
  <1>1. /\ phase = d /\ phase' = Following(d) /\ ~AtBoundary(d)
        /\ UNCHANGED <<cfg, total, bin, epoch, acc, log>>
    BY DEF NoBoundary
  <1>2. Counts /\ CountersInRange /\ DropsAccounted
    BY DEF Inductive
  <1>3. Counts' /\ DropsAccounted'
    BY <1>1, <1>2 DEF Counts, DropsAccounted, Following, Domains
  <1>4. CountersInRange'
    <2> SUFFICES ASSUME NEW e \in cfg.enabled
                 PROVE  Passed(e)' => bin[e] < bins(cfg, e) \/ PastQuota(e)
      BY <1>1, <1>2 DEF CountersInRange, Following, Domains, PastQuota
    <2>1. e \in Domains /\ bins(cfg, e) \in Nat /\ bin[e] \in Nat
          /\ epoch[e] \in Nat /\ num_epochs_for(cfg, e) \in Nat
      BY <1>2, EnabledDomains DEF Counts
    <2>2. CASE e = d
      BY <1>1, <2>1, <2>2 DEF AtBoundary, PastQuota
    <2>3. CASE e # d
      <3>1. ASSUME Passed(e)' PROVE Passed(e)
        BY <1>1, <2>1, <2>3, <3>1 DEF Passed, Following, Domains
      <3> QED
        BY <1>2, <3>1 DEF CountersInRange
    <2> QED
      BY <2>2, <2>3
  <1> QED
    BY <1>3, <1>4 DEF Inductive

(* The clip resets exactly the counters that are still at the end.         *)
LEMMA ClipInductive ==
    ASSUME Inductive, Clip
    PROVE  Inductive'
  <1>1. /\ phase = "clip" /\ phase' = "bin" /\ UNCHANGED <<cfg, total, epoch, acc, log>>
        /\ bin' = [d \in Domains |-> IF PastQuota(d) THEN 0 ELSE bin[d]]
    BY DEF Clip
  <1>2. Counts /\ CountersInRange /\ DropsAccounted
    BY DEF Inductive
  <1>3. Counts' /\ DropsAccounted'
    BY <1>1, <1>2 DEF Counts, DropsAccounted
  <1>4. CountersInRange'
    <2> SUFFICES ASSUME NEW e \in cfg.enabled
                 PROVE  bin'[e] < bins(cfg, e)
      <3>1. \A e \in cfg.enabled : bins(cfg, e) \in Nat /\ bin'[e] \in Nat
        BY <1>1, <1>2, EnabledDomains DEF Counts
      <3> QED
        BY <1>1, <3>1 DEF CountersInRange, Passed
    <2>1. e \in Domains /\ bins(cfg, e) \in Nat \ {0} /\ bin[e] \in Nat
      BY <1>2, EnabledDomains DEF Counts
    <2>2. bin[e] < bins(cfg, e) \/ PastQuota(e)
      BY <1>1, <1>2 DEF CountersInRange, Passed
    <2> QED
      BY <1>1, <2>1, <2>2
  <1> QED
    BY <1>3, <1>4 DEF Inductive

LEMMA NextInductive == Inductive /\ [Next]_vars => Inductive'
  <1>1. ASSUME Inductive, UNCHANGED vars PROVE Inductive'
    BY <1>1 DEF vars, Inductive, Counts, CountersInRange, DropsAccounted, Passed, PastQuota
  <1> QED
    BY <1>1, BinInductive, BoundaryInductive, NoBoundaryInductive, ClipInductive
       DEF Next, Done

THEOREM InductiveHolds == Spec => []Inductive
  BY InitInductive, NextInductive, PTL DEF Spec

-----------------------------------------------------------------------------
(* No bin is recorded past the end of its epoch's arrays.                  *)
THEOREM IndexAlwaysInRange == Spec => []IndexInRange
  <1>1. Inductive => IndexInRange
    BY DEF Inductive, CountersInRange, IndexInRange
  <1> QED
    BY <1>1, InductiveHolds, PTL

(* A refused packet is in its domain's log or accumulator, and in no other.*)
THEOREM DropsAlwaysAccounted == Spec => []DropsAccounted
  BY InductiveHolds, PTL DEF Inductive

-----------------------------------------------------------------------------
(* Why an epoch is complete: the bins a domain has behind it are those of  *)
(* its closed epochs and those of the present one, the clock and the rows  *)
(* of the present epoch follow from that number, and the bins that remain  *)
(* are enough for the epochs that remain.                                  *)
Elapsed(d) == epoch[d] * bins(cfg, d) + bin[d]

RowsInPlace(d) ==
    \A k \in 0..(bin[d] - 1) : telem[d][k] = (epoch[d] * bins(cfg, d) + k) * DeltaNs

OnCourse(d) ==
    /\ t = Elapsed(d) * DeltaNs
    /\ Elapsed(d) + left >= TotalBins(cfg, d)
    /\ RowsInPlace(d)

Complete ==
    /\ left \in Nat /\ t \in Nat
    /\ DOMAIN telem = Domains
    /\ \A d \in cfg.enabled :
          /\ log[d].rows = epoch[d] /\ epoch[d] <= num_epochs_for(cfg, d)
          /\ DOMAIN telem[d] = 0..(bins(cfg, d) - 1)
          /\ ~PastQuota(d) => OnCourse(d)

(* Products of naturals, for the steps that count bins or nanoseconds.     *)
LEMMA Products ==
    ASSUME NEW m \in Nat, NEW n \in Nat
    PROVE  /\ m * n \in Nat
           /\ (m + 1) * n = m * n + n
           /\ 0 * n = 0
  OBVIOUS

LEMMA Grows ==
    ASSUME NEW i \in Nat, NEW j \in Nat, NEW n \in Nat, i < j
    PROVE  i * n + n <= j * n
  <1>1. PICK x \in Nat : j = i + 1 + x
    <2>1. j - i - 1 \in Nat /\ j = i + 1 + (j - i - 1)
      OBVIOUS
    <2> QED
      BY <2>1
  <1>2. j * n = i * n + n + x * n
    BY <1>1
  <1>3. x * n \in Nat /\ i * n \in Nat
    BY <1>1, Products
  <1> QED
    BY <1>2, <1>3

(* What the steps below use of Counts and CountersInRange.                 *)
LEMMA Numbers ==
    ASSUME Inductive, NEW d \in cfg.enabled
    PROVE  /\ d \in Domains
           /\ bins(cfg, d) \in Nat \ {0} /\ num_epochs_for(cfg, d) \in Nat
           /\ bin[d] \in Nat /\ epoch[d] \in Nat
           /\ Elapsed(d) \in Nat /\ TotalBins(cfg, d) \in Nat
           /\ bin[d] <= bins(cfg, d)
           /\ phase = "bin" => bin[d] < bins(cfg, d)
  <1>1. /\ d \in Domains /\ bin[d] \in Nat /\ epoch[d] \in Nat
        /\ bins(cfg, d) \in Nat \ {0} /\ num_epochs_for(cfg, d) \in Nat
    BY EnabledDomains DEF Inductive, Counts
  <1>2. epoch[d] * bins(cfg, d) \in Nat /\ num_epochs_for(cfg, d) * bins(cfg, d) \in Nat
    BY <1>1, Products
  <1> QED
    BY <1>1, <1>2 DEF Elapsed, TotalBins, Inductive, CountersInRange

LEMMA InitComplete == Init => Complete
  <1> SUFFICES ASSUME Init PROVE Complete
    OBVIOUS
  <1>1. Inductive
    BY InitInductive
  <1>2. PICK e \in cfg.enabled : left = TotalBins(cfg, e)
    BY DEF Init
  <1>3. left \in Nat /\ t = 0 /\ DOMAIN telem = Domains
    BY <1>1, <1>2, Numbers DEF Init
  <1>4. ASSUME NEW d \in cfg.enabled
        PROVE  /\ log[d].rows = epoch[d] /\ epoch[d] <= num_epochs_for(cfg, d)
               /\ DOMAIN telem[d] = 0..(bins(cfg, d) - 1)
               /\ OnCourse(d)
    <2>1. /\ d \in Domains /\ bins(cfg, d) \in Nat /\ num_epochs_for(cfg, d) \in Nat
          /\ TotalBins(cfg, d) \in Nat
      BY <1>1, Numbers
    <2>2. bin[d] = 0 /\ epoch[d] = 0 /\ log[d].rows = 0 /\ telem[d] = reset_epoch(cfg, d)
      BY <2>1 DEF Init
    <2>3. Elapsed(d) = 0
      BY <2>1, <2>2, Products DEF Elapsed
    <2>4. TotalBins(cfg, d) <= left /\ 0 * DeltaNs = 0
      BY EpochDriverAssumption DEF Init
    <2>5. RowsInPlace(d)
      BY <2>2 DEF RowsInPlace
    <2>6. OnCourse(d)
      BY <1>3, <2>1, <2>3, <2>4, <2>5 DEF OnCourse
    <2> QED
      BY <2>1, <2>2, <2>6 DEF reset_epoch
  <1> QED
    BY <1>3, <1>4 DEF Complete

(* A bin adds one to what has elapsed and one row, at the time of the bin. *)
LEMMA BinComplete ==
    ASSUME Inductive, Complete, ProcessBin
    PROVE  Complete'
  <1>1. /\ phase = "bin" /\ left > 0 /\ t' = t + DeltaNs /\ left' = left - 1
        /\ UNCHANGED <<cfg, epoch, log>>
        /\ bin' = [d \in Domains |-> IF d \in cfg.enabled THEN bin[d] + 1 ELSE bin[d]]
        /\ telem' = [d \in Domains |-> record_bin(d)]
    BY DEF ProcessBin
  <1>2. left' \in Nat /\ t' \in Nat /\ DOMAIN telem' = Domains
    BY <1>1, EpochDriverAssumption DEF Complete
  <1>3. ASSUME NEW d \in cfg.enabled
        PROVE  /\ DOMAIN telem'[d] = 0..(bins(cfg, d) - 1)
               /\ ~PastQuota(d) => OnCourse(d)'
    <2>1. /\ d \in Domains /\ bins(cfg, d) \in Nat /\ bin[d] \in Nat /\ epoch[d] \in Nat
          /\ Elapsed(d) \in Nat /\ TotalBins(cfg, d) \in Nat /\ bin[d] < bins(cfg, d)
      BY <1>1, Numbers
    <2>2. bin'[d] = bin[d] + 1 /\ telem'[d] = [telem[d] EXCEPT ![bin[d]] = t]
      BY <1>1, <2>1 DEF record_bin
    <2>3. DOMAIN telem[d] = 0..(bins(cfg, d) - 1)
      BY DEF Complete
    <2>4. ASSUME ~PastQuota(d) PROVE OnCourse(d)'
      <3>1. /\ t = Elapsed(d) * DeltaNs /\ Elapsed(d) + left >= TotalBins(cfg, d)
            /\ RowsInPlace(d)
        BY <2>4 DEF Complete, OnCourse
      <3>2. epoch[d] * bins(cfg, d) \in Nat
        BY <2>1, Products
      <3>3. Elapsed(d)' = Elapsed(d) + 1
        BY <1>1, <2>1, <2>2, <3>2 DEF Elapsed, bins
      <3>4. t' = Elapsed(d)' * DeltaNs
        BY <1>1, <2>1, <3>1, <3>3, Products, EpochDriverAssumption
      <3>5. Elapsed(d)' + left' >= TotalBins(cfg, d)'
        BY <1>1, <2>1, <3>1, <3>3 DEF Complete, TotalBins, bins, num_epochs_for
      <3>6. ASSUME NEW k \in 0..(bin'[d] - 1)
            PROVE  telem'[d][k] = (epoch[d] * bins(cfg, d) + k) * DeltaNs
        <4>1. CASE k = bin[d]
          <5>1. telem'[d][k] = t
            BY <2>1, <2>2, <2>3, <4>1
          <5> QED
            BY <3>1, <4>1, <5>1 DEF Elapsed
        <4>2. CASE k # bin[d]
          <5>1. k \in 0..(bin[d] - 1)
            BY <2>1, <2>2, <4>2
          <5>2. telem'[d][k] = telem[d][k]
            BY <2>1, <2>2, <2>3, <4>2, <5>1
          <5> QED
            BY <3>1, <5>1, <5>2 DEF RowsInPlace
        <4> QED
          BY <4>1, <4>2
      <3>7. RowsInPlace(d)'
        BY <1>1, <3>6 DEF RowsInPlace, bins
      <3> QED
        BY <3>4, <3>5, <3>7 DEF OnCourse
    <2> QED
      BY <2>2, <2>3, <2>4
  <1>4. \A d \in cfg.enabled : PastQuota(d)' <=> PastQuota(d)
    BY <1>1 DEF PastQuota, num_epochs_for
  <1> QED
    BY <1>1, <1>2, <1>3, <1>4 DEF Complete, bins, num_epochs_for

(* At a boundary the counter has just reached the end: the bins of the     *)
(* epoch become those of a closed one.                                     *)
LEMMA BoundaryComplete ==
    ASSUME Inductive, Complete, NEW d \in Domains, Boundary(d)
    PROVE  Complete'
  <1>1. /\ AtBoundary(d) /\ UNCHANGED <<cfg, t, left>>
        /\ bin' = [bin EXCEPT ![d] = 0] /\ epoch' = [epoch EXCEPT ![d] = @ + 1]
        /\ telem' = [telem EXCEPT ![d] = reset_epoch(cfg, d)]
    BY DEF Boundary
  <1>2. PICK row : row.rows = log[d].rows + 1 /\ log' = [log EXCEPT ![d] = row]
    <2> DEFINE new == [rows |-> log[d].rows + 1, drops |-> log[d].drops + acc[d][d],
                       accepts |-> IF d = "stateful" THEN log[d].accepts + accepts
                                                     ELSE log[d].accepts]
    <2>1. log' = [log EXCEPT ![d] = new]
      BY DEF Boundary
    <2>2. new.rows = log[d].rows + 1
      OBVIOUS
    <2> HIDE DEF new
    <2> QED
      BY <2>1, <2>2
  <1>3. /\ bin \in [Domains -> Nat] /\ epoch \in [Domains -> Nat] /\ DOMAIN log = Domains
        /\ DOMAIN telem = Domains
    BY DEF Inductive, Counts, Complete
  <1>4. \A e \in Domains : bins(cfg, e)' = bins(cfg, e)
                           /\ num_epochs_for(cfg, e)' = num_epochs_for(cfg, e)
                           /\ TotalBins(cfg, e)' = TotalBins(cfg, e)
    BY <1>1 DEF bins, num_epochs_for, TotalBins
  <1>5. ASSUME NEW e \in cfg.enabled
        PROVE  /\ log'[e].rows = epoch'[e] /\ epoch'[e] <= num_epochs_for(cfg, e)
               /\ DOMAIN telem'[e] = 0..(bins(cfg, e) - 1)
               /\ ~PastQuota(e)' => OnCourse(e)'
    <2>1. /\ e \in Domains /\ bins(cfg, e) \in Nat \ {0} /\ num_epochs_for(cfg, e) \in Nat
          /\ bin[e] \in Nat /\ epoch[e] \in Nat /\ bin[e] <= bins(cfg, e)
          /\ Elapsed(e) \in Nat /\ TotalBins(cfg, e) \in Nat
      BY Numbers
    <2>2. /\ log[e].rows = epoch[e] /\ epoch[e] <= num_epochs_for(cfg, e)
          /\ DOMAIN telem[e] = 0..(bins(cfg, e) - 1)
          /\ ~PastQuota(e) => OnCourse(e)
      BY DEF Complete
    <2>3. CASE e = d
      <3>1. bin[e] = bins(cfg, e) /\ epoch[e] < num_epochs_for(cfg, e)
        BY <1>1, <2>1, <2>3 DEF AtBoundary
      <3>2. bin'[e] = 0 /\ epoch'[e] = epoch[e] + 1 /\ telem'[e] = reset_epoch(cfg, e)
        BY <1>1, <1>3, <2>1, <2>3
      <3>3. log'[e].rows = log[e].rows + 1
        BY <1>2, <1>3, <2>1, <2>3
      <3>4. OnCourse(e)
        BY <2>1, <2>2, <3>1 DEF PastQuota
      <3>5. Elapsed(e)' = Elapsed(e)
        <4>1. (epoch[e] + 1) * bins(cfg, e) = epoch[e] * bins(cfg, e) + bins(cfg, e)
              /\ epoch[e] * bins(cfg, e) \in Nat
          BY <2>1, Products
        <4>2. Elapsed(e)' = (epoch[e] + 1) * bins(cfg, e) + 0
          BY <1>4, <2>1, <3>2 DEF Elapsed
        <4> QED
          BY <2>1, <3>1, <4>1, <4>2 DEF Elapsed
      <3>6. RowsInPlace(e)'
        BY <3>2 DEF RowsInPlace
      <3>7. OnCourse(e)'
        BY <1>1, <1>4, <2>1, <3>4, <3>5, <3>6 DEF OnCourse
      <3> QED
        BY <2>1, <2>2, <3>1, <3>2, <3>3, <3>7 DEF reset_epoch
    <2>4. CASE e # d
      <3>1. /\ bin'[e] = bin[e] /\ epoch'[e] = epoch[e] /\ telem'[e] = telem[e]
            /\ log'[e] = log[e]
        BY <1>1, <1>2, <1>3, <2>1, <2>4
      <3>2. OnCourse(e)' <=> OnCourse(e)
        BY <1>1, <1>4, <2>1, <3>1 DEF OnCourse, Elapsed, RowsInPlace
      <3>3. PastQuota(e)' <=> PastQuota(e)
        BY <1>4, <2>1, <3>1 DEF PastQuota
      <3> QED
        BY <2>2, <3>1, <3>2, <3>3
    <2> QED
      BY <2>3, <2>4
  <1>6. cfg.enabled \subseteq Domains
    BY EnabledDomains DEF Inductive
  <1>7. left' \in Nat /\ t' \in Nat /\ DOMAIN telem' = Domains
    BY <1>1, <1>3 DEF Complete
  <1> QED
    BY <1>1, <1>4, <1>5, <1>6, <1>7 DEF Complete

(* The clip changes only counters of domains that are past their quota.    *)
LEMMA ClipComplete ==
    ASSUME Inductive, Complete, Clip
    PROVE  Complete'
  <1>1. /\ UNCHANGED <<cfg, t, left, epoch, telem, log>>
        /\ bin' = [d \in Domains |-> IF PastQuota(d) THEN 0 ELSE bin[d]]
    BY DEF Clip
  <1>2. \A d \in cfg.enabled : (PastQuota(d)' <=> PastQuota(d))
    BY <1>1 DEF PastQuota, num_epochs_for
  <1>3. ASSUME NEW d \in cfg.enabled, ~PastQuota(d), OnCourse(d)
        PROVE  OnCourse(d)'
    <2>1. d \in Domains
      BY Numbers
    <2>2. bin'[d] = bin[d]
      BY <1>1, <1>3, <2>1
    <2> QED
      BY <1>1, <1>3, <2>2
         DEF OnCourse, Elapsed, RowsInPlace, bins, TotalBins, num_epochs_for
  <1> QED
    BY <1>1, <1>2, <1>3 DEF Complete, bins, num_epochs_for

LEMMA NextComplete == Inductive /\ Complete /\ [Next]_vars => Complete'
  <1>1. ASSUME Complete, UNCHANGED <<cfg, t, left, bin, epoch, telem, log>>
        PROVE  Complete'
    BY <1>1 DEF Complete, OnCourse, Elapsed, RowsInPlace, PastQuota, bins,
                num_epochs_for, TotalBins
  <1>2. ASSUME Complete, UNCHANGED vars PROVE Complete'
    BY <1>1, <1>2 DEF vars
  <1>3. ASSUME Complete, NEW d \in Domains, NoBoundary(d) PROVE Complete'
    BY <1>1, <1>3 DEF NoBoundary
  <1> QED
    BY <1>2, <1>3, BinComplete, BoundaryComplete, ClipComplete DEF Next, Done

(* Every epoch of every domain is closed from exactly its own bins, in     *)
(* their places, and a run ends with all configured epochs logged.         *)
THEOREM EpochsAlwaysComplete == Spec => []EpochComplete
  <1>1. ASSUME Inductive, Complete PROVE EpochComplete
    <2>1. ASSUME NEW d \in Domains, AtBoundary(d), NEW k \in 0..(bins(cfg, d) - 1)
          PROVE  telem[d][k] = (epoch[d] * bins(cfg, d) + k) * DeltaNs
      <3>1. d \in cfg.enabled /\ bin[d] >= bins(cfg, d) /\ epoch[d] < num_epochs_for(cfg, d)
        BY <2>1 DEF AtBoundary
      <3>2. bin[d] \in Nat /\ epoch[d] \in Nat /\ num_epochs_for(cfg, d) \in Nat
            /\ bins(cfg, d) \in Nat /\ bin[d] <= bins(cfg, d)
        BY <1>1, <3>1, Numbers
      <3>3. RowsInPlace(d)
        BY <1>1, <3>1, <3>2 DEF Complete, OnCourse, PastQuota
      <3>4. k \in 0..(bin[d] - 1)
        BY <2>1, <3>1, <3>2
      <3> QED
        BY <3>3, <3>4 DEF RowsInPlace
    <2>2. ASSUME Finished, NEW d \in cfg.enabled
          PROVE  log[d].rows = num_epochs_for(cfg, d)
      <3>1. /\ bin[d] \in Nat /\ epoch[d] \in Nat /\ num_epochs_for(cfg, d) \in Nat
            /\ bins(cfg, d) \in Nat /\ bin[d] < bins(cfg, d) /\ Elapsed(d) \in Nat
            /\ TotalBins(cfg, d) \in Nat
        BY <1>1, <2>2, Numbers DEF Finished
      <3>2. log[d].rows = epoch[d] /\ epoch[d] <= num_epochs_for(cfg, d)
        BY <1>1 DEF Complete
      <3>3. ASSUME epoch[d] < num_epochs_for(cfg, d) PROVE FALSE
        <4>1. Elapsed(d) + left >= TotalBins(cfg, d) /\ left = 0
          BY <1>1, <2>2, <3>1, <3>3 DEF Complete, OnCourse, PastQuota, Finished
        <4>2. epoch[d] * bins(cfg, d) + bins(cfg, d) <= TotalBins(cfg, d)
          BY <3>1, <3>3, Grows DEF TotalBins
        <4>3. epoch[d] * bins(cfg, d) \in Nat
          BY <3>1, Products
        <4> QED
          BY <3>1, <4>1, <4>2, <4>3 DEF Elapsed
      <3> QED
        BY <3>1, <3>2, <3>3
    <2> QED
      BY <2>1, <2>2 DEF EpochComplete
  <1>2. Spec => []Complete
    BY InitComplete, NextComplete, InductiveHolds, PTL DEF Spec
  <1> QED
    BY <1>1, <1>2, InductiveHolds, PTL

-----------------------------------------------------------------------------
(* What the predictor and the training windows keep. A window shown after  *)
(* epoch i has zeros where the run is younger than it and otherwise the    *)
(* epochs up to i; the deque holds the latest epochs of the recorded       *)
(* timeline.                                                               *)
Feature == [B : Nat, R : Nat, P : 0..PSteps]

W == cfg.predictor.W

Shown(i, j) == IF j <= W - i THEN NoFeature ELSE timeline[i - W + j]

Observed ==
    /\ timeline \in Seq(Feature)
    /\ history \in Seq(Feature)
    /\ Len(history) = Smaller(Len(timeline), W)
    /\ \A j \in 1..Len(history) : history[j] = timeline[Len(timeline) - Len(history) + j]
    /\ shown \in Seq([1..W -> Feature])
    /\ Len(shown) = Len(timeline)
    /\ \A i \in 1..Len(shown), j \in 1..W : shown[i][j] = Shown(i, j)

(* Every configuration has a window and features of the right kind.        *)
LEMMA PredictorConfig ==
    ASSUME Counts
    PROVE  /\ W \in Nat \ {0} /\ cfg.features \subseteq Feature
           /\ NoFeature \in Feature
  <1>1. PSteps \in Nat
    BY PredictorsAssumption
  <1> QED
    BY <1>1 DEF Counts, ConfigRecord, W, Feature, NoFeature

(* A window is a sequence of its length.                                   *)
LEMMA FunctionIsSequence ==
    ASSUME NEW S, NEW n \in Nat, NEW f \in [1..n -> S]
    PROVE  f \in Seq(S) /\ Len(f) = n
  OBVIOUS

(* What the network is shown of a deque.                                   *)
LEMMA WindowOfLatest ==
    ASSUME NEW w \in Nat \ {0}, NEW s \in Seq(Feature), Len(s) <= w, NoFeature \in Feature
    PROVE  /\ tcn_window(w, s) \in [1..w -> Feature]
           /\ \A j \in 1..w : tcn_window(w, s)[j]
                 = IF j <= w - Len(s) THEN NoFeature ELSE s[j - (w - Len(s))]
  <1>1. Len(s) \in Nat
    BY LenProperties
  <1>2. ASSUME NEW j \in 1..w, ~(j <= w - Len(s))
        PROVE  s[j - (w - Len(s))] \in Feature
    <2>1. j - (w - Len(s)) \in 1..Len(s)
      BY <1>1, <1>2
    <2> QED
      BY <2>1, ElementOfSeq
  <1> QED
    BY <1>2 DEF tcn_window

(* The deque after one more epoch: the latest w epochs.                    *)
LEMMA LatestAppended ==
    ASSUME NEW w \in Nat \ {0}, NEW s \in Seq(Feature), Len(s) <= w, NEW f \in Feature
    PROVE  /\ observe(w, s, f) \in Seq(Feature)
           /\ Len(observe(w, s, f)) = IF Len(s) = w THEN w ELSE Len(s) + 1
           /\ \A j \in 1..Len(observe(w, s, f)) :
                 observe(w, s, f)[j]
                    = Append(s, f)[Len(s) + 1 - Len(observe(w, s, f)) + j]
  <1> DEFINE seq == Append(s, f)
             m == Larger(1, Len(seq) - w + 1)
             n == Len(seq)
  <1>1. /\ Len(s) \in Nat /\ seq \in Seq(Feature) /\ Len(seq) = Len(s) + 1
    BY LenProperties, AppendProperties
  <1>2. observe(w, s, f) = SubSeq(seq, m, n)
    BY DEF observe, Latest
  <1>3. m = IF Len(s) = w THEN 2 ELSE 1
    BY <1>1 DEF Larger
  <1>4. m \in Int /\ n \in Int /\ \A i \in m..n : i \in 1..Len(seq)
    BY <1>1, <1>3
  <1>5. n = Len(s) + 1
    BY <1>1
  <1> HIDE DEF m, n
  <1>6. \A i \in m..n : seq[i] \in Feature
    BY <1>1, <1>4, ElementOfSeq
  <1> HIDE DEF seq
  <1>7. /\ SubSeq(seq, m, n) \in Seq(Feature)
        /\ Len(SubSeq(seq, m, n)) = IF m <= n THEN n - m + 1 ELSE 0
        /\ \A i \in 1..n - m + 1 : SubSeq(seq, m, n)[i] = seq[m + i - 1]
    BY <1>4, <1>6, SubSeqProperties
  <1>8. Len(SubSeq(seq, m, n)) = IF Len(s) = w THEN w ELSE Len(s) + 1
    BY <1>1, <1>3, <1>5, <1>7
  <1>9. ASSUME NEW j \in 1..Len(observe(w, s, f))
        PROVE  observe(w, s, f)[j] = seq[Len(s) + 1 - Len(observe(w, s, f)) + j]
    <2>1. j \in 1..n - m + 1 /\ m + j - 1 = Len(s) + 1 - Len(observe(w, s, f)) + j
      <3>1. CASE Len(s) = w
        BY <1>1, <1>2, <1>3, <1>5, <1>8, <1>9, <3>1
      <3>2. CASE Len(s) # w
        <4>1. Len(observe(w, s, f)) = Len(s) + 1 /\ m = 1
          BY <1>2, <1>3, <1>8, <3>2
        <4>2. j \in 1..Len(s) + 1
          BY <1>9, <4>1
        <4> QED
          BY <1>1, <1>5, <4>1, <4>2
      <3> QED
        BY <3>1, <3>2
    <2> QED
      BY <1>2, <1>7, <2>1
  <1> QED
    BY <1>2, <1>7, <1>8, <1>9 DEF seq

(* An observation keeps deque, timeline and windows in step.               *)
LEMMA ObserveObserved ==
    ASSUME Counts, Observed, UNCHANGED cfg, NEW feat \in cfg.features, Observe(feat)
    PROVE  Observed'
  <1>1. W \in Nat \ {0} /\ feat \in Feature /\ NoFeature \in Feature /\ W' = W
    BY PredictorConfig DEF W
  <1>2. /\ history' = observe(W, history, feat)
        /\ timeline' = Append(timeline, feat)
        /\ shown' = Append(shown, tcn_window(W, history'))
    BY DEF Observe, W
  <1>a. timeline \in Seq(Feature) /\ history \in Seq(Feature)
    BY DEF Observed
  <1>b. PICK n \in Nat, h \in Nat : n = Len(timeline) /\ h = Len(history)
    BY <1>a, LenProperties
  <1>c. h = IF n <= W THEN n ELSE W
    BY <1>b DEF Observed, Smaller
  <1>d. h <= W /\ h <= n
    BY <1>1, <1>c
  <1>3. /\ \A j \in 1..h : history[j] = timeline[n - h + j]
        /\ shown \in Seq([1..W -> Feature]) /\ Len(shown) = n
        /\ \A i \in 1..n, j \in 1..W : shown[i][j] = Shown(i, j)
    BY <1>b DEF Observed
  <1>4. /\ timeline' \in Seq(Feature) /\ Len(timeline') = n + 1 /\ timeline'[n + 1] = feat
        /\ \A i \in 1..n : timeline'[i] = timeline[i]
    BY <1>1, <1>2, <1>a, <1>b, AppendProperties
  <1>e. /\ history' \in Seq(Feature)
        /\ Len(history') = IF h = W THEN W ELSE h + 1
        /\ \A j \in 1..Len(history') :
              history'[j] = Append(history, feat)[h + 1 - Len(history') + j]
    <2>1. /\ observe(W, history, feat) \in Seq(Feature)
          /\ Len(observe(W, history, feat)) = IF Len(history) = W THEN W ELSE Len(history) + 1
          /\ \A j \in 1..Len(observe(W, history, feat)) :
                observe(W, history, feat)[j]
                   = Append(history, feat)[Len(history) + 1
                                              - Len(observe(W, history, feat)) + j]
      BY <1>1, <1>a, <1>b, <1>d, LatestAppended
    <2> QED
      BY <1>2, <1>b, <2>1
  <1>f. PICK m \in Nat : m = Len(history')
    BY <1>e, LenProperties
  <1>5. /\ m = IF h = W THEN W ELSE h + 1
        /\ \A j \in 1..m : history'[j] = Append(history, feat)[h + 1 - m + j]
    BY <1>e, <1>f
  <1>6. m = IF n + 1 <= W THEN n + 1 ELSE W
    BY <1>1, <1>c, <1>5
  <1>g. /\ Append(history, feat)[h + 1] = feat
        /\ \A k \in 1..h : Append(history, feat)[k] = history[k]
    BY <1>1, <1>a, <1>b, AppendProperties
  <1>7. ASSUME NEW j \in 1..m
        PROVE  history'[j] = timeline'[n + 1 - m + j]
    <2>1. PICK k \in 1..h + 1 : k = h + 1 - m + j
      <3>1. CASE h = W
        BY <1>1, <1>5, <3>1
      <3>2. CASE h # W
        BY <1>5, <3>2
      <3> QED
        BY <3>1, <3>2
    <2>2. history'[j] = Append(history, feat)[k]
      BY <1>5, <2>1
    <2>3. n + 1 - m + j = n - h + k
      BY <2>1
    <2>4. CASE k = h + 1
      <3>1. n + 1 - m + j = n + 1
        BY <2>3, <2>4
      <3> QED
        BY <1>4, <1>g, <2>2, <2>4, <3>1
    <2>5. CASE k \in 1..h
      <3>1. n - h + k \in 1..n
        BY <1>d, <2>5
      <3> QED
        BY <1>3, <1>4, <1>g, <2>2, <2>3, <2>5, <3>1
    <2> QED
      BY <2>1, <2>4, <2>5
  <1> DEFINE window == tcn_window(W, history')
  <1>8. /\ window \in [1..W -> Feature]
        /\ \A j \in 1..W : window[j]
              = IF j <= W - m THEN NoFeature ELSE history'[j - (W - m)]
    <2>1. Len(history') <= W
      BY <1>1, <1>f, <1>6
    <2> QED
      BY <1>1, <1>e, <1>f, <2>1, WindowOfLatest
  <1>9. shown' = Append(shown, window)
    BY <1>2
  <1> HIDE DEF window
  <1>10. /\ shown' \in Seq([1..W -> Feature]) /\ Len(shown') = n + 1
         /\ shown'[n + 1] = window
         /\ \A i \in 1..n : shown'[i] = shown[i]
    BY <1>3, <1>8, <1>9, AppendProperties
  <1>11. ASSUME NEW i \in 1..n + 1, NEW j \in 1..W
         PROVE  shown'[i][j] = IF j <= W - i THEN NoFeature ELSE timeline'[i - W + j]
    <2>1. CASE i \in 1..n
      <3>1. shown'[i][j] = IF j <= W - i THEN NoFeature ELSE timeline[i - W + j]
        BY <1>3, <1>10, <2>1 DEF Shown
      <3>2. ~(j <= W - i) => i - W + j \in 1..n
        BY <1>1, <1>3, <2>1
      <3> QED
        BY <1>4, <3>1, <3>2
    <2>2. CASE i = n + 1
      <3>1. shown'[i][j] = IF j <= W - m THEN NoFeature
                           ELSE history'[j - (W - m)]
        BY <1>8, <1>10, <2>2
      <3>2. (j <= W - m) <=> (j <= W - i)
        BY <1>1, <1>3, <1>6, <2>2
      <3>3. ASSUME ~(j <= W - i)
            PROVE  history'[j - (W - m)] = timeline'[i - W + j]
        <4>1. /\ j - (W - m) \in 1..m
              /\ n + 1 - m + (j - (W - m)) = i - W + j
          BY <1>1, <1>3, <1>6, <2>2, <3>3
        <4> QED
          BY <1>7, <4>1
      <3> QED
        BY <3>1, <3>2, <3>3
    <2> QED
      BY <1>3, <2>1, <2>2
  <1> QED
    <2>1. Len(history') = Smaller(Len(timeline'), W)
      BY <1>4, <1>6, <1>f DEF Smaller
    <2>2. \A j \in 1..Len(history') :
             history'[j] = timeline'[Len(timeline') - Len(history') + j]
      BY <1>4, <1>7, <1>f
    <2>3. shown' \in Seq([1..W -> Feature]) /\ Len(shown') = Len(timeline')
      BY <1>4, <1>10
    <2>4. \A i \in 1..Len(shown'), j \in 1..W :
             shown'[i][j] = IF j <= W - i THEN NoFeature ELSE timeline'[i - W + j]
      BY <1>10, <1>11
    <2> QED
      BY <1>1, <1>4, <1>e, <2>1, <2>2, <2>3, <2>4 DEF Observed, Shown

(* Then the windows are the training windows.                              *)
LEMMA ObservedAligned ==
    ASSUME Counts, Observed
    PROVE  WindowsAligned
  <1> DEFINE n == Len(timeline)
             samples == windows_from_timeline(timeline, W)
  <1>1. W \in Nat \ {0} /\ NoFeature \in Feature
    BY PredictorConfig
  <1>2. /\ timeline \in Seq(Feature) /\ n \in Nat
        /\ shown \in Seq([1..W -> Feature]) /\ Len(shown) = n /\ DOMAIN shown = 1..n
        /\ \A i \in 1..n, j \in 1..W :
              shown[i][j] = IF j <= W - i THEN NoFeature ELSE timeline[i - W + j]
    BY LenProperties DEF Observed, Shown
  <1>3. /\ DOMAIN samples = 1..Larger(0, n - W)
        /\ \A i \in DOMAIN samples :
              samples[i] = [X |-> SubSeq(timeline, i, i + W - 1), y |-> timeline[i + W].P]
    BY DEF windows_from_timeline
  <1> HIDE DEF n, samples
  <1>4. ASSUME NEW i \in DOMAIN samples
        PROVE  SubSeq(timeline, i, i + W - 1) = shown[i + W - 1]
    <2>1. i \in 1..n /\ i + W <= n /\ i + W - 1 \in 1..n
      BY <1>1, <1>2, <1>3 DEF Larger
    <2>2. i \in Int /\ i + W - 1 \in Int /\ \A k \in i..(i + W - 1) : k \in 1..n
      BY <1>1, <1>2, <2>1
    <2>3. \A k \in i..(i + W - 1) : timeline[k] \in Feature
      BY <1>2, <2>2, ElementOfSeq DEF n
    <2>4. PICK last \in Int : last = i + W - 1
      BY <2>2
    <2>5. /\ SubSeq(timeline, i, last) \in Seq(Feature)
          /\ Len(SubSeq(timeline, i, last)) = IF i <= last THEN last - i + 1 ELSE 0
          /\ \A k \in 1..last - i + 1 : SubSeq(timeline, i, last)[k] = timeline[i + k - 1]
      BY <2>2, <2>3, <2>4, SubSeqProperties
    <2>6. last - i + 1 = W /\ i <= last /\ last \in 1..n
      BY <1>1, <2>1, <2>4
    <2>7. shown[last] \in [1..W -> Feature]
      BY <1>2, <2>6, ElementOfSeq
    <2>8. shown[last] \in Seq(Feature) /\ Len(shown[last]) = W
      BY <1>1, <2>7, FunctionIsSequence
    <2>9. ASSUME NEW k \in 1..W
          PROVE  SubSeq(timeline, i, last)[k] = shown[last][k]
      <3>1. ~(k <= W - last) /\ last - W + k = i + k - 1
        BY <1>1, <2>1, <2>4
      <3>2. shown[last][k] = timeline[last - W + k]
        BY <1>2, <2>6, <3>1
      <3> QED
        BY <2>5, <2>6, <3>1, <3>2
    <2>10. SubSeq(timeline, i, last) = shown[last]
      BY <2>5, <2>6, <2>8, <2>9, SeqEqual
    <2> QED
      BY <2>4, <2>10
  <1>5. ASSUME NEW i \in 1..n, i < W
        PROVE  /\ SubSeq(shown[i], W - i + 1, W) = SubSeq(timeline, 1, i)
               /\ \A j \in 1..(W - i) : shown[i][j] = NoFeature
    <2>1. shown[i] \in [1..W -> Feature]
      BY <1>2, ElementOfSeq
    <2>2. PICK m \in Int : m = W - i + 1
      BY <1>1, <1>2
    <2>3. /\ \A k \in m..W : k \in 1..W
          /\ \A k \in 1..i : k \in 1..n
          /\ W - m + 1 = i /\ m <= W /\ i \in Nat /\ 1 <= i /\ i - 1 + 1 = i /\ 1 \in Int
      BY <1>1, <1>2, <1>5, <2>2
    <2>4. (\A k \in m..W : shown[i][k] \in Feature) /\ (\A k \in 1..i : timeline[k] \in Feature)
      BY <1>2, <2>1, <2>3, ElementOfSeq DEF n
    <2>5. /\ SubSeq(shown[i], m, W) \in Seq(Feature)
          /\ Len(SubSeq(shown[i], m, W)) = IF m <= W THEN W - m + 1 ELSE 0
          /\ \A k \in 1..W - m + 1 : SubSeq(shown[i], m, W)[k] = shown[i][m + k - 1]
      BY <1>1, <2>4, SubSeqProperties
    <2>6. /\ SubSeq(timeline, 1, i) \in Seq(Feature)
          /\ Len(SubSeq(timeline, 1, i)) = IF 1 <= i THEN i - 1 + 1 ELSE 0
          /\ \A k \in 1..i - 1 + 1 : SubSeq(timeline, 1, i)[k] = timeline[1 + k - 1]
      BY <2>3, <2>4, SubSeqProperties
    <2>7. ASSUME NEW k \in 1..i
          PROVE  SubSeq(shown[i], m, W)[k] = SubSeq(timeline, 1, i)[k]
      <3>1. /\ m + k - 1 \in 1..W /\ ~(m + k - 1 <= W - i)
            /\ i - W + (m + k - 1) = k /\ 1 + k - 1 = k
        BY <1>1, <1>2, <1>5, <2>2, <2>3
      <3>2. shown[i][m + k - 1] = timeline[k]
        BY <1>2, <3>1
      <3> QED
        BY <2>3, <2>5, <2>6, <3>1, <3>2
    <2>8. SubSeq(shown[i], m, W) = SubSeq(timeline, 1, i)
      BY <2>3, <2>5, <2>6, <2>7, SeqEqual
    <2>9. \A j \in 1..(W - i) : j \in 1..W /\ j <= W - i
      BY <1>1, <1>2
    <2> QED
      BY <1>2, <2>2, <2>8, <2>9
  <1> QED
    BY <1>2, <1>3, <1>4, <1>5 DEF WindowsAligned, W, samples

(* No other step touches them.                                             *)
LEMMA ObservedKept ==
    Counts /\ Observed /\ [Next]_vars => Observed'
  <1> SUFFICES ASSUME Counts, Observed, [Next]_vars PROVE Observed'
    OBVIOUS
  <1>1. CASE UNCHANGED <<cfg, predictorVars>>
    BY <1>1 DEF Observed, W, Shown, predictorVars
  <1>2. CASE \E feat \in cfg.features : Observe(feat) /\ UNCHANGED cfg
    BY <1>2, ObserveObserved
  <1> QED
    BY <1>1, <1>2 DEF Next, ProcessBin, Boundary, NoBoundary, Clip, Done, vars

(* Deque, timeline and windows stay in step.                               *)
THEOREM WindowsObserved == Spec => []Observed
  <1>1. Init => Observed
    <2> SUFFICES ASSUME Init PROVE Observed
      OBVIOUS
    <2>1. Counts
      BY InitInductive DEF Inductive
    <2>2. W \in Nat \ {0} /\ timeline = << >> /\ history = << >> /\ shown = << >>
      BY <2>1, PredictorConfig DEF Init
    <2> QED
      BY <2>2, EmptySeq DEF Observed, Smaller
  <1>2. Inductive => Counts
    BY DEF Inductive
  <1> QED
    BY <1>1, <1>2, ObservedKept, InductiveHolds, PTL DEF Spec

(* What the network is shown during a run is what it was trained on: every *)
(* full window is the training window cut from the recorded timeline at    *)
(* the same place, every other one the epochs so far behind zeros, for     *)
(* every window length and every run.                                      *)
THEOREM WindowsAlwaysAligned == Spec => []WindowsAligned
  <1>1. Inductive => Counts
    BY DEF Inductive
  <1>2. Counts /\ Observed => WindowsAligned
    BY ObservedAligned
  <1> QED
    BY <1>1, <1>2, WindowsObserved, InductiveHolds, PTL

-----------------------------------------------------------------------------
(* Products of naturals grow with their factors.                           *)
LEMMA ProductGrows ==
    ASSUME NEW a \in Nat, NEW x \in Int, NEW y \in Int, x <= y
    PROVE  a * x <= a * y
  BY SMT

(* Powers, by the recursion that defines them.                             *)
Powers(x, n, p) == p = [k \in 0..n |-> IF k = 0 THEN 1 ELSE x * p[k - 1]]

LEMMA PowersAgree ==
    ASSUME NEW x \in Nat, NEW m \in Nat, NEW n \in Nat, NEW p, NEW q,
           Powers(x, m, p), Powers(x, n, q), m <= n
    PROVE  p[m] = q[m]
  <1> DEFINE N == {k \in Nat : k <= m => p[k] = q[k]}
  <1>1. 0 \in N
    BY DEF Powers
  <1>2. ASSUME NEW k \in Nat, k \in N PROVE k + 1 \in N
    <2> SUFFICES ASSUME k + 1 <= m PROVE p[k + 1] = q[k + 1]
      OBVIOUS
    <2>1. k + 1 \in 0..m /\ k + 1 \in 0..n /\ k + 1 # 0 /\ (k + 1) - 1 = k
      OBVIOUS
    <2>2. p[k + 1] = x * p[k] /\ q[k + 1] = x * q[k]
      BY <2>1 DEF Powers
    <2>3. p[k] = q[k]
      BY <1>2
    <2> QED
      BY <2>2, <2>3
  <1> HIDE DEF N
  <1>3. Nat \subseteq N
    BY <1>1, <1>2, Induction
  <1> QED
    BY <1>3 DEF N

LEMMA PowersExist ==
    ASSUME NEW x \in Nat, NEW n \in Nat
    PROVE  \E p : Powers(x, n, p)
  <1> DEFINE N == {k \in Nat : \E p : Powers(x, k, p)}
  <1>1. 0 \in N
    <2> DEFINE p == [k \in 0..0 |-> 1]
    <2>1. Powers(x, 0, p)
      BY DEF Powers
    <2> QED
      BY <2>1
  <1>2. ASSUME NEW k \in Nat, k \in N PROVE k + 1 \in N
    <2>1. PICK p : Powers(x, k, p)
      BY <1>2
    <2> DEFINE q == [i \in 0..(k + 1) |-> IF i = 0 THEN 1 ELSE x * p[i - 1]]
    <2>2. \A i \in 0..k : p[i] = q[i]
      BY <2>1 DEF Powers
    <2>3. \A i \in 0..(k + 1) : i # 0 => i - 1 \in 0..k
      OBVIOUS
    <2>4. q = [i \in 0..(k + 1) |-> IF i = 0 THEN 1 ELSE x * q[i - 1]]
      BY <2>2, <2>3
    <2> HIDE DEF q
    <2>5. Powers(x, k + 1, q)
      BY <2>4 DEF Powers
    <2> QED
      BY <2>5
  <1> HIDE DEF N
  <1>3. Nat \subseteq N
    BY <1>1, <1>2, Induction
  <1> QED
    BY <1>3 DEF N

LEMMA PowerUnfolds ==
    ASSUME NEW x \in Nat, NEW n \in Nat
    PROVE  \E p : Powers(x, n, p) /\ Power(x, n) = p[n]
  <1> DEFINE p == CHOOSE p : Powers(x, n, p)
  <1>1. Powers(x, n, p)
    BY PowersExist
  <1>2. Power(x, n) = p[n]
    BY DEF Power, Powers
  <1> HIDE DEF p
  <1> QED
    BY <1>1, <1>2

LEMMA PowerStep ==
    ASSUME NEW x \in Nat, NEW n \in Nat
    PROVE  Power(x, 0) = 1 /\ Power(x, n + 1) = x * Power(x, n)
  <1>1. PICK z : Powers(x, 0, z) /\ Power(x, 0) = z[0]
    BY PowerUnfolds
  <1>2. PICK p : Powers(x, n, p) /\ Power(x, n) = p[n]
    BY PowerUnfolds
  <1>3. PICK q : Powers(x, n + 1, q) /\ Power(x, n + 1) = q[n + 1]
    BY PowerUnfolds
  <1>4. p[n] = q[n]
    BY <1>2, <1>3, PowersAgree
  <1>5. n + 1 \in 0..(n + 1) /\ n + 1 # 0 /\ (n + 1) - 1 = n /\ 0 \in 0..0
    OBVIOUS
  <1>6. q[n + 1] = x * q[n] /\ z[0] = 1
    BY <1>1, <1>3, <1>5 DEF Powers
  <1> QED
    BY <1>1, <1>2, <1>3, <1>4, <1>6

LEMMA PowerNatural ==
    ASSUME NEW x \in Nat
    PROVE  \A n \in Nat : Power(x, n) \in Nat /\ (x > 0 => Power(x, n) > 0)
  <1> DEFINE N == {n \in Nat : Power(x, n) \in Nat /\ (x > 0 => Power(x, n) > 0)}
  <1>1. 0 \in N
    BY PowerStep
  <1>2. ASSUME NEW n \in Nat, n \in N PROVE n + 1 \in N
    <2>1. PICK y \in Nat : y = Power(x, n) /\ (x > 0 => y > 0)
      BY <1>2
    <2>2. Power(x, n + 1) = x * y
      BY <2>1, PowerStep
    <2>3. x * y \in Nat /\ (x > 0 => x * y > 0)
      BY <2>1, SMT
    <2> QED
      BY <2>2, <2>3
  <1> HIDE DEF N
  <1>3. Nat \subseteq N
    BY <1>1, <1>2, Induction
  <1> QED
    BY <1>3 DEF N

-----------------------------------------------------------------------------
(* The sum over 0..n is that over 0..n-1 and the value at n.               *)
LEMMA SumNext ==
    ASSUME NEW n \in Nat, NEW f, NEW g, \A i \in 0..n : f[i] \in Int,
           \A i \in 0..(n - 1) : g[i] = f[i]
    PROVE  /\ SumFunctionOnSet(f, 0..n) = f[n] + SumFunctionOnSet(g, 0..(n - 1))
           /\ SumFunctionOnSet(g, 0..(n - 1)) \in Int
  <1>1. IsFiniteSet(0..n) /\ IsFiniteSet(0..(n - 1))
    BY FS_Interval
  <1>2. n \in 0..n /\ (0..n) \ {n} = 0..(n - 1)
    OBVIOUS
  <1>3. SumFunctionOnSet(f, 0..n) = f[n] + SumFunctionOnSet(f, 0..(n - 1))
    BY <1>1, <1>2, SumRemove
  <1>4. \A i \in 0..(n - 1) : f[i] \in Int /\ g[i] \in Int /\ f[i] = g[i]
    OBVIOUS
  <1>5. SumFunctionOnSet(f, 0..(n - 1)) = SumFunctionOnSet(g, 0..(n - 1))
    BY <1>1, <1>4, SumSame
  <1>6. SumFunctionOnSet(g, 0..(n - 1)) \in Int
    BY <1>1, <1>4, SumInteger
  <1> QED
    BY <1>3, <1>5, <1>6

(* The functions that the least-squares line sums, for a line of values    *)
(* that starts at a and climbs by s.                                       *)
Positions(n) == [i \in 0..(n - 1) |-> i]
Squares(n) == [i \in 0..(n - 1) |-> i * i]
Line(a, s, n) == [i \in 0..(n - 1) |-> a + i * s]
Moments(a, s, n) == [i \in 0..(n - 1) |-> i * (a + i * s)]

S1(n) == SumFunctionOnSet(Positions(n), 0..(n - 1))
S2(n) == SumFunctionOnSet(Squares(n), 0..(n - 1))
SP(a, s, n) == SumFunctionOnSet(Line(a, s, n), 0..(n - 1))
StP(a, s, n) == SumFunctionOnSet(Moments(a, s, n), 0..(n - 1))

LEMMA SumsUnfold ==
    ASSUME NEW n \in Nat, NEW a \in Int, NEW s \in Int
    PROVE  /\ S1(0) = 0 /\ S2(0) = 0 /\ SP(a, s, 0) = 0 /\ StP(a, s, 0) = 0
           /\ S1(n) \in Int /\ S2(n) \in Int /\ SP(a, s, n) \in Int /\ StP(a, s, n) \in Int
           /\ S1(n + 1) = n + S1(n)
           /\ S2(n + 1) = n * n + S2(n)
           /\ SP(a, s, n + 1) = (a + n * s) + SP(a, s, n)
           /\ StP(a, s, n + 1) = n * (a + n * s) + StP(a, s, n)
  <1>1. 0..(0 - 1) = {} /\ (n + 1) - 1 = n /\ n \in 0..n
    OBVIOUS
  <1>2. /\ \A i \in 0..n : Positions(n + 1)[i] \in Int
        /\ \A i \in 0..(n - 1) : Positions(n)[i] = Positions(n + 1)[i]
        /\ Positions(n + 1)[n] = n
    BY <1>1 DEF Positions
  <1>3. /\ \A i \in 0..n : Squares(n + 1)[i] \in Int
        /\ \A i \in 0..(n - 1) : Squares(n)[i] = Squares(n + 1)[i]
        /\ Squares(n + 1)[n] = n * n
    BY <1>1 DEF Squares
  <1>4. /\ \A i \in 0..n : Line(a, s, n + 1)[i] \in Int
        /\ \A i \in 0..(n - 1) : Line(a, s, n)[i] = Line(a, s, n + 1)[i]
        /\ Line(a, s, n + 1)[n] = a + n * s
    BY <1>1 DEF Line
  <1>5. /\ \A i \in 0..n : Moments(a, s, n + 1)[i] \in Int
        /\ \A i \in 0..(n - 1) : Moments(a, s, n)[i] = Moments(a, s, n + 1)[i]
        /\ Moments(a, s, n + 1)[n] = n * (a + n * s)
    BY <1>1 DEF Moments
  <1>6. S1(0) = 0 /\ S2(0) = 0 /\ SP(a, s, 0) = 0 /\ StP(a, s, 0) = 0
    BY <1>1, SumOverNothing DEF S1, S2, SP, StP
  <1>7. S1(n) \in Int /\ S1(n + 1) = n + S1(n)
    <2> DEFINE f == Positions(n + 1)
               g == Positions(n)
    <2>1. (\A i \in 0..n : f[i] \in Int) /\ (\A i \in 0..(n - 1) : g[i] = f[i])
      BY <1>2
    <2> HIDE DEF f, g
    <2>2. /\ SumFunctionOnSet(f, 0..n) = f[n] + SumFunctionOnSet(g, 0..(n - 1))
          /\ SumFunctionOnSet(g, 0..(n - 1)) \in Int
      BY <2>1, SumNext
    <2> QED
      BY <1>1, <1>2, <2>2 DEF S1, f, g
  <1>8. S2(n) \in Int /\ S2(n + 1) = n * n + S2(n)
    <2> DEFINE f == Squares(n + 1)
               g == Squares(n)
    <2>1. (\A i \in 0..n : f[i] \in Int) /\ (\A i \in 0..(n - 1) : g[i] = f[i])
      BY <1>3
    <2> HIDE DEF f, g
    <2>2. /\ SumFunctionOnSet(f, 0..n) = f[n] + SumFunctionOnSet(g, 0..(n - 1))
          /\ SumFunctionOnSet(g, 0..(n - 1)) \in Int
      BY <2>1, SumNext
    <2> QED
      BY <1>1, <1>3, <2>2 DEF S2, f, g
  <1>9. SP(a, s, n) \in Int /\ SP(a, s, n + 1) = (a + n * s) + SP(a, s, n)
    <2> DEFINE f == Line(a, s, n + 1)
               g == Line(a, s, n)
    <2>1. (\A i \in 0..n : f[i] \in Int) /\ (\A i \in 0..(n - 1) : g[i] = f[i])
      BY <1>4
    <2> HIDE DEF f, g
    <2>2. /\ SumFunctionOnSet(f, 0..n) = f[n] + SumFunctionOnSet(g, 0..(n - 1))
          /\ SumFunctionOnSet(g, 0..(n - 1)) \in Int
      BY <2>1, SumNext
    <2> QED
      BY <1>1, <1>4, <2>2 DEF SP, f, g
  <1>10. StP(a, s, n) \in Int /\ StP(a, s, n + 1) = n * (a + n * s) + StP(a, s, n)
    <2> DEFINE f == Moments(a, s, n + 1)
               g == Moments(a, s, n)
    <2>1. (\A i \in 0..n : f[i] \in Int) /\ (\A i \in 0..(n - 1) : g[i] = f[i])
      BY <1>5
    <2> HIDE DEF f, g
    <2>2. /\ SumFunctionOnSet(f, 0..n) = f[n] + SumFunctionOnSet(g, 0..(n - 1))
          /\ SumFunctionOnSet(g, 0..(n - 1)) \in Int
      BY <2>1, SumNext
    <2> QED
      BY <1>1, <1>5, <2>2 DEF StP, f, g
  <1> QED
    BY <1>6, <1>7, <1>8, <1>9, <1>10

(* 0 + 1 + ... + (n - 1), and the squares.                                 *)
LEMMA ClosedForms ==
    \A n \in Nat : /\ 2 * S1(n) = n * (n - 1)
                   /\ 6 * S2(n) = n * (n - 1) * (2 * n - 1)
  <1> DEFINE N == {n \in Nat : /\ 2 * S1(n) = n * (n - 1)
                               /\ 6 * S2(n) = n * (n - 1) * (2 * n - 1)}
  <1>1. 0 \in N
    BY SumsUnfold
  <1>2. ASSUME NEW n \in Nat, n \in N PROVE n + 1 \in N
    <2>1. PICK x \in Int, y \in Int : x = S1(n) /\ y = S2(n)
      BY SumsUnfold, 0 \in Int
    <2>2. 2 * x = n * (n - 1) /\ 6 * y = n * (n - 1) * (2 * n - 1)
      BY <1>2, <2>1
    <2>3. S1(n + 1) = n + x /\ S2(n + 1) = n * n + y
      BY <2>1, SumsUnfold
    <2>4. 2 * (n + x) = (n + 1) * ((n + 1) - 1)
      BY <2>2, SMT
    <2>5. 6 * (n * n + y) = (n + 1) * ((n + 1) - 1) * (2 * (n + 1) - 1)
      BY <2>2, SMT
    <2> QED
      BY <2>3, <2>4, <2>5
  <1> HIDE DEF N
  <1>3. Nat \subseteq N
    BY <1>1, <1>2, Induction
  <1> QED
    BY <1>3 DEF N

(* The line through at least two points has a slope: its denominator,      *)
(* (n^2 - 1) n^2 / 12, is positive.                                        *)
LEMMA SpreadPositive ==
    ASSUME NEW n \in Nat, n > 1
    PROVE  n * S2(n) - S1(n) * S1(n) > 0
  <1>1. PICK x \in Int, y \in Int : x = S1(n) /\ y = S2(n)
    BY SumsUnfold, 0 \in Int
  <1>2. 2 * x = n * (n - 1) /\ 6 * y = n * (n - 1) * (2 * n - 1)
    BY <1>1, ClosedForms
  <1> DEFINE m == n * (n - 1)
  <1>3. m \in Nat /\ m > 0
    BY SMT
  <1>4. 4 * (x * x) = m * m
    BY <1>2, SMT
  <1>5. 6 * (n * y) = m * (n * (2 * n - 1))
    BY <1>2, SMT
  <1>6. 12 * (n * y - x * x) = m * (2 * (n * (2 * n - 1)) - 3 * m)
    <2>1. 12 * (n * y) = m * (2 * (n * (2 * n - 1)))
      BY <1>5, SMT
    <2>2. 12 * (x * x) = m * (3 * m)
      BY <1>4, SMT
    <2> QED
      BY <2>1, <2>2, SMT
  <1>7. 2 * (n * (2 * n - 1)) - 3 * m = n * (n + 1)
    BY SMT
  <1>8. n * (n + 1) \in Nat /\ n * (n + 1) > 0
    BY SMT
  <1>9. m * (n * (n + 1)) > 0
    <2> DEFINE k == n * (n + 1)
    <2>1. k \in Nat /\ k > 0
      BY <1>8
    <2> HIDE DEF k, m
    <2>2. m * k > 0
      BY <1>3, <2>1, SMT
    <2> QED
      BY <2>2 DEF k
  <1>10. 12 * (n * y - x * x) > 0 /\ n * y - x * x \in Int
    BY <1>6, <1>7, <1>9
  <1> HIDE DEF m
  <1>11. n * y - x * x > 0
    <2> DEFINE d == n * y - x * x
    <2>1. d \in Int /\ 12 * d > 0
      BY <1>10
    <2> HIDE DEF d
    <2>2. d > 0
      BY <2>1
    <2> QED
      BY <2>2 DEF d
  <1> QED
    BY <1>1, <1>11

(* The sums of values on a line.                                           *)
LEMMA LineSums ==
    ASSUME NEW a \in Int, NEW s \in Int
    PROVE  \A n \in Nat : /\ SP(a, s, n) = n * a + s * S1(n)
                          /\ StP(a, s, n) = a * S1(n) + s * S2(n)
  <1> DEFINE N == {n \in Nat : /\ SP(a, s, n) = n * a + s * S1(n)
                               /\ StP(a, s, n) = a * S1(n) + s * S2(n)}
  <1>1. 0 \in N
    BY SumsUnfold
  <1>2. ASSUME NEW n \in Nat, n \in N PROVE n + 1 \in N
    <2>1. PICK x \in Int, y \in Int : x = S1(n) /\ y = S2(n)
      BY SumsUnfold
    <2>2. SP(a, s, n) = n * a + s * x /\ StP(a, s, n) = a * x + s * y
      BY <1>2, <2>1
    <2>3. /\ S1(n + 1) = n + x /\ S2(n + 1) = n * n + y
          /\ SP(a, s, n + 1) = (a + n * s) + (n * a + s * x)
          /\ StP(a, s, n + 1) = n * (a + n * s) + (a * x + s * y)
      BY <2>1, <2>2, SumsUnfold
    <2>4. (a + n * s) + (n * a + s * x) = (n + 1) * a + s * (n + x)
      BY SMT
    <2>5. n * (a + n * s) + (a * x + s * y) = a * (n + x) + s * (n * n + y)
      BY SMT
    <2> QED
      BY <2>3, <2>4, <2>5
  <1> HIDE DEF N
  <1>3. Nat \subseteq N
    BY <1>1, <1>2, Induction
  <1> QED
    BY <1>3 DEF N

(* The least-squares line through points on a line is that line.           *)
LEMMA LineExtended ==
    ASSUME NEW n \in Nat, NEW a \in Int, NEW s \in Int, NEW x \in Int, NEW y \in Int
    PROVE  LET den == n * y - x * x
               p == n * a + s * x
               q == a * x + s * y
           IN  p * den + (n * q - x * p) * (n * n - x) = (n * den) * (a + n * s)
  <1> DEFINE den == n * y - x * x
             p == n * a + s * x
             q == a * x + s * y
  <1>1. n * q - x * p = s * den
    BY SMT
  <1>2. den \in Int /\ p \in Int /\ q \in Int
    OBVIOUS
  <1>3. p + s * (n * n - x) = n * (a + n * s)
    BY SMT
  <1> HIDE DEF den, p, q
  <1>4. p * den + (s * den) * (n * n - x) = den * (p + s * (n * n - x))
    BY <1>2, SMT
  <1>5. den * (n * (a + n * s)) = (n * den) * (a + n * s)
    BY <1>2, SMT
  <1>6. p * den + (n * q - x * p) * (n * n - x) = (n * den) * (a + n * s)
    BY <1>1, <1>3, <1>4, <1>5
  <1> QED
    BY <1>6 DEF den, p, q

(* A clip commutes with a scale.                                           *)
LEMMA ClipScaled ==
    ASSUME NEW c \in Nat, c > 0, NEW y \in Int, NEW m \in Nat
    PROVE  Between(c * y, 0, c * m) = c * Between(y, 0, m)
  <1>1. c * y \in Int /\ c * m \in Nat
    BY SMT
  <1>2. CASE y <= 0
    <2>1. c * y <= 0
      BY <1>2, SMT
    <2> QED
      BY <1>1, <1>2, <2>1, SMT DEF Between, Larger, Smaller
  <1>3. CASE y > 0 /\ y <= m
    <2>1. c * y > 0 /\ c * y <= c * m
      BY <1>3, ProductGrows, SMT
    <2> QED
      BY <1>1, <1>3, <2>1, SMT DEF Between, Larger, Smaller
  <1>4. CASE y > m
    <2>1. c * m <= c * y
      BY <1>4, ProductGrows
    <2>2. CASE c * y = c * m
      BY <1>1, <1>4, <2>2, SMT DEF Between, Larger, Smaller
    <2>3. CASE c * y > c * m
      BY <1>1, <1>4, <2>3, SMT DEF Between, Larger, Smaller
    <2> QED
      BY <1>1, <2>1, <2>2, <2>3
  <1> QED
    BY <1>2, <1>3, <1>4

-----------------------------------------------------------------------------
(* The weights of the average: one epoch more scales those of the earlier  *)
(* ones by 1 - alpha, and the last has alpha.                              *)
LEMMA WeightStep ==
    ASSUME NEW n \in Nat \ {0}
    PROVE  /\ \A i \in 1..n : /\ Weight(n, i) \in Nat
                              /\ Weight(n + 1, i) = (AlphaDen - Alpha) * Weight(n, i)
           /\ Weight(n + 1, n + 1) = Alpha * Power(AlphaDen, n - 1)
           /\ Power(AlphaDen, n - 1) \in Nat \ {0}
           /\ Power(AlphaDen, n) = AlphaDen * Power(AlphaDen, n - 1)
  <1> DEFINE D == AlphaDen
             C == AlphaDen - Alpha
  <1>1. D \in Nat \ {0} /\ C \in Nat /\ Alpha \in Nat
    BY PredictorsAssumption
  <1> HIDE DEF D, C
  <1>2. n - 1 \in Nat /\ (n - 1) + 1 = n /\ (n + 1) - 1 = n /\ (n + 1) - 2 = n - 1
        /\ (n + 1) - (n + 1) = 0 /\ n + 1 # 1
    OBVIOUS
  <1>3. Power(D, n - 1) \in Nat \ {0} /\ Power(D, n) = D * Power(D, n - 1)
    BY <1>1, <1>2, PowerNatural, PowerStep
  <1>4. Weight(n + 1, n + 1) = Alpha * Power(D, n - 1)
    <2>1. Power(C, 0) = 1
      BY <1>1, PowerStep
    <2>2. Weight(n + 1, n + 1) = Alpha * Power(D, n - 1) * Power(C, 0)
      BY <1>2 DEF Weight, C, D
    <2>3. PICK k \in Nat : k = Power(D, n - 1)
      BY <1>3
    <2>4. Alpha * k * 1 = Alpha * k
      BY <1>1
    <2> QED
      BY <2>1, <2>2, <2>3, <2>4
  <1>5. ASSUME NEW i \in 1..n
        PROVE  Weight(n, i) \in Nat /\ Weight(n + 1, i) = C * Weight(n, i)
    <2>1. CASE i = 1
      <3>1. Weight(n, i) = Power(C, n - 1) /\ Weight(n + 1, i) = Power(C, n)
        BY <1>2, <2>1 DEF Weight, C
      <3> QED
        BY <1>1, <1>2, <3>1, PowerNatural, PowerStep
    <2>2. CASE i # 1
      <3>1. i - 2 \in Nat /\ n - i \in Nat /\ (n + 1) - i = (n - i) + 1
        BY <2>2
      <3>2. PICK k \in Nat, m \in Nat : k = Power(D, i - 2) /\ m = Power(C, n - i)
        BY <1>1, <3>1, PowerNatural
      <3>3. Power(C, (n + 1) - i) = C * m
        BY <1>1, <3>1, <3>2, PowerStep
      <3>4. Weight(n, i) = Alpha * k * m /\ Weight(n + 1, i) = Alpha * k * (C * m)
        BY <2>2, <3>2, <3>3 DEF Weight, C, D
      <3>5. Alpha * k * m \in Nat /\ Alpha * k * (C * m) = C * (Alpha * k * m)
        BY <1>1, SMT
      <3> QED
        BY <3>4, <3>5
    <2> QED
      BY <2>1, <2>2
  <1> QED
    BY <1>3, <1>4, <1>5 DEF C, D

(* What the average is, after any number of epochs.                        *)
AverageRecord == [B : Nat, R : Nat, P : Nat, den : Nat \ {0}]

Averaged ==
    LET n == Len(timeline)
    IN  /\ n = 0 => ewma_feat = NoAverage
        /\ n > 0 => /\ ewma_feat \in AverageRecord
                    /\ ewma_feat.den = Power(AlphaDen, n - 1)
                    /\ ewma_feat.P = SumFunction(WeightedPressures(timeline))
                    /\ ewma_feat.P <= PSteps * ewma_feat.den

(* One observation of the average.                                         *)
LEMMA AverageStep ==
    ASSUME NEW e \in AverageRecord, NEW feat \in Feature, e.P <= PSteps * e.den
    PROVE  /\ average(e, feat) \in AverageRecord
           /\ average(e, feat).den = AlphaDen * e.den
           /\ average(e, feat).P = Alpha * feat.P * e.den + (AlphaDen - Alpha) * e.P
           /\ average(e, feat).P <= PSteps * average(e, feat).den
  <1> DEFINE C == AlphaDen - Alpha
             mix(x, y) == Alpha * x * e.den + C * y
  <1>1. /\ AlphaDen \in Nat \ {0} /\ Alpha \in Nat /\ C \in Nat /\ PSteps \in Nat
        /\ Alpha + C = AlphaDen
    BY PredictorsAssumption
  <1>2. /\ e.B \in Nat /\ e.R \in Nat /\ e.P \in Nat /\ e.den \in Nat \ {0}
        /\ feat.B \in Nat /\ feat.R \in Nat /\ feat.P \in Nat /\ feat.P <= PSteps
    BY <1>1 DEF AverageRecord, Feature
  <1>3. e # NoAverage
    BY <1>2 DEF NoAverage
  <1>4. average(e, feat) = [B |-> mix(feat.B, e.B), R |-> mix(feat.R, e.R),
                            P |-> mix(feat.P, e.P), den |-> AlphaDen * e.den]
    BY <1>3 DEF average
  <1>5. \A x, y \in Nat : mix(x, y) \in Nat
    <2> SUFFICES ASSUME NEW x \in Nat, NEW y \in Nat PROVE mix(x, y) \in Nat
      OBVIOUS
    <2>1. PICK d \in Nat : d = e.den
      BY <1>2
    <2>2. Alpha * x * d + C * y \in Nat
      <3> HIDE DEF C
      <3> QED
        BY <1>1, SMT
    <2> QED
      BY <2>1, <2>2
  <1>6. AlphaDen * e.den \in Nat \ {0}
    <2>1. PICK d \in Nat \ {0}, a \in Nat \ {0} : d = e.den /\ a = AlphaDen
      BY <1>1, <1>2
    <2>2. a * d \in Nat \ {0}
      BY SMT
    <2> QED
      BY <2>1, <2>2
  <1>7. mix(feat.P, e.P) <= PSteps * (AlphaDen * e.den)
    <2>1. PICK d \in Nat, p \in Nat, q \in Nat : d = e.den /\ p = feat.P /\ q = e.P
      BY <1>2
    <2>2. PICK m \in Nat : m = PSteps
      BY <1>1
    <2> HIDE DEF C
    <2>3. p <= m /\ q <= m * d
      BY <1>2, <2>1, <2>2
    <2>4. Alpha * d \in Nat /\ m * d \in Nat
      BY <1>1, SMT
    <2>5. (Alpha * d) * p <= (Alpha * d) * m /\ C * q <= C * (m * d)
      BY <1>1, <2>3, <2>4, ProductGrows
    <2>6. Alpha * p * d = (Alpha * d) * p
      BY <1>1, SMT
    <2>7. (Alpha * d) * m + C * (m * d) = m * ((Alpha + C) * d)
      BY <1>1, SMT
    <2>8. (Alpha * d) * p \in Int /\ (Alpha * d) * m \in Int /\ C * q \in Int /\ C * (m * d) \in Int
      BY <1>1, <2>4
    <2>9. Alpha * p * d + C * q <= (Alpha * d) * m + C * (m * d)
      BY <2>5, <2>6, <2>8
    <2> QED
      BY <1>1, <2>1, <2>2, <2>7, <2>9
  <1>8. mix(feat.B, e.B) \in Nat /\ mix(feat.R, e.R) \in Nat /\ mix(feat.P, e.P) \in Nat
    BY <1>2, <1>5
  <1> HIDE DEF mix
  <1>9. average(e, feat) \in AverageRecord
    BY <1>4, <1>6, <1>8 DEF AverageRecord
  <1>10. average(e, feat).P = mix(feat.P, e.P) /\ average(e, feat).den = AlphaDen * e.den
    BY <1>4
  <1> QED
    BY <1>7, <1>9, <1>10 DEF mix, C

(* An epoch more changes the average as it changes its closed form.        *)
LEMMA WeightedSumStep ==
    ASSUME NEW s \in Seq(Feature), NEW feat \in Feature, NEW n \in Nat, n = Len(s)
    PROVE  /\ n = 0 => SumFunction(WeightedPressures(Append(s, feat))) = feat.P
           /\ n > 0 => SumFunction(WeightedPressures(Append(s, feat)))
                          = Alpha * feat.P * Power(AlphaDen, n - 1)
                            + (AlphaDen - Alpha) * SumFunction(WeightedPressures(s))
  <1> DEFINE z == Append(s, feat)
             f == WeightedPressures(s)
             g == WeightedPressures(z)
             D == AlphaDen
             C == AlphaDen - Alpha
  <1>1. /\ z \in Seq(Feature) /\ Len(z) = n + 1 /\ z[n + 1] = feat
        /\ \A i \in 1..n : z[i] = s[i] /\ s[i] \in Feature
    BY AppendProperties, ElementOfSeq
  <1> HIDE DEF z
  <1>2. /\ f = [i \in 1..n |-> Weight(n, i) * s[i].P]
        /\ g = [i \in 1..(n + 1) |-> Weight(n + 1, i) * z[i].P]
    BY <1>1 DEF WeightedPressures
  <1>3. SumFunction(f) = SumFunctionOnSet(f, 1..n)
        /\ SumFunction(g) = SumFunctionOnSet(g, 1..(n + 1))
    BY <1>2, Zenon DEF SumFunction
  <1> HIDE DEF f, g
  <1>4. D \in Nat \ {0} /\ C \in Nat /\ Alpha \in Nat /\ PSteps \in Nat
    BY PredictorsAssumption
  <1>6. ASSUME NEW i \in 1..n PROVE s[i].P \in Nat
    <2>1. s[i] \in Feature
      BY <1>1
    <2> QED
      BY <1>4, <2>1 DEF Feature
  <1>7. feat.P \in Nat
    BY <1>4 DEF Feature
  <1>8. CASE n = 0
    <2>1. Power(C, 0) = 1
      BY <1>4, PowerStep
    <2>2. Weight(1, 1) = 1
      BY <2>1 DEF Weight, C
    <2>3. 1 \in 1..(n + 1) /\ n + 1 = 1
      BY <1>8
    <2>4. g[1] = feat.P
      BY <1>1, <1>2, <1>7, <2>2, <2>3
    <2>5. 1..(n + 1) = {1} /\ {1} \ {1} = {} /\ 1 \in {1} /\ IsFiniteSet({1})
      <3>1. 1..(n + 1) = {1} /\ {1} \ {1} = {} /\ 1 \in {1}
        BY <1>8
      <3> QED
        BY <3>1, FS_Singleton
    <2>6. \A i \in {1} : g[i] \in Int
      BY <1>7, <2>4
    <2>7. SumFunctionOnSet(g, {1}) = g[1] + SumFunctionOnSet(g, {})
      BY <2>5, <2>6, SumRemove
    <2>8. SumFunctionOnSet(g, {1}) = feat.P
      BY <1>7, <2>4, <2>7, SumOverNothing
    <2> QED
      BY <1>3, <1>8, <2>5, <2>8 DEF g, z
  <1>9. CASE n > 0
    <2>1. /\ \A i \in 1..n : Weight(n, i) \in Nat /\ Weight(n + 1, i) = C * Weight(n, i)
          /\ Weight(n + 1, n + 1) = Alpha * Power(D, n - 1)
          /\ Power(D, n - 1) \in Nat
      <3>1. n \in Nat \ {0}
        BY <1>9
      <3> QED
        BY <3>1, WeightStep DEF C, D
    <2>2. PICK k \in Nat : k = Power(D, n - 1)
      BY <2>1
    <2> HIDE DEF C, D
    <2>3. ASSUME NEW i \in 1..n PROVE f[i] \in Int /\ g[i] \in Int /\ g[i] = C * f[i]
      <3>1. PICK w \in Nat, p \in Nat : w = Weight(n, i) /\ p = s[i].P
        BY <1>6, <2>1
      <3>2. i \in 1..(n + 1) /\ z[i].P = p
        BY <1>1, <3>1
      <3>3. f[i] = w * p
        BY <1>2, <3>1
      <3>4. g[i] = (C * w) * p
        BY <1>2, <2>1, <3>1, <3>2
      <3>5. w * p \in Int /\ (C * w) * p \in Int /\ (C * w) * p = C * (w * p)
        BY <1>4, SMT
      <3> QED
        BY <3>3, <3>4, <3>5
    <2>4. g[n + 1] = (Alpha * k) * feat.P /\ g[n + 1] \in Int
      <3>1. n + 1 \in 1..(n + 1) /\ Weight(n + 1, n + 1) = Alpha * k
        BY <2>1, <2>2
      <3>2. g[n + 1] = (Alpha * k) * feat.P
        BY <1>1, <1>2, <3>1
      <3>3. (Alpha * k) * feat.P \in Int
        BY <1>4, <1>7, SMT
      <3> QED
        BY <3>2, <3>3
    <2>5. IsFiniteSet(1..n) /\ IsFiniteSet(1..(n + 1))
      BY FS_Interval
    <2>6. n + 1 \in 1..(n + 1) /\ (1..(n + 1)) \ {n + 1} = 1..n
      OBVIOUS
    <2>7. \A i \in 1..(n + 1) : i \in 1..n \/ i = n + 1
      OBVIOUS
    <2>8. \A i \in 1..(n + 1) : g[i] \in Int
      BY <2>3, <2>4, <2>7
    <2> DEFINE m == n + 1
               T == 1..(n + 1)
    <2>9. m \in T /\ T \ {m} = 1..n /\ IsFiniteSet(T) /\ \A i \in T : g[i] \in Int
      BY <2>5, <2>6, <2>8
    <2> HIDE DEF m, T
    <2>10. SumFunctionOnSet(g, T) = g[m] + SumFunctionOnSet(g, 1..n)
      BY <2>9, SumRemove
    <2>11. C \in Int /\ \A i \in 1..n : f[i] \in Int /\ g[i] = C * f[i]
      BY <1>4, <2>3
    <2>12. SumFunctionOnSet(g, 1..n) = C * SumFunctionOnSet(f, 1..n)
      BY <2>5, <2>11, SumScaled
    <2>13. (Alpha * k) * feat.P = Alpha * feat.P * k
      BY <1>4, <1>7, SMT
    <2>14. SumFunction(g) = Alpha * feat.P * k + C * SumFunction(f)
      BY <1>3, <2>4, <2>10, <2>12, <2>13 DEF m, T
    <2> QED
      BY <1>9, <2>2, <2>14 DEF f, g, z, C, D
  <1> QED
    BY <1>8, <1>9

LEMMA AverageKept ==
    ASSUME Observed, Averaged, NEW feat \in Feature, Observe(feat)
    PROVE  Averaged'
  <1>1. /\ timeline \in Seq(Feature) /\ timeline' = Append(timeline, feat)
        /\ ewma_feat' = average(ewma_feat, feat)
    BY DEF Observed, Observe
  <1>2. PICK n \in Nat : n = Len(timeline)
    BY <1>1, LenProperties
  <1>3. Len(timeline') = n + 1 /\ n + 1 > 0 /\ n + 1 # 0 /\ (n + 1) - 1 = n
    BY <1>1, <1>2, AppendProperties
  <1>4. /\ n = 0 => SumFunction(WeightedPressures(timeline')) = feat.P
        /\ n > 0 => SumFunction(WeightedPressures(timeline'))
                       = Alpha * feat.P * Power(AlphaDen, n - 1)
                         + (AlphaDen - Alpha) * SumFunction(WeightedPressures(timeline))
    BY <1>1, <1>2, WeightedSumStep
  <1>5. AlphaDen \in Nat \ {0} /\ PSteps \in Nat
    BY PredictorsAssumption
  <1>6. feat.B \in Nat /\ feat.R \in Nat /\ feat.P \in Nat /\ feat.P <= PSteps
    BY <1>5 DEF Feature
  <1>7. CASE n = 0
    <2>1. ewma_feat = NoAverage
      BY <1>2, <1>7 DEF Averaged
    <2>2. ewma_feat' = [B |-> feat.B, R |-> feat.R, P |-> feat.P, den |-> 1]
      BY <1>1, <2>1 DEF average
    <2>3. /\ ewma_feat' \in AverageRecord /\ ewma_feat'.den = 1 /\ ewma_feat'.P = feat.P
      BY <1>6, <2>2 DEF AverageRecord
    <2>4. Power(AlphaDen, n) = 1
      BY <1>5, <1>7, PowerStep
    <2>5. SumFunction(WeightedPressures(timeline')) = feat.P
      BY <1>4, <1>7
    <2> QED
      BY <1>3, <1>5, <1>6, <2>3, <2>4, <2>5 DEF Averaged
  <1>8. CASE n > 0
    <2>1. /\ ewma_feat \in AverageRecord
          /\ ewma_feat.den = Power(AlphaDen, n - 1)
          /\ ewma_feat.P = SumFunction(WeightedPressures(timeline))
          /\ ewma_feat.P <= PSteps * ewma_feat.den
      BY <1>2, <1>8 DEF Averaged
    <2>2. /\ ewma_feat' \in AverageRecord
          /\ ewma_feat'.den = AlphaDen * ewma_feat.den
          /\ ewma_feat'.P = Alpha * feat.P * ewma_feat.den + (AlphaDen - Alpha) * ewma_feat.P
          /\ ewma_feat'.P <= PSteps * ewma_feat'.den
      BY <1>1, <2>1, AverageStep
    <2>3. Power(AlphaDen, n) = AlphaDen * Power(AlphaDen, n - 1)
      BY <1>8, WeightStep
    <2>4. ewma_feat'.P = SumFunction(WeightedPressures(timeline'))
      BY <1>4, <1>8, <2>1, <2>2
    <2> QED
      BY <1>3, <2>1, <2>2, <2>3, <2>4 DEF Averaged
  <1> QED
    BY <1>7, <1>8

(* The risk made of an average is at most 1.                               *)
LEMMA MixBounded ==
    ASSUME NEW e \in AverageRecord, NEW h \in Seq(Feature), h # << >>, e.P <= PSteps * e.den
    PROVE  /\ ewma_risk(h, e).num <= ewma_risk(h, e).den
           /\ ewma_risk(h, e).den > 0
  <1> DEFINE cur == h[Len(h)].B
             td == Larger(e.den, e.B)
             tn == Between(cur * e.den - e.B, -td, td)
             rn == Smaller(e.R, RFull * e.den)
  <1>1. PICK S \in Nat \ {0}, F \in Nat \ {0} : S = PSteps /\ F = RFull
    BY PredictorsAssumption
  <1>2. PICK B \in Nat, R \in Nat, P \in Nat, d \in Nat \ {0} :
            B = e.B /\ R = e.R /\ P = e.P /\ d = e.den
    BY DEF AverageRecord
  <1>3. cur \in Nat
    <2>1. Len(h) \in 1..Len(h)
      BY EmptySeq, LenProperties
    <2>2. h[Len(h)] \in Feature
      BY <2>1, ElementOfSeq
    <2> QED
      BY <2>2 DEF Feature
  <1>4. td \in Nat \ {0}
    BY <1>2 DEF Larger
  <1>5. PICK b \in Int : b = cur * d - B
    <2>1. cur * d \in Int
      BY <1>3, SMT
    <2> QED
      BY <2>1
  <1> HIDE DEF cur, td
  <1>6. tn \in Int /\ tn <= td
    BY <1>2, <1>4, <1>5, SMT DEF Between, Larger, Smaller
  <1>7. rn \in Int /\ rn <= F * d
    <2>1. F * d \in Int
      BY SMT
    <2> QED
      BY <1>1, <1>2, <2>1 DEF Smaller
  <1>8. /\ ewma_risk(h, e).num = 12 * P * F * td + 5 * tn * S * F * d + 3 * rn * S * td
        /\ ewma_risk(h, e).den = 20 * S * F * d * td
    BY <1>1, <1>2 DEF ewma_risk, cur, td
  <1> HIDE DEF tn, rn
  <1>9. P <= S * d /\ S * d \in Nat
    BY <1>1, <1>2, SMT
  <1> DEFINE u == S * F * d * td
  <1>10. 12 * P * F * td <= 12 * u /\ 12 * P * F * td \in Int
    <2>1. 12 * F * td \in Nat
      BY <1>4, SMT
    <2>2. (12 * F * td) * P <= (12 * F * td) * (S * d)
      BY <1>9, <2>1, ProductGrows
    <2>3. (12 * F * td) * P = 12 * P * F * td /\ (12 * F * td) * (S * d) = 12 * u
      BY <1>4, SMT
    <2>4. 12 * P * F * td \in Int
      BY <1>4, SMT
    <2> QED
      BY <2>2, <2>3, <2>4
  <1>11. 5 * tn * S * F * d <= 5 * u /\ 5 * tn * S * F * d \in Int
    <2>1. 5 * S * F * d \in Nat
      BY SMT
    <2>2. (5 * S * F * d) * tn <= (5 * S * F * d) * td
      BY <1>4, <1>6, <2>1, ProductGrows
    <2>3. (5 * S * F * d) * tn = 5 * tn * S * F * d /\ (5 * S * F * d) * td = 5 * u
      BY <1>4, <1>6, SMT
    <2>4. 5 * tn * S * F * d \in Int
      BY <1>6, SMT
    <2> QED
      BY <2>2, <2>3, <2>4
  <1>12. 3 * rn * S * td <= 3 * u /\ 3 * rn * S * td \in Int
    <2>1. 3 * S * td \in Nat /\ F * d \in Int
      BY <1>4, SMT
    <2>2. (3 * S * td) * rn <= (3 * S * td) * (F * d)
      BY <1>7, <2>1, ProductGrows
    <2>3. (3 * S * td) * rn = 3 * rn * S * td /\ (3 * S * td) * (F * d) = 3 * u
      BY <1>4, <1>7, SMT
    <2>4. 3 * rn * S * td \in Int
      BY <1>4, <1>7, SMT
    <2> QED
      BY <2>2, <2>3, <2>4
  <1>13. u \in Nat /\ u > 0 /\ 20 * S * F * d * td = 20 * u
    <2>1. S * F \in Nat /\ S * F > 0
      BY SMT
    <2>2. S * F * d \in Nat /\ S * F * d > 0
      BY <2>1, SMT
    <2>3. u \in Nat /\ u > 0
      BY <1>4, <2>2, SMT
    <2>4. 20 * S * F * d * td = 20 * u
      BY <1>4, SMT
    <2> QED
      BY <2>3, <2>4
  <1> DEFINE x == 12 * P * F * td
             y == 5 * tn * S * F * d
             z == 3 * rn * S * td
  <1>14. /\ x \in Int /\ y \in Int /\ z \in Int /\ u \in Nat /\ u > 0
         /\ x <= 12 * u /\ y <= 5 * u /\ z <= 3 * u
    BY <1>10, <1>11, <1>12, <1>13
  <1>15. ewma_risk(h, e).num = x + y + z /\ ewma_risk(h, e).den = 20 * u
    BY <1>8, <1>13
  <1> HIDE DEF x, y, z, u
  <1>16. x + y + z <= 20 * u /\ 20 * u > 0
    BY <1>14
  <1> QED
    BY <1>15, <1>16

-----------------------------------------------------------------------------
(* The last epochs of a sequence.                                          *)
LEMMA LatestElements ==
    ASSUME NEW s \in Seq(Feature), NEW m \in Nat \ {0}
    PROVE  /\ Latest(s, m) \in Seq(Feature)
           /\ Len(Latest(s, m)) = Smaller(Len(s), m)
           /\ \A j \in 1..Len(Latest(s, m)) :
                 Latest(s, m)[j] = s[Len(s) - Len(Latest(s, m)) + j]
  <1> DEFINE k == Larger(1, Len(s) - m + 1)
  <1>1. PICK n \in Nat : n = Len(s)
    BY LenProperties
  <1>2. Latest(s, m) = SubSeq(s, k, n)
    BY <1>1 DEF Latest
  <1>3. k = IF n <= m THEN 1 ELSE n - m + 1
    BY <1>1 DEF Larger
  <1> HIDE DEF k
  <1>4. k \in Int /\ n \in Int /\ \A i \in k..n : i \in 1..n
    BY <1>3
  <1>5. \A i \in k..n : s[i] \in Feature
    BY <1>1, <1>4, ElementOfSeq
  <1>6. /\ SubSeq(s, k, n) \in Seq(Feature)
        /\ Len(SubSeq(s, k, n)) = IF k <= n THEN n - k + 1 ELSE 0
        /\ \A i \in 1..n - k + 1 : SubSeq(s, k, n)[i] = s[k + i - 1]
    BY <1>4, <1>5, SubSeqProperties
  <1>7. PICK l \in Nat : l = Smaller(n, m)
    BY DEF Smaller
  <1>8. l = IF n <= m THEN n ELSE m
    BY <1>7 DEF Smaller
  <1>9. Len(SubSeq(s, k, n)) = l /\ n - k + 1 = l
    BY <1>3, <1>6, <1>8
  <1>10. ASSUME NEW j \in 1..l PROVE SubSeq(s, k, n)[j] = s[n - l + j]
    <2>1. k + j - 1 = n - l + j /\ j \in 1..n - k + 1
      BY <1>3, <1>8, <1>9
    <2> QED
      BY <1>6, <2>1
  <1> QED
    BY <1>1, <1>2, <1>6, <1>7, <1>9, <1>10

(* What the linear predictor fits is the end of the recorded timeline.     *)
LEMMA RecentOfTimeline ==
    ASSUME Observed, W \in Nat \ {0}, NEW m \in Nat \ {0}, m <= W
    PROVE  Latest(history, m) = Latest(timeline, m)
  <1>1. /\ timeline \in Seq(Feature) /\ history \in Seq(Feature)
    BY DEF Observed
  <1>2. PICK n \in Nat, h \in Nat : n = Len(timeline) /\ h = Len(history)
    BY <1>1, LenProperties
  <1>3. h = IF n <= W THEN n ELSE W
    BY <1>2 DEF Observed, Smaller
  <1>4. \A j \in 1..h : history[j] = timeline[n - h + j]
    BY <1>2 DEF Observed
  <1> DEFINE x == Latest(history, m)
             y == Latest(timeline, m)
  <1>5. PICK k \in Nat : k = IF n <= m THEN n ELSE m
    OBVIOUS
  <1>6. /\ x \in Seq(Feature) /\ Len(x) = k
        /\ \A j \in 1..k : x[j] = history[h - k + j]
    <2>1. Smaller(h, m) = k
      BY <1>3, <1>5 DEF Smaller
    <2>2. /\ x \in Seq(Feature) /\ Len(x) = Smaller(Len(history), m)
          /\ \A j \in 1..Len(x) : x[j] = history[Len(history) - Len(x) + j]
      BY <1>1, LatestElements
    <2> HIDE DEF x
    <2> QED
      BY <1>2, <2>1, <2>2
  <1>7. /\ y \in Seq(Feature) /\ Len(y) = k
        /\ \A j \in 1..k : y[j] = timeline[n - k + j]
    <2>1. Smaller(n, m) = k
      BY <1>5 DEF Smaller
    <2>2. /\ y \in Seq(Feature) /\ Len(y) = Smaller(Len(timeline), m)
          /\ \A j \in 1..Len(y) : y[j] = timeline[Len(timeline) - Len(y) + j]
      BY <1>1, LatestElements
    <2> HIDE DEF y
    <2> QED
      BY <1>2, <2>1, <2>2
  <1> HIDE DEF x, y
  <1>8. ASSUME NEW j \in 1..k PROVE x[j] = y[j]
    <2>1. h - k + j \in 1..h /\ n - h + (h - k + j) = n - k + j
      BY <1>3, <1>5
    <2> QED
      BY <1>4, <1>6, <1>7, <2>1
  <1>9. x = y
    BY <1>6, <1>7, <1>8, SeqEqual
  <1> QED
    BY <1>9 DEF x, y

(* Values that climb by s at every place lie on a line.                    *)
LEMMA OnOneLine ==
    ASSUME NEW n \in Nat \ {0}, NEW v, \A i \in 1..n : v[i] \in Int, NEW s \in Int,
           \A i \in 1..(n - 1) : v[i + 1] - v[i] = s
    PROVE  \A i \in 0..(n - 1) : v[i + 1] = v[1] + i * s
  <1> DEFINE N == {i \in Nat : i <= n - 1 => v[i + 1] = v[1] + i * s}
  <1>1. 1 \in 1..n /\ v[1] \in Int
    OBVIOUS
  <1>2. 0 \in N
    BY <1>1
  <1>3. ASSUME NEW i \in Nat, i \in N PROVE i + 1 \in N
    <2> SUFFICES ASSUME i + 1 <= n - 1 PROVE v[(i + 1) + 1] = v[1] + (i + 1) * s
      OBVIOUS
    <2>1. /\ i + 1 \in 1..(n - 1) /\ i + 1 \in 1..n /\ (i + 1) + 1 \in 1..n
      OBVIOUS
    <2>2. PICK a \in Int, b \in Int, c \in Int :
              a = v[1] /\ b = v[i + 1] /\ c = v[(i + 1) + 1]
      BY <1>1, <2>1
    <2>3. c - b = s /\ b = a + i * s
      BY <1>3, <2>1, <2>2
    <2>4. c = a + (i + 1) * s
      <3>1. i * s \in Int /\ (i + 1) * s = i * s + s
        BY SMT
      <3> QED
        BY <2>3, <3>1
    <2> QED
      BY <2>2, <2>4
  <1> HIDE DEF N
  <1>4. Nat \subseteq N
    BY <1>2, <1>3, Induction
  <1> QED
    BY <1>4 DEF N

(* The fit of at least two pressures, at the place after them: it divides  *)
(* by a positive number, and continues a line that they lie on.            *)
OnLineFrom(P, n, a, s) == \A i \in 0..(n - 1) : P[i + 1] = a + i * s

LEMMA LineSound ==
    ASSUME NEW P, NEW n \in Nat, n > 1, Len(P) = n
    PROVE  \E c \in Nat \ {0} :
              /\ line_at(P, n).den = c * PSteps
              /\ \A a, s \in Int : OnLineFrom(P, n, a, s)
                                      => line_at(P, n).num = c * (a + n * s)
  <1>1. PICK x \in Int, y \in Int : x = S1(n) /\ y = S2(n)
    BY SumsUnfold, 0 \in Int
  <1> DEFINE d == n * y - x * x
             c == n * d
             I == 0..(n - 1)
             v == [i \in I |-> P[i + 1]]
             m == [i \in I |-> i * P[i + 1]]
             p == SumFunctionOnSet(v, I)
             q == SumFunctionOnSet(m, I)
  <1>2. d \in Nat \ {0}
    <2>1. d > 0 /\ d \in Int
      BY <1>1, SpreadPositive
    <2> HIDE DEF d
    <2> QED
      BY <2>1
  <1>3. c \in Nat \ {0}
    <2> HIDE DEF d
    <2>1. n * d \in Nat /\ n * d > 0
      BY <1>2, SMT
    <2> QED
      BY <2>1
  <1>4. SumFunctionOnSet([i \in I |-> i], I) = x /\ SumFunctionOnSet([i \in I |-> i * i], I) = y
    BY <1>1 DEF S1, S2, Positions, Squares
  <1>5. /\ line_at(P, n).num = p * d + (n * q - x * p) * (n * n - x)
        /\ line_at(P, n).den = n * d * PSteps
    BY <1>4 DEF line_at
  <1>6. ASSUME NEW a \in Int, NEW s \in Int, OnLineFrom(P, n, a, s)
        PROVE  line_at(P, n).num = c * (a + n * s)
    <2>1. \A i \in I : P[i + 1] = a + i * s
      BY <1>6 DEF OnLineFrom
    <2>2. v = Line(a, s, n) /\ m = Moments(a, s, n)
      BY <2>1 DEF Line, Moments
    <2>3. p = n * a + s * x /\ q = a * x + s * y
      <3>1. SP(a, s, n) = n * a + s * x /\ StP(a, s, n) = a * x + s * y
        BY <1>1, LineSums
      <3> QED
        BY <2>2, <3>1 DEF SP, StP
    <2> HIDE DEF v, m, p, q
    <2>4. (n * a + s * x) * (n * y - x * x)
             + (n * (a * x + s * y) - x * (n * a + s * x)) * (n * n - x)
                = (n * (n * y - x * x)) * (a + n * s)
      BY LineExtended
    <2> QED
      BY <1>5, <2>3, <2>4
  <1> HIDE DEF d, c
  <1>7. line_at(P, n).den = c * PSteps
    BY <1>5 DEF c
  <1> QED
    BY <1>3, <1>6, <1>7

(* Both estimators are sound.                                              *)
LEMMA ObservedSound ==
    ASSUME Counts, Observed, Averaged
    PROVE  RiskSound
  <1> DEFINE p == cfg.predictor
             m == Smaller(p.W, p.linear_lookback)
             recent == Latest(timeline, m)
             risk == predict(p, history, ewma_feat)
             mixed == ewma_risk(history, ewma_feat)
             OnLine(step) == \A i \in 1..(Len(recent) - 1) :
                                recent[i + 1].P - recent[i].P = step
             last == recent[Len(recent)].P
  <1>1. /\ W \in Nat \ {0} /\ p.W = W /\ p.linear_lookback \in Nat \ {0}
    BY PredictorConfig DEF Counts, ConfigRecord, W
  <1>2. timeline \in Seq(Feature) /\ history \in Seq(Feature)
    BY DEF Observed
  <1>3. PICK n \in Nat : n = Len(timeline)
    BY <1>2, LenProperties
  <1>4. n > 0 => history # << >>
    <2>1. Len(history) = IF n <= W THEN n ELSE W
      BY <1>3 DEF Observed, Smaller
    <2> QED
      BY <1>1, <2>1, EmptySeq
  <1>5. ASSUME n > 0
        PROVE  /\ ewma_feat.den = Power(AlphaDen, n - 1)
               /\ ewma_feat.P = SumFunction(WeightedPressures(timeline))
               /\ mixed.num <= mixed.den /\ mixed.den > 0
    <2>1. /\ ewma_feat \in AverageRecord
          /\ ewma_feat.den = Power(AlphaDen, n - 1)
          /\ ewma_feat.P = SumFunction(WeightedPressures(timeline))
          /\ ewma_feat.P <= PSteps * ewma_feat.den
      BY <1>3, <1>5 DEF Averaged
    <2>2. history # << >>
      BY <1>4, <1>5
    <2> QED
      BY <1>2, <2>1, <2>2, MixBounded
  <1>6. m \in Nat \ {0} /\ m <= W /\ Smaller(p.linear_lookback, p.W) = m
    BY <1>1 DEF Smaller
  <1>7. Latest(history, m) = recent
    BY <1>1, <1>6, RecentOfTimeline
  <1>8. recent \in Seq(Feature) /\ Len(recent) = Smaller(n, m)
    BY <1>2, <1>3, <1>6, LatestElements
  <1>9. PICK k \in Nat : k = Len(recent)
    BY <1>8, LenProperties
  <1> DEFINE P == [i \in 1..k |-> recent[i].P]
  <1>10. PSteps \in Nat \ {0}
    BY PredictorsAssumption
  <1>11. ASSUME NEW i \in 1..k PROVE recent[i].P \in Nat /\ P[i] = recent[i].P
    <2>1. recent[i] \in Feature
      BY <1>8, <1>9, <1>11, ElementOfSeq
    <2> QED
      BY <1>10, <1>11, <2>1 DEF Feature
  <1>12. ASSUME k > 1, p.predictor_type = "linear"
         PROVE  /\ risk.den > 0
                /\ \A step \in -PSteps..PSteps : OnLine(step) =>
                      risk.num * PSteps = risk.den * Between(last + step, 0, PSteps)
    <2>1. history # << >>
      <3>1. k <= n
        BY <1>6, <1>8, <1>9 DEF Smaller
      <3> QED
        BY <1>4, <1>12, <3>1
    <2>2. P \in Seq(Nat) /\ Len(P) = k
      <3>1. P \in [1..k -> Nat]
        BY <1>11
      <3> HIDE DEF P
      <3> QED
        BY <3>1, FunctionIsSequence
    <2>3. DOMAIN recent = 1..k
      BY <1>8, <1>9, LenProperties
    <2>4. linear_risk(p.linear_lookback, p.W, history) = line_at(P, k)
      <3>1. P = [i \in DOMAIN recent |-> recent[i].P]
        BY <2>3
      <3> HIDE DEF P, recent, m
      <3> QED
        BY <1>6, <1>7, <1>12, <2>2, <3>1 DEF linear_risk
    <2>5. risk = Clip01(line_at(P, k))
      BY <1>12, <2>1, <2>4 DEF predict
    <2> HIDE DEF P, risk
    <2>6. PICK c \in Nat \ {0} :
              /\ line_at(P, k).den = c * PSteps
              /\ \A a, s \in Int : OnLineFrom(P, k, a, s)
                                      => line_at(P, k).num = c * (a + k * s)
      BY <1>12, <2>2, LineSound
    <2>7. /\ risk.den = c * PSteps
          /\ risk.num = Between(line_at(P, k).num, 0, c * PSteps)
      <3>1. line_at(P, k) = [num |-> line_at(P, k).num, den |-> line_at(P, k).den]
        BY DEF line_at
      <3> QED
        BY <2>5, <2>6, <3>1 DEF Clip01
    <2>8. c * PSteps > 0
      BY <1>10, SMT
    <2>9. ASSUME NEW step \in -PSteps..PSteps, OnLine(step)
          PROVE  risk.num * PSteps = risk.den * Between(last + step, 0, PSteps)
      <3>1. step \in Int
        BY <1>10
      <3>2. /\ k \in Nat \ {0} /\ \A i \in 1..k : P[i] \in Int
            /\ \A i \in 1..(k - 1) : P[i + 1] - P[i] = step
        <4>1. ASSUME NEW i \in 1..(k - 1) PROVE P[i + 1] - P[i] = step
          <5>1. i \in 1..k /\ i + 1 \in 1..k /\ i \in 1..(Len(recent) - 1)
            BY <1>9
          <5> QED
            BY <1>11, <2>9, <5>1
        <4> QED
          BY <1>11, <1>12, <4>1
      <3>3. PICK a \in Int : a = P[1]
        BY <1>12, <3>2
      <3>4. \A i \in 0..(k - 1) : P[i + 1] = a + i * step
        BY <3>1, <3>2, <3>3, OnOneLine
      <3>5. line_at(P, k).num = c * (a + k * step)
        BY <2>6, <3>1, <3>4 DEF OnLineFrom
      <3>6. last + step = a + k * step
        <4>1. k - 1 \in 0..(k - 1) /\ (k - 1) + 1 = k /\ k \in 1..k
          BY <1>12
        <4>2. last = a + (k - 1) * step
          BY <1>9, <1>11, <3>4, <4>1
        <4>3. (a + (k - 1) * step) + step = a + k * step
          BY <3>1, SMT
        <4> QED
          BY <4>2, <4>3
      <3>7. PICK e \in Int : e = a + k * step
        BY <3>1, SMT
      <3>8. Between(c * e, 0, c * PSteps) = c * Between(e, 0, PSteps)
        BY <1>10, ClipScaled
      <3>9. Between(e, 0, PSteps) \in Int
        BY <1>10 DEF Between, Larger, Smaller
      <3>10. \A b \in Int : (c * b) * PSteps = (c * PSteps) * b
        BY <1>10, SMT
      <3> QED
        BY <2>7, <3>5, <3>6, <3>7, <3>8, <3>9, <3>10
    <2> QED
      BY <2>7, <2>8, <2>9
  <1> HIDE DEF P
  <1> QED
    BY <1>3, <1>5, <1>9, <1>12 DEF RiskSound

(* No other step touches the average.                                      *)
LEMMA AveragedKept ==
    Counts /\ Observed /\ Averaged /\ [Next]_vars => Averaged'
  <1> SUFFICES ASSUME Counts, Observed, Averaged, [Next]_vars PROVE Averaged'
    OBVIOUS
  <1>1. CASE UNCHANGED predictorVars
    BY <1>1 DEF Averaged, predictorVars
  <1>2. CASE \E feat \in cfg.features : Observe(feat)
    <2>1. PICK feat \in cfg.features : Observe(feat)
      BY <1>2
    <2>2. feat \in Feature
      BY PredictorConfig
    <2> QED
      BY <2>1, <2>2, AverageKept
  <1> QED
    BY <1>1, <1>2 DEF Next, ProcessBin, Boundary, NoBoundary, Clip, Done, vars

(* The closed form of the average, its bound, and the exactness of the     *)
(* extrapolation, for every smoothing factor, window, lookback and run.    *)
THEOREM RiskAlwaysSound == Spec => []RiskSound
  <1>1. Init => Averaged
    BY EmptySeq DEF Init, Averaged
  <1>2. Inductive => Counts
    BY DEF Inductive
  <1>3. Counts /\ Observed /\ Averaged => RiskSound
    BY ObservedSound
  <1> QED
    BY <1>1, <1>2, <1>3, AveragedKept, WindowsObserved, InductiveHolds, PTL DEF Spec

=============================================================================
