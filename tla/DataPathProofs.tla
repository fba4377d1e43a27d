--------------------------- MODULE DataPathProofs ---------------------------
(***************************************************************************)
(* Proofs about the shared link and the data path that uses it.            *)
(*                                                                         *)
(* First the link on its own (PCIeLink), for every bandwidth, FIFO, setup  *)
(* and packet size.  Then the data path, which uses it only as PCIeLink    *)
(* describes: it asks for no time twice in the wrong order, whatever the   *)
(* arbiter thins, a handoff withholds or a boundary changes.  So all that  *)
(* is proved of the link holds of the composed system.                     *)
(*                                                                         *)
(* Then the ledger of the data path: by induction over the steps, every    *)
(* packet of an epoch is in one column of its queue, the free descriptors  *)
(* change by what is returned and admitted, and every admission left one   *)
(* sample.  At a boundary the ledger closes, which gives the invariants    *)
(* about the epoch's row.                                                  *)
(*                                                                         *)
(* Then each queue by itself: what the data path does to it is what        *)
(* QueuePipeline says of one queue.  The bounds of QueuePipeline hold      *)
(* since no more packets are ever pending than were pulled (Driven).       *)
(*                                                                         *)
(* Then the rows of the log, from the operators of Telemetry and Metrics   *)
(* upwards: the indices and quantiles mean what they are called, for all   *)
(* bytes and latencies; and by induction over the steps the samples of an  *)
(* epoch are numbers and the log has one sound row per epoch (Reported).   *)
(***************************************************************************)
EXTENDS DataPathQueues, FiniteSums, SequenceTheorems, TLAPS

(* A packet takes some link time.                                          *)
LEMMA LinkTimePositive ==
    ASSUME NEW size \in Sizes
    PROVE  LinkTime(size) \in Nat /\ LinkTime(size) > 0
  <1>1. size \in Nat /\ size > 0 /\ TicksPerByte \in Nat /\ TicksPerByte > 0
    BY PCIeLinkAssumption
  <1> QED
    BY <1>1, SMT DEF LinkTime

(* The FIFO, as link time.                                                 *)
LEMMA FifoType == Fifo \in Nat
  <1>1. FifoBytes \in Nat /\ TicksPerByte \in Nat
    BY PCIeLinkAssumption
  <1> QED
    BY <1>1, SMT DEF Fifo, LinkTime

(* An idle link.                                                           *)
LEMMA InitInductive == Init => Inductive
  BY FifoType, PCIeLinkAssumption
     DEF Init, Inductive, TypeOK, SerialWire, BacklogBounded, pending, NoStats

(* Packets that complete leave a serial wire behind.                       *)
LEMMA OutstandingSerial ==
    ASSUME Inductive, NEW t \in Nat
    PROVE  /\ Outstanding(t) \subseteq [ready : Nat, end : Nat, bytes : Sizes]
           /\ \A p, r \in Outstanding(t) :
                 p # r => p.end <= Start(r) \/ r.end <= Start(p)
           /\ \A p \in Outstanding(t) :
                 p.ready + Setup <= Start(p) /\ p.end <= busy_until
  BY DEF Outstanding, Inductive, TypeOK, SerialWire

(* A refused packet.                                                       *)
LEMMA DropInductive ==
    ASSUME Inductive, NEW t \in Nat, t >= now, NEW domain \in Domains,
           drop(t, domain), now' = t, offered' = offered + 1
    PROVE  Inductive'
  <1>1. /\ stats' = [stats EXCEPT !.dropped_pkts = @ + 1,
                                  !.by_domain[domain] = @ + 1]
        /\ wire' = Outstanding(t) /\ UNCHANGED <<busy_until, work>>
    BY DEF drop
  <1>2. /\ stats.dropped_pkts \in Nat /\ stats.by_domain \in [Domains -> Nat]
        /\ stats \in [accepted_pkts : Nat, accepted : Nat, dropped_pkts : Nat,
                      by_domain : [Domains -> Nat], fifo_peak : Nat]
    BY DEF Inductive, TypeOK
  <1> DEFINE drops == [stats.by_domain EXCEPT ![domain] = @ + 1]
             count == stats.dropped_pkts + 1
  <1>3. drops \in [Domains -> Nat] /\ count \in Nat
    BY <1>2
  <1>4. stats' = [stats EXCEPT !.dropped_pkts = count, !.by_domain = drops]
    BY <1>1, <1>2
  <1> HIDE DEF drops, count
  <1>5. /\ stats' \in [accepted_pkts : Nat, accepted : Nat, dropped_pkts : Nat,
                       by_domain : [Domains -> Nat], fifo_peak : Nat]
        /\ stats'.fifo_peak = stats.fifo_peak
    BY <1>2, <1>3, <1>4
  <1>6. TypeOK'
    BY <1>1, <1>5, OutstandingSerial DEF Inductive, TypeOK
  <1>7. SerialWire'
    BY <1>1, OutstandingSerial DEF SerialWire, Start
  <1>8. BacklogBounded'
    BY <1>1, <1>5, FifoType, PCIeLinkAssumption
       DEF BacklogBounded, pending, Inductive, TypeOK
  <1> QED
    BY <1>1, <1>6, <1>7, <1>8 DEF Inductive

(* An accepted packet starts after all others and after its setup.         *)
LEMMA AcceptInductive ==
    ASSUME Inductive, NEW t \in Nat, t >= now, NEW size \in Sizes,
           ~(pending(t) + LinkTime(size) > Fifo),
           accept(t, size), now' = t, offered' = offered + 1
    PROVE  Inductive'
  <1> DEFINE time == LinkTime(size)
             start == Later(t + Setup, busy_until)
             complete == start + time
             backlog == IF complete <= t THEN 0 ELSE complete - t
             new == [ready |-> t, end |-> complete, bytes |-> size]
  <1>1. /\ busy_until' = complete
        /\ stats' = [stats EXCEPT !.accepted_pkts = @ + 1,
                                  !.accepted = @ + time,
                                  !.fifo_peak = Later(@, backlog)]
        /\ wire' = Outstanding(t) \cup {new}
        /\ work' = work + time
    BY DEF accept
  <1>2. time \in Nat /\ time > 0
    BY LinkTimePositive
  <1>3. Setup \in Nat /\ busy_until \in Nat /\ work \in Nat /\ Fifo \in Nat
    BY PCIeLinkAssumption, FifoType DEF Inductive, TypeOK
  <1>4. pending(t) \in Nat /\ pending(t) + time <= Fifo
    BY <1>2, <1>3 DEF pending
  <1> HIDE DEF time
  <1>5. /\ start \in Nat /\ start >= t + Setup /\ start >= busy_until
        /\ start - t <= pending(t) + Setup
    BY <1>3 DEF Later, pending
  <1> HIDE DEF start
  <1>6. complete \in Nat /\ complete > t /\ complete - t <= Fifo + Setup
    BY <1>2, <1>3, <1>4, <1>5
  <1>7. backlog \in Nat /\ backlog <= Fifo + Setup
    BY <1>6
  <1> HIDE DEF backlog
  <1>8. stats \in [accepted_pkts : Nat, accepted : Nat, dropped_pkts : Nat,
                   by_domain : [Domains -> Nat], fifo_peak : Nat]
    BY DEF Inductive, TypeOK
  <1>9. /\ Later(stats.fifo_peak, backlog) \in Nat
        /\ Later(stats.fifo_peak, backlog) <= Fifo + Setup
        /\ stats.accepted_pkts + 1 \in Nat /\ stats.accepted + time \in Nat
    BY <1>2, <1>3, <1>7, <1>8 DEF Later, Inductive, BacklogBounded
  <1>10. /\ stats' \in [accepted_pkts : Nat, accepted : Nat, dropped_pkts : Nat,
                        by_domain : [Domains -> Nat], fifo_peak : Nat]
         /\ stats'.fifo_peak <= Fifo + Setup
    BY <1>1, <1>8, <1>9
  <1>11. /\ new \in [ready : Nat, end : Nat, bytes : Sizes]
         /\ new.ready = t /\ new.end = complete /\ new.bytes = size
    BY <1>6
  <1> HIDE DEF new
  <1>12. Start(new) = start
    BY <1>2, <1>5, <1>11 DEF Start, time
  <1>13. TypeOK'
    <2>1. wire' \subseteq [ready : Nat, end : Nat, bytes : Sizes]
      BY <1>1, <1>11, OutstandingSerial
    <2>2. busy_until' \in Nat /\ work' \in Nat
      BY <1>1, <1>2, <1>3, <1>6
    <2> QED
      BY <1>10, <2>1, <2>2 DEF Inductive, TypeOK
  <1>14. SerialWire'
    <2>1. \A p \in Outstanding(t) : p.end <= Start(new) /\ p.end <= complete
      <3>1. \A p \in Outstanding(t) : p.end \in Nat /\ p.end <= busy_until
        BY OutstandingSerial
      <3> QED
        BY <1>2, <1>3, <1>5, <1>12, <3>1
    <2>2. new.ready + Setup <= Start(new) /\ new.end <= complete
      BY <1>5, <1>6, <1>11, <1>12
    <2>3. \A p, r \in wire' : p # r => p.end <= Start(r) \/ r.end <= Start(p)
      BY <1>1, <2>1, OutstandingSerial
    <2>4. \A p \in wire' : p.ready + Setup <= Start(p) /\ p.end <= busy_until'
      BY <1>1, <2>1, <2>2, OutstandingSerial
    <2> QED
      BY <2>3, <2>4 DEF SerialWire, Start
  <1>15. BacklogBounded'
    BY <1>1, <1>3, <1>6, <1>10 DEF BacklogBounded, pending
  <1>16. work' <= busy_until'
    BY <1>1, <1>2, <1>3, <1>5 DEF Inductive
  <1> QED
    BY <1>13, <1>14, <1>15, <1>16 DEF Inductive

(* Every call of the link.                                                 *)
LEMMA NextInductive == Inductive /\ [Next]_vars => Inductive'
  <1> SUFFICES ASSUME Inductive, [Next]_vars PROVE Inductive'
    OBVIOUS
  <1>1. CASE Transmit
    <2>1. PICK t \in now..MaxTime, size \in Sizes, domain \in Domains :
             try_transmit(t, size, domain) /\ now' = t
      BY <1>1 DEF Transmit
    <2>2. t \in Nat /\ t >= now /\ offered' = offered + 1
      BY <1>1, PCIeLinkAssumption DEF Transmit, Inductive, TypeOK
    <2>3. CASE pending(t) + LinkTime(size) > Fifo
      BY <2>1, <2>2, <2>3, DropInductive DEF try_transmit
    <2>4. CASE ~(pending(t) + LinkTime(size) > Fifo)
      BY <2>1, <2>2, <2>4, AcceptInductive DEF try_transmit
    <2> QED
      BY <2>3, <2>4
  <1>2. CASE advance_to
    <2>1. PICK t \in (now + 1)..MaxTime :
             /\ busy_until' = Later(busy_until, t)
             /\ wire' = Outstanding(t) /\ now' = t
      BY <1>2 DEF advance_to, advance
    <2>2. /\ t \in Nat /\ t > now /\ now \in Nat /\ busy_until \in Nat
          /\ work \in Nat /\ Fifo \in Nat /\ Setup \in Nat
          /\ UNCHANGED <<stats, work, offered>>
      BY <1>2, FifoType, PCIeLinkAssumption DEF advance_to, advance, Inductive, TypeOK
    <2>3. busy_until' \in Nat /\ busy_until' >= busy_until
      BY <2>1, <2>2 DEF Later
    <2>4. TypeOK'
      BY <2>1, <2>2, <2>3, OutstandingSerial DEF Inductive, TypeOK
    <2>5. SerialWire'
      <3>1. \A p \in Outstanding(t) : p.end \in Nat /\ p.end <= busy_until'
        BY <2>2, <2>3, OutstandingSerial
      <3> QED
        BY <2>1, <2>2, <3>1, OutstandingSerial DEF SerialWire, Start
    <2>6. BacklogBounded'
      BY <2>1, <2>2 DEF BacklogBounded, pending, Later, Inductive
    <2> QED
      BY <2>2, <2>3, <2>4, <2>5, <2>6 DEF Inductive
  <1>3. CASE reset_bin_stats
    <2>1. NoStats \in [accepted_pkts : Nat, accepted : Nat, dropped_pkts : Nat,
                       by_domain : [Domains -> Nat], fifo_peak : Nat]
      BY DEF NoStats
    <2>2. stats' = NoStats /\ UNCHANGED <<busy_until, now, wire, work, offered>>
      BY <1>3 DEF reset_bin_stats
    <2>3. stats'.fifo_peak <= Fifo + Setup
      BY <2>2, FifoType, PCIeLinkAssumption DEF NoStats
    <2> QED
      BY <2>1, <2>2, <2>3
         DEF Inductive, TypeOK, SerialWire, BacklogBounded, pending, Start
  <1>4. CASE UNCHANGED vars
    BY <1>4 DEF vars, Inductive, TypeOK, SerialWire, BacklogBounded, pending, Start
  <1> QED
    BY <1>1, <1>2, <1>3, <1>4 DEF Next

(* The link's invariant, for every sequence of calls.                      *)
THEOREM InductiveHolds == Spec => []Inductive
  BY InitInductive, NextInductive, PTL DEF Spec

-----------------------------------------------------------------------------
(* Packets never overlap on the wire, whichever domains they come from.    *)
THEOREM WireAlwaysSerial == Spec => []SerialWire
  BY InductiveHolds, PTL DEF Inductive

(* The backlog never exceeds the FIFO by more than one setup.              *)
THEOREM BacklogAlwaysBounded == Spec => []BacklogBounded
  BY InductiveHolds, PTL DEF Inductive

(* The link never carries more than its line rate plus one FIFO.           *)
THEOREM RateLimited == Spec => []LineRate
  <1>1. Inductive => LineRate
    BY FifoType, PCIeLinkAssumption
       DEF Inductive, TypeOK, BacklogBounded, pending, LineRate
  <1> QED
    BY <1>1, InductiveHolds, PTL

(* All three together: serial, bounded and at most at line rate.           *)
THEOREM LinkAlwaysSound == Spec => []LinkSound
  BY WireAlwaysSerial, BacklogAlwaysBounded, RateLimited, PTL DEF LinkSound

(* After the clamp, later calls compute what they would without it.        *)
LEMMA ClampHarmless ==
    ASSUME Inductive, advance_to, NEW t \in now'..(MaxTime + 1)
    PROVE  /\ pending(t)' = pending(t)
           /\ Later(t + Setup, busy_until') = Later(t + Setup, busy_until)
  <1>1. PICK u \in (now + 1)..MaxTime : busy_until' = Later(busy_until, u) /\ now' = u
    BY DEF advance_to, advance
  <1>2. /\ now \in Nat /\ busy_until \in Nat /\ Setup \in Nat /\ MaxTime \in Nat
        /\ u \in Nat /\ t \in Nat /\ t >= u
    BY <1>1, PCIeLinkAssumption DEF Inductive, TypeOK
  <1> QED
    BY <1>1, <1>2 DEF pending, Later

(* The clamp at the end of a bin changes nothing any later call sees.      *)
THEOREM AdvanceHarmless == Spec => AdvanceInvisible
  <1>1. Inductive /\ [Next]_vars =>
          [advance_to => \A t \in now'..(MaxTime + 1) :
             /\ pending(t)' = pending(t)
             /\ Later(t + Setup, busy_until') = Later(t + Setup, busy_until)]_vars
    BY ClampHarmless
  <1> QED
    BY <1>1, InductiveHolds, PTL DEF Spec, AdvanceInvisible

-----------------------------------------------------------------------------
(* Packets of the bin that are still to come lie in it, none before the    *)
(* last call of the link; the link has not been asked beyond the bin, nor  *)
(* after its end; and bins are aligned.                                    *)
Calls ==
    /\ now \in Nat
    /\ \E k \in Nat : t_start = k * BinNs
    /\ now <= t_start \/ (phase = "packets" /\ now < t_end)
    /\ phase = "packets" => t_start < EndOfRun
    /\ \A p \in todo : /\ p.domain \in Domains /\ p.size \in Sizes
                       /\ p.t \in Nat /\ now <= p.t /\ p.t < t_end

(* The end of a bin that starts in the run is in the run.                  *)
LEMMA BinsEndInRun ==
    ASSUME NEW k \in Nat, NEW m \in Nat, NEW n \in Nat \ {0}, k * n < n * m
    PROVE  k * n + n <= n * m /\ (k + 1) * n = k * n + n
  <1>1. k + 1 <= m
    <2>1. SUFFICES ASSUME m <= k PROVE FALSE
      OBVIOUS
    <2>2. PICK j \in Nat : k = m + j
      <3>1. k - m \in Nat /\ k = m + (k - m)
        BY <2>1
      <3> QED
        BY <3>1
    <2>3. k * n = m * n + j * n /\ m * n = n * m /\ j * n >= 0
      BY <2>2
    <2> QED
      BY <2>3
  <1>2. PICK j \in Nat : m = k + 1 + j
    <2>1. m - (k + 1) \in Nat /\ m = k + 1 + (m - (k + 1))
      BY <1>1
    <2> QED
      BY <2>1
  <1>3. n * m = k * n + n + n * j /\ n * j >= 0
    BY <1>2
  <1> QED
    BY <1>3

(* The end of a bin that has been pulled lies in the run.                  *)
LEMMA EndOfBin ==
    ASSUME Calls, phase = "packets"
    PROVE  /\ t_start \in Nat /\ t_end \in Nat /\ t_end <= MaxTime
           /\ \E k \in Nat : t_end = k * BinNs
  <1> DEFINE m == Later(EpochBins["stateless"] * NumEpochs["stateless"],
                        EpochBins["stateful"] * NumEpochs["stateful"])
  <1>1. m \in Nat
    <2> DEFINE a == EpochBins["stateless"] * NumEpochs["stateless"]
               b == EpochBins["stateful"] * NumEpochs["stateful"]
    <2>1. a \in Nat /\ b \in Nat
      <3>1. /\ EpochBins["stateless"] \in Nat /\ NumEpochs["stateless"] \in Nat
            /\ EpochBins["stateful"] \in Nat /\ NumEpochs["stateful"] \in Nat
        BY DataPathAssumption DEF Egress
      <3> QED
        BY <3>1
    <2>2. m = Later(a, b)
      OBVIOUS
    <2> HIDE DEF a, b, m
    <2> QED
      BY <2>1, <2>2 DEF Later
  <1>2. BinNs \in Nat \ {0} /\ EndOfRun = BinNs * m
    BY DataPathAssumption DEF EndOfRun
  <1> HIDE DEF m
  <1>3. PICK k \in Nat : t_start = k * BinNs
    BY DEF Calls
  <1>4. k * BinNs < BinNs * m
    BY <1>2, <1>3 DEF Calls
  <1>5. k * BinNs + BinNs <= BinNs * m /\ (k + 1) * BinNs = k * BinNs + BinNs
    BY <1>1, <1>2, <1>4, BinsEndInRun
  <1>6. MaxTime \in Nat /\ MaxTime >= EndOfRun
    BY PCIeLinkAssumption, DataPathAssumption
  <1>7. k * BinNs \in Nat /\ BinNs * m \in Nat
    BY <1>1, <1>2
  <1>8. t_end = (k + 1) * BinNs
    BY <1>3, <1>5 DEF t_end
  <1>9. t_end <= MaxTime
    BY <1>2, <1>5, <1>6, <1>7, <1>8
  <1> QED
    BY <1>2, <1>3, <1>7, <1>8, <1>9

(* At the start no call has been made.                                     *)
LEMMA InitCalls == InitPath => Init /\ Calls
  <1> SUFFICES ASSUME InitPath PROVE Init /\ Calls
    OBVIOUS
  <1>1. Init /\ now = 0 /\ t_start = 0 /\ phase = "pull" /\ todo = {}
    BY DEF InitPath, Init
  <1>2. BinNs \in Nat /\ 0 * BinNs = 0
    BY DataPathAssumption
  <1> QED
    BY <1>1, <1>2, SMT DEF Calls

(* What a domain brings are packets of its buckets.                        *)
LEMMA BatchPackets ==
    ASSUME NEW d \in Domains, NEW batch \in Streams(d)
    PROVE  /\ DOMAIN batch = 1..Len(batch) /\ Len(batch) \in Nat
           /\ \A i \in DOMAIN batch :
                 /\ batch[i].bucket \in Buckets[d] /\ batch[i].size \in Sizes
                 /\ batch[i].at \in 0..(BinNs - 1)
  <1> DEFINE T == [at : 0..(BinNs - 1), size : Sizes, bucket : Buckets[d]]
  <1>1. batch \in Seq(T)
    <2>1. CASE batch \in Batches[d]
      <3>1. Batches[d] \subseteq Seq(T)
        BY DataPathAssumption
      <3> QED
        BY <2>1, <3>1
    <2>2. CASE batch = << >>
      <3> HIDE DEF T
      <3> QED
        BY <2>2, EmptySeq
    <2> QED
      BY <2>1, <2>2 DEF Streams
  <1>2. DOMAIN batch = 1..Len(batch) /\ Len(batch) \in Nat
        /\ \A i \in DOMAIN batch : batch[i] \in T
    <2> HIDE DEF T
    <2> QED
      BY <1>1, LenProperties
  <1> QED
    BY <1>2

(* What a domain brings lies in the bin.                                   *)
LEMMA EntriesInBin ==
    ASSUME Calls, t_start \in Nat, now <= t_start,
           NEW d \in Domains, NEW batch \in Streams(d),
           NEW offset, NEW i \in DOMAIN batch
    PROVE  LET p == Entry(d, batch, offset, i)
           IN  /\ p.domain = d /\ p.size \in Sizes
               /\ p.t \in Nat /\ t_start <= p.t /\ p.t < t_end
  <1>1. batch[i].at \in 0..(BinNs - 1) /\ batch[i].size \in Sizes /\ BinNs \in Nat
    BY BatchPackets, DataPathAssumption
  <1> QED
    BY <1>1 DEF Entry, t_end

(* The arbiter keeps packets of the batch.                                 *)
LEMMA KeptOfBatch ==
    ASSUME NEW sh, NEW d, NEW batch, NEW bytes, NEW S \in KeptOf(sh, d, batch, bytes)
    PROVE  S \subseteq DOMAIN batch
  BY DEF KeptOf

(* A bin is pulled: the link at most forgets its statistics.               *)
LEMMA PullCalls ==
    ASSUME Calls, Pull
    PROVE  [Next]_vars /\ Calls'
  <1>1. /\ phase = "pull" /\ t_start < EndOfRun
        /\ IF use_pcie_link THEN reset_bin_stats ELSE UNCHANGED vars
        /\ phase' = "packets" /\ t_start' = t_start
    BY DEF Pull
  <1>2. now' = now /\ [Next]_vars
    BY <1>1 DEF reset_bin_stats, Next, vars
  <1>3. t_start \in Nat /\ BinNs \in Nat \ {0} /\ now <= t_start /\ now \in Nat
    BY <1>1, DataPathAssumption DEF Calls
  <1>4. PICK sl \in Streams("stateless"), sf \in Streams("stateful") :
          \E bytes, sh :
          \E k_sl \in KeptOf(sh, "stateless", sl, bytes),
             k_sf \in KeptOf(sh, "stateful", sf, bytes) :
             Distribute(Pair(sl, sf), Pair(k_sl, k_sf))
    BY Zenon DEF Pull
  <1>5. PICK k_sl, k_sf :
          /\ k_sl \subseteq DOMAIN sl /\ k_sf \subseteq DOMAIN sf
          /\ Distribute(Pair(sl, sf), Pair(k_sl, k_sf))
    BY <1>4, KeptOfBatch, Zenon
  <1>6. \A p \in todo' : /\ p.domain \in Domains /\ p.size \in Sizes
                         /\ p.t \in Nat /\ t_start <= p.t /\ p.t < t_end
    <2>1. "stateless" \in Domains /\ "stateful" \in Domains
      BY DataPathAssumption DEF Egress
    <2>2. PICK passed :
            /\ passed["stateless"] \subseteq k_sl /\ passed["stateful"] \subseteq k_sf
            /\ todo' = Merged(Pair(sl, sf), passed)
      <3> DEFINE kept == Pair(k_sl, k_sf)
                 held == [d \in Domains |-> Withheld(d, Pair(sl, sf)[d], kept[d])]
                 rest == [d \in Domains |-> kept[d] \ held[d]]
      <3>1. todo' = Merged(Pair(sl, sf), rest)
        BY <1>5, Zenon DEF Distribute
      <3>2. rest["stateless"] \subseteq k_sl /\ rest["stateful"] \subseteq k_sf
        BY <2>1 DEF Pair
      <3> QED
        BY <3>1, <3>2
    <2>3. todo' = {Entry("stateless", sl, 0, i) : i \in passed["stateless"]} \cup
                  {Entry("stateful", sf, Len(sl), i) : i \in passed["stateful"]}
      BY <2>2 DEF Merged, Pair
    <2> SUFFICES ASSUME NEW p \in todo'
                 PROVE  /\ p.domain \in Domains /\ p.size \in Sizes
                        /\ p.t \in Nat /\ t_start <= p.t /\ p.t < t_end
      OBVIOUS
    <2>4. CASE \E i \in k_sl : p = Entry("stateless", sl, 0, i)
      BY <1>3, <1>5, <2>1, <2>4, EntriesInBin
    <2>5. CASE \E i \in k_sf : p = Entry("stateful", sf, Len(sl), i)
      BY <1>3, <1>5, <2>1, <2>5, EntriesInBin
    <2> QED
      BY <2>2, <2>3, <2>4, <2>5
  <1>7. Calls'
    BY <1>1, <1>2, <1>3, <1>6 DEF Calls, t_end, EndOfRun
  <1> QED
    BY <1>2, <1>7

(* A packet asks the link at its own time, or not at all.                  *)
LEMMA PacketCalls ==
    ASSUME Calls, Packet
    PROVE  [Next]_vars /\ Calls'
  <1>1. PICK p \in todo :
          /\ Earliest(p) /\ todo' = todo \ {p}
          /\ CreditDrop(p) \/ LinkDrop(p) \/ AdmitOverLink(p) \/ AdmitWithoutLink(p)
    BY DEF Packet
  <1>2. /\ phase = "packets" /\ phase' = phase /\ t_start' = t_start
        /\ t_end' = t_end
    BY DEF Packet, t_end
  <1>3. /\ t_end <= MaxTime /\ t_end \in Nat /\ t_start \in Nat
        /\ MaxTime \in Nat
    BY <1>2, EndOfBin, PCIeLinkAssumption
  <1>4. /\ p.domain \in Domains /\ p.size \in Sizes /\ p.t \in Nat
        /\ now <= p.t /\ p.t < t_end /\ now \in Nat
    BY <1>1 DEF Calls
  <1>5. now' \in {now, p.t} /\ [Next]_vars
    <2>1. CASE CreditDrop(p) \/ AdmitWithoutLink(p)
      BY <2>1 DEF CreditDrop, AdmitWithoutLink, vars
    <2>2. CASE LinkDrop(p) \/ AdmitOverLink(p)
      <3>1. /\ try_transmit(p.t, p.size, p.domain) /\ offered < MaxPkts
            /\ now' = p.t /\ offered' = offered + 1
        BY <2>2 DEF LinkDrop, AdmitOverLink
      <3>2. p.t \in now..MaxTime
        BY <1>3, <1>4
      <3>3. Transmit
        BY <1>4, <3>1, <3>2 DEF Transmit
      <3> QED
        BY <3>1, <3>3 DEF Next
    <2> QED
      BY <1>1, <2>1, <2>2
  <1>6. \A r \in todo : p.t <= r.t
    BY <1>1, <1>4 DEF Earliest, Before, Calls
  <1>7. /\ now' \in Nat /\ now' < t_end
        /\ \A r \in todo' : now' <= r.t
    BY <1>1, <1>3, <1>4, <1>5, <1>6 DEF Calls
  <1>8. Calls'
    BY <1>1, <1>2, <1>7, SMT DEF Calls, EndOfRun
  <1> QED
    BY <1>5, <1>8

(* The end of a bin moves the link to it.                                  *)
LEMMA EndBinCalls ==
    ASSUME Calls, EndBin
    PROVE  [Next]_vars /\ Calls'
  <1>1. /\ phase = "packets" /\ todo = {} /\ todo' = {}
        /\ phase' = "stateless" /\ t_start' = t_end
        /\ IF use_pcie_link THEN advance(t_end) ELSE UNCHANGED vars
    BY DEF EndBin
  <1>2. /\ t_end <= MaxTime /\ t_end \in Nat /\ t_start \in Nat /\ MaxTime \in Nat
        /\ \E k \in Nat : t_end = k * BinNs
    BY <1>1, EndOfBin, PCIeLinkAssumption
  <1>3. now \in Nat /\ now < t_end
    BY <1>1, <1>2, DataPathAssumption DEF Calls, t_end
  <1>4. now' \in {now, t_end} /\ [Next]_vars
    <2>1. CASE advance(t_end)
      <3>1. t_end \in (now + 1)..MaxTime
        BY <1>2, <1>3
      <3> QED
        BY <2>1, <3>1 DEF advance_to, advance, Next
    <2>2. CASE UNCHANGED vars
      BY <2>2 DEF vars
    <2> QED
      BY <1>1, <2>1, <2>2
  <1>5. now' \in Nat /\ now' <= t_start' /\ \E k \in Nat : t_start' = k * BinNs
    BY <1>1, <1>2, <1>3, <1>4
  <1> QED
    BY <1>1, <1>4, <1>5 DEF Calls

(* The boundaries and the releases do not ask the link.                    *)
LEMMA BoundaryCalls ==
    ASSUME Calls,
           \/ _on_stateless_epoch_boundary \/ NoStatelessBoundary
           \/ _on_stateful_epoch_boundary \/ Release \/ CloseStateful
           \/ NoStatefulBoundary \/ Done \/ UNCHANGED allVars
    PROVE  [Next]_vars /\ Calls'
  <1>1. /\ UNCHANGED vars /\ UNCHANGED <<todo, t_start>>
        /\ \/ phase # "packets" /\ phase' # "packets"
           \/ phase' = phase
    BY DEF _on_stateless_epoch_boundary, NoStatelessBoundary, _on_stateful_epoch_boundary,
           Release, CloseStateful, NoStatefulBoundary, Done, allVars, pathVars
  <1> QED
    BY <1>1 DEF vars, Calls, t_end, EndOfRun

(* Every step of the data path is a call of the link in order, or none.    *)
LEMMA StepCalls == Calls /\ [NextPath]_allVars => [Next]_vars /\ Calls'
  BY PullCalls, PacketCalls, EndBinCalls, BoundaryCalls DEF NextPath

-----------------------------------------------------------------------------
(* The composed system implements the link on its own: arbiter, handoffs,  *)
(* queues and boundaries never call it with a time that goes back or after *)
(* the end of the bin it has been moved to.                                *)
THEOREM LinkUsedInOrder == SpecPath => Spec
  BY InitCalls, StepCalls, PTL DEF SpecPath, Spec

(* In the composed system the wire is serial, the backlog bounded and the  *)
(* line rate kept, for every batch, table, handoff and arbiter.            *)
THEOREM PathLinkSound == SpecPath => []LinkSound
  BY LinkUsedInOrder, LinkAlwaysSound, PTL

(* Nor does moving the link to the end of a bin, before the boundaries and *)
(* releases, change what any packet of a later bin meets.                  *)
THEOREM PathAdvanceHarmless == SpecPath => AdvanceInvisible
  BY LinkUsedInOrder, AdvanceHarmless, PTL

-----------------------------------------------------------------------------
(* What is counted are packets and bytes; what is said of both is said of  *)
(* every field.                                                            *)
Amount == [pkts : Nat, bytes : Nat]

Fields == {"pkts", "bytes"}

(* Both fields are naturals.                                               *)
LEMMA AmountFields ==
    ASSUME NEW x \in Amount, NEW y \in Fields
    PROVE  x[y] \in Nat
  BY DEF Amount, Fields

(* Nothing counted.                                                        *)
LEMMA NothingFields == Nothing \in Amount /\ \A y \in Fields : Nothing[y] = 0
  BY DEF Nothing, Amount, Fields

(* One more count.                                                         *)
LEMMA MoreFields ==
    ASSUME NEW x \in Amount, NEW p \in Nat, NEW b \in Nat
    PROVE  /\ More(x, p, b) \in Amount
           /\ More(x, p, b).pkts = x.pkts + p /\ More(x, p, b).bytes = x.bytes + b
           /\ More(x, p, b)["pkts"] = x["pkts"] + p
           /\ More(x, p, b)["bytes"] = x["bytes"] + b
  BY DEF More, Amount

(* A field of a total is the sum of that field.                            *)
LEMMA TotalField ==
    ASSUME NEW S, NEW f, NEW y \in Fields
    PROVE  Total(f, S)[y] = SumFunctionOnSet([s \in S |-> f[s][y]], S)
  BY DEF Total, Sum, Fields

(* The total of amounts, as the sums of its fields.                        *)
LEMMA TotalType ==
    ASSUME NEW S, IsFiniteSet(S), NEW f, \A s \in S : f[s] \in Amount
    PROVE  Total(f, S) \in Amount
  <1> DEFINE F(y) == [s \in S |-> f[s][y]]
  <1>1. ASSUME NEW y \in Fields PROVE SumFunctionOnSet(F(y), S) \in Nat
    <2>1. \A s \in S : F(y)[s] \in Nat
      BY AmountFields
    <2> HIDE DEF F
    <2> QED
      BY <2>1, SumNatural
  <1>2. Total(f, S) = [pkts |-> Total(f, S).pkts, bytes |-> Total(f, S).bytes]
    BY DEF Total
  <1>3. Total(f, S)["pkts"] \in Nat /\ Total(f, S)["bytes"] \in Nat
    BY <1>1, TotalField DEF Fields
  <1> QED
    BY <1>2, <1>3 DEF Amount

(* Totals of equal amounts are equal.                                      *)
LEMMA TotalSame ==
    ASSUME NEW S, NEW f, NEW g, \A s \in S : g[s] = f[s]
    PROVE  Total(g, S) = Total(f, S)
  <1>1. [s \in S |-> f[s].pkts] = [s \in S |-> g[s].pkts]
    OBVIOUS
  <1>2. [s \in S |-> f[s].bytes] = [s \in S |-> g[s].bytes]
    OBVIOUS
  <1> QED
    BY <1>1, <1>2 DEF Total

(* The total of nothing.                                                   *)
LEMMA TotalZero ==
    ASSUME NEW S, IsFiniteSet(S), NEW f, \A s \in S : f[s] = Nothing,
           NEW y \in Fields
    PROVE  Total(f, S)[y] = 0
  <1> DEFINE F == [s \in S |-> f[s][y]]
  <1>1. \A s \in S : F[s] = 0
    BY NothingFields
  <1> HIDE DEF F
  <1>2. SumFunctionOnSet(F, S) = 0
    BY <1>1, SumZero
  <1> QED
    BY <1>2, TotalField DEF F

(* One amount changes, and the total by as much.                           *)
LEMMA TotalChanged ==
    ASSUME NEW S, IsFiniteSet(S), NEW f, NEW g, NEW i \in S,
           \A s \in S : f[s] \in Amount /\ g[s] \in Amount,
           \A s \in S \ {i} : g[s] = f[s],
           NEW y \in Fields
    PROVE  Total(g, S)[y] = Total(f, S)[y] + g[i][y] - f[i][y]
  <1> DEFINE F == [s \in S |-> f[s][y]]
             G == [s \in S |-> g[s][y]]
  <1>1. \A s \in S : F[s] \in Int /\ G[s] \in Int
    BY AmountFields
  <1>2. \A s \in S \ {i} : G[s] = F[s]
    OBVIOUS
  <1>3. F[i] = f[i][y] /\ G[i] = g[i][y]
    OBVIOUS
  <1> HIDE DEF F, G
  <1>4. SumFunctionOnSet(G, S) = SumFunctionOnSet(F, S) + G[i] - F[i]
    BY <1>1, <1>2, SumChanged
  <1>5. Total(g, S)[y] = SumFunctionOnSet(G, S) /\ Total(f, S)[y] = SumFunctionOnSet(F, S)
    BY TotalField DEF F, G
  <1> QED
    BY <1>3, <1>4, <1>5

(* The total of amounts that add up.                                       *)
LEMMA TotalPlus ==
    ASSUME NEW S, IsFiniteSet(S), NEW f, NEW g, NEW h, NEW y \in Fields,
           \A s \in S : f[s] \in Amount /\ g[s] \in Amount,
           \A s \in S : h[s][y] = f[s][y] + g[s][y]
    PROVE  Total(h, S)[y] = Total(f, S)[y] + Total(g, S)[y]
  <1> DEFINE F == [s \in S |-> f[s][y]]
             G == [s \in S |-> g[s][y]]
             H == [s \in S |-> h[s][y]]
  <1>1. \A s \in S : F[s] \in Int /\ G[s] \in Int /\ H[s] = F[s] + G[s]
    BY AmountFields
  <1> HIDE DEF F, G, H
  <1>2. SumFunctionOnSet(H, S) = SumFunctionOnSet(F, S) + SumFunctionOnSet(G, S)
    BY <1>1, SumPlus
  <1>3. /\ Total(g, S)[y] = SumFunctionOnSet(G, S)
        /\ Total(f, S)[y] = SumFunctionOnSet(F, S)
        /\ Total(h, S)[y] = SumFunctionOnSet(H, S)
    BY TotalField DEF F, G, H
  <1> QED
    BY <1>2, <1>3

-----------------------------------------------------------------------------
(* The packets of a batch: of disjoint sets, of a set and one more.        *)
Sized(batch, S) == IsFiniteSet(S) /\ \A i \in S : batch[i].size \in Nat

(* The packets of a set, and their bytes.                                  *)
LEMMA CountedFields ==
    ASSUME NEW batch, NEW S
    PROVE  /\ Counted(batch, S)["pkts"] = Cardinality(S)
           /\ Counted(batch, S)["bytes"] =
                SumFunctionOnSet([i \in S |-> batch[i].size], S)
  BY DEF Counted, Sum

(* They are an amount.                                                     *)
LEMMA CountedType ==
    ASSUME NEW batch, NEW S, Sized(batch, S)
    PROVE  Counted(batch, S) \in Amount
  <1> DEFINE F == [i \in S |-> batch[i].size]
  <1>1. \A i \in S : F[i] \in Nat
    BY DEF Sized
  <1> HIDE DEF F
  <1>2. SumFunctionOnSet(F, S) \in Nat /\ Cardinality(S) \in Nat
    BY <1>1, SumNatural, FS_CardinalityType DEF Sized
  <1> QED
    BY <1>2 DEF Counted, Amount, Sum, F

(* Packets of two disjoint sets.                                           *)
LEMMA CountedUnion ==
    ASSUME NEW batch, NEW S, NEW T, Sized(batch, S), Sized(batch, T),
           S \cap T = {}, NEW y \in Fields
    PROVE  Counted(batch, S \cup T)[y] = Counted(batch, S)[y] + Counted(batch, T)[y]
  <1> DEFINE U == S \cup T
             F == [i \in S |-> batch[i].size]
             G == [i \in T |-> batch[i].size]
             H == [i \in U |-> batch[i].size]
  <1>1. CASE y = "pkts"
    <2>1. Cardinality(U) = Cardinality(S) + Cardinality(T)
      <3>1. Cardinality(U) = Cardinality(S) + Cardinality(T) - Cardinality(S \cap T)
        BY FS_Union DEF Sized
      <3>2. Cardinality(S \cap T) = 0
        BY FS_EmptySet
      <3>3. Cardinality(S) \in Nat /\ Cardinality(T) \in Nat
        BY FS_CardinalityType DEF Sized
      <3> QED
        BY <3>1, <3>2, <3>3
    <2> QED
      BY <1>1, <2>1, CountedFields
  <1>2. CASE y = "bytes"
    <2>1. IsFiniteSet(S) /\ IsFiniteSet(T)
      BY DEF Sized
    <2>2. \A i \in S \cup T : H[i] \in Int
      BY DEF Sized
    <2>3. \A i \in S : H[i] \in Int /\ F[i] = H[i]
      BY DEF Sized
    <2>4. \A i \in T : H[i] \in Int /\ G[i] = H[i]
      BY DEF Sized
    <2>5. /\ Counted(batch, U)["bytes"] = SumFunctionOnSet(H, U)
          /\ Counted(batch, S)["bytes"] = SumFunctionOnSet(F, S)
          /\ Counted(batch, T)["bytes"] = SumFunctionOnSet(G, T)
      BY CountedFields
    <2> HIDE DEF F, G, H
    <2>6. SumFunctionOnSet(F, S) = SumFunctionOnSet(H, S)
      BY <2>1, <2>3, SumSame
    <2>7. SumFunctionOnSet(G, T) = SumFunctionOnSet(H, T)
      BY <2>1, <2>4, SumSame
    <2>8. SumFunctionOnSet(H, S \cup T) = SumFunctionOnSet(H, S) + SumFunctionOnSet(H, T)
      BY <2>1, <2>2, SumUnion
    <2> QED
      BY <1>2, <2>5, <2>6, <2>7, <2>8
  <1> QED
    BY <1>1, <1>2 DEF Fields

-----------------------------------------------------------------------------
(* One packet.                                                             *)
Unit(size) == [pkts |-> 1, bytes |-> size]

(* All packets are one of them and the others.                             *)
LEMMA CountedRemoved ==
    ASSUME NEW batch, NEW S, Sized(batch, S), NEW i \in S, NEW y \in Fields
    PROVE  Counted(batch, S)[y] = Counted(batch, S \ {i})[y] + Unit(batch[i].size)[y]
  <1> DEFINE F == [j \in S |-> batch[j].size]
             T == S \ {i}
             G == [j \in T |-> batch[j].size]
  <1>1. IsFiniteSet(S) /\ IsFiniteSet(T) /\ Cardinality(T) \in Nat
        /\ Cardinality(S) = Cardinality(T) + 1
    <2>1. IsFiniteSet(S) /\ IsFiniteSet(S \ {i})
      BY FS_RemoveElement DEF Sized
    <2>2. Cardinality(S \ {i}) = Cardinality(S) - 1
      BY <2>1, FS_RemoveElement
    <2>3. Cardinality(S \ {i}) \in Nat /\ Cardinality(S) \in Nat
      BY <2>1, FS_CardinalityType
    <2> QED
      BY <2>1, <2>2, <2>3
  <1>2. \A j \in S : F[j] \in Int
    BY DEF Sized
  <1>3. F[i] = batch[i].size /\ \A j \in T : F[j] \in Int /\ G[j] = F[j]
    BY DEF Sized
  <1>4. /\ Counted(batch, S)["bytes"] = SumFunctionOnSet(F, S)
        /\ Counted(batch, T)["bytes"] = SumFunctionOnSet(G, T)
        /\ Counted(batch, S)["pkts"] = Cardinality(S)
        /\ Counted(batch, T)["pkts"] = Cardinality(T)
    BY CountedFields
  <1> HIDE DEF F, G
  <1>5. SumFunctionOnSet(F, S) = F[i] + SumFunctionOnSet(F, T)
    BY <1>1, <1>2, SumRemove
  <1> HIDE DEF T
  <1>6. SumFunctionOnSet(G, T) = SumFunctionOnSet(F, T) /\ SumFunctionOnSet(F, T) \in Int
    <2>1. \A j \in T : F[j] \in Int
      BY <1>3
    <2> QED
      BY <1>1, <1>3, <2>1, SumSame, SumInteger
  <1>7. F[i] \in Int
    BY <1>2
  <1>8. Counted(batch, S)["bytes"] = Counted(batch, T)["bytes"] + batch[i].size
    BY <1>3, <1>4, <1>5, <1>6, <1>7
  <1>9. Counted(batch, S)["pkts"] = Counted(batch, T)["pkts"] + 1
    BY <1>1, <1>4
  <1>10. Counted(batch, S)[y] = Counted(batch, T)[y] + Unit(batch[i].size)[y]
    BY <1>8, <1>9 DEF Fields, Unit
  <1> QED
    BY <1>10 DEF T

(* No packets.                                                             *)
LEMMA CountedNothing ==
    ASSUME NEW batch, NEW y \in Fields
    PROVE  Counted(batch, {})[y] = 0
  BY FS_EmptySet, SumOverNothing, CountedFields DEF Fields

(* Bucket by bucket, a batch is counted once.                              *)
OfBuckets(batch, S, B) == {i \in S : batch[i].bucket \in B}

(* Some of the packets of a batch.                                         *)
LEMMA SizedSubset ==
    ASSUME NEW batch, NEW S, Sized(batch, S), NEW T \in SUBSET S
    PROVE  Sized(batch, T)
  BY FS_Subset DEF Sized

(* Counted by bucket, and the buckets of a set summed up, every packet of  *)
(* those buckets is counted once.                                          *)
LEMMA CountedByBucket ==
    ASSUME NEW batch, NEW S, Sized(batch, S), NEW B, IsFiniteSet(B), NEW f,
           \A b \in B : f[b] = OfBucket(batch, S, b),
           NEW y \in Fields
    PROVE  Total(f, B)[y] = Counted(batch, OfBuckets(batch, S, B))[y]
  <1> DEFINE F == [b \in B |-> f[b][y]]
             P == {C \in SUBSET B :
                     SumFunctionOnSet(F, C) = Counted(batch, OfBuckets(batch, S, C))[y]}
  <1>1. {} \in P
    <2>1. OfBuckets(batch, S, {}) = {}
      BY DEF OfBuckets
    <2> HIDE DEF F
    <2> QED
      BY <2>1, SumOverNothing, CountedNothing
  <1>2. ASSUME NEW C \in SUBSET B, NEW b \in B \ C, C \in P PROVE C \cup {b} \in P
    <2> DEFINE D == C \cup {b}
               Sb == {i \in S : batch[i].bucket = b}
               SC == OfBuckets(batch, S, C)
    <2>1. IsFiniteSet(D) /\ b \in D /\ D \ {b} = C /\ D \in SUBSET B
      BY FS_Subset
    <2>2. \A c \in D : F[c] \in Int
      <3> SUFFICES ASSUME NEW c \in D PROVE F[c] \in Int
        OBVIOUS
      <3>1. f[c] = Counted(batch, {i \in S : batch[i].bucket = c})
        BY DEF OfBucket
      <3>2. Sized(batch, {i \in S : batch[i].bucket = c})
        BY SizedSubset
      <3>3. f[c] \in Amount
        BY <3>1, <3>2, CountedType
      <3> QED
        BY <3>3, AmountFields
    <2>3. F[b] = Counted(batch, Sb)[y]
      BY DEF OfBucket
    <2>4. OfBuckets(batch, S, D) = SC \cup Sb /\ SC \cap Sb = {}
      BY DEF OfBuckets
    <2>5. Sized(batch, SC) /\ Sized(batch, Sb)
      BY SizedSubset DEF OfBuckets
    <2>6. SumFunctionOnSet(F, C) = Counted(batch, SC)[y]
      BY <1>2
    <2> HIDE DEF D, F, SC, Sb, P
    <2>7. SumFunctionOnSet(F, D) = F[b] + SumFunctionOnSet(F, C)
      BY <2>1, <2>2, SumRemove
    <2>8. Counted(batch, SC \cup Sb)[y] = Counted(batch, SC)[y] + Counted(batch, Sb)[y]
      BY <2>4, <2>5, CountedUnion
    <2>9. F[b] \in Int /\ Counted(batch, SC)[y] \in Int
      BY <2>1, <2>2, <2>5, CountedType, AmountFields
    <2>10. SumFunctionOnSet(F, D) = Counted(batch, OfBuckets(batch, S, D))[y]
      BY <2>3, <2>4, <2>6, <2>7, <2>8, <2>9
    <2> QED
      BY <2>1, <2>10 DEF D, P
  <1> HIDE DEF P
  <1>3. SUBSET B \subseteq P
    BY <1>1, <1>2, FiniteInduction
  <1>4. SumFunctionOnSet(F, B) = Counted(batch, OfBuckets(batch, S, B))[y]
    BY <1>3 DEF P
  <1> QED
    BY <1>4, TotalField

-----------------------------------------------------------------------------
(* The packets of a bin on their way, which keep the sizes of the batch.   *)
AmountOf(E) == [pkts |-> Cardinality(E), bytes |-> Sum([p \in E |-> p.size], E)]

(* Packets on their way are counted as those of a batch are.               *)
LEMMA AmountOfIsCounted ==
    ASSUME NEW E, NEW T, E \subseteq T
    PROVE  AmountOf(E) = Counted([p \in T |-> p], E)
  <1>1. [p \in E |-> p.size] = [i \in E |-> [p \in T |-> p][i].size]
    OBVIOUS
  <1> QED
    BY <1>1 DEF AmountOf, Counted

(* They are an amount.                                                     *)
LEMMA AmountOfType ==
    ASSUME NEW E, IsFiniteSet(E), \A p \in E : p.size \in Nat
    PROVE  AmountOf(E) \in Amount
  <1> DEFINE self == [p \in E |-> p]
  <1>1. Sized(self, E)
    BY DEF Sized
  <1>2. AmountOf(E) = Counted(self, E)
    BY AmountOfIsCounted
  <1> HIDE DEF self
  <1> QED
    BY <1>1, <1>2, CountedType

(* No packet on its way.                                                   *)
LEMMA AmountOfNothing ==
    ASSUME NEW y \in Fields
    PROVE  AmountOf({})[y] = 0
  <1>1. AmountOf({}) = Counted([p \in {} |-> p], {})
    BY AmountOfIsCounted
  <1> QED
    BY <1>1, CountedNothing

(* One packet is processed.                                                *)
LEMMA AmountOfRemoved ==
    ASSUME NEW E, IsFiniteSet(E), \A p \in E : p.size \in Nat,
           NEW r \in E, NEW y \in Fields
    PROVE  AmountOf(E)[y] = AmountOf(E \ {r})[y] + Unit(r.size)[y]
  <1> DEFINE self == [p \in E |-> p]
  <1>1. Sized(self, E) /\ self[r].size = r.size
    BY DEF Sized
  <1>2. AmountOf(E) = Counted(self, E) /\ AmountOf(E \ {r}) = Counted(self, E \ {r})
    BY AmountOfIsCounted
  <1> HIDE DEF self
  <1>3. Counted(self, E)[y] = Counted(self, E \ {r})[y] + Unit(self[r].size)[y]
    BY <1>1, CountedRemoved
  <1> QED
    BY <1>1, <1>2, <1>3

Entries(d, batch, offset, S) == {Entry(d, batch, offset, i) : i \in S}

Indexed(batch, S) == Sized(batch, S) /\ S \subseteq Int

(* The packets that pass on from a batch keep their number and bytes: no   *)
(* two get the same place in the merged stream.                            *)
LEMMA EntriesCounted ==
    ASSUME NEW d, NEW batch, NEW offset \in Int, NEW S, Indexed(batch, S),
           NEW y \in Fields
    PROVE  /\ IsFiniteSet(Entries(d, batch, offset, S))
           /\ AmountOf(Entries(d, batch, offset, S))[y] = Counted(batch, S)[y]
  <1> DEFINE Image(T) == {Entry(d, batch, offset, i) : i \in T}
             P == {T \in SUBSET S : /\ IsFiniteSet(Image(T))
                                    /\ AmountOf(Image(T))[y] = Counted(batch, T)[y]}
  <1>1. Sized(batch, S) /\ S \subseteq Int
    BY DEF Indexed
  <1>2. {} \in P
    <2>1. Image({}) = {}
      OBVIOUS
    <2> QED
      BY <2>1, AmountOfNothing, CountedNothing, FS_EmptySet
  <1>3. ASSUME NEW T \in SUBSET S, NEW x \in S \ T, T \in P PROVE T \cup {x} \in P
    <2> DEFINE U == T \cup {x}
               e == Entry(d, batch, offset, x)
    <2>1. Image(U) = Image(T) \cup {e}
      OBVIOUS
    <2>2. e \notin Image(T)
      <3>1. \A i \in T : Entry(d, batch, offset, i).pos = offset + i
        BY DEF Entry
      <3>2. e.pos = offset + x
        BY DEF Entry
      <3>3. \A i \in T : i \in Int /\ i # x
        BY <1>1
      <3>4. x \in Int
        BY <1>1
      <3>5. \A i \in T : offset + i # offset + x
        BY <3>3, <3>4
      <3> HIDE DEF e
      <3> QED
        BY <3>1, <3>2, <3>5
    <2>3. e.size = batch[x].size /\ \A p \in Image(U) : p.size \in Nat
      BY <1>1 DEF Entry, Sized
    <2>4. IsFiniteSet(Image(U)) /\ e \in Image(U) /\ Image(U) \ {e} = Image(T)
      <3>1. IsFiniteSet(Image(T))
        BY <1>3
      <3> HIDE DEF Image, e, U, P
      <3> QED
        BY <2>1, <2>2, <3>1, FS_AddElement
    <2>5. x \in U /\ U \ {x} = T /\ U \in SUBSET S /\ Sized(batch, U)
      <3>1. x \in U /\ U \ {x} = T /\ U \in SUBSET S
        OBVIOUS
      <3> HIDE DEF U
      <3> QED
        BY <1>1, <3>1, SizedSubset
    <2>6. AmountOf(Image(T))[y] = Counted(batch, T)[y]
      BY <1>3
    <2> HIDE DEF Image, e, U, P
    <2>7. AmountOf(Image(U))[y] = AmountOf(Image(T))[y] + Unit(e.size)[y]
      BY <2>3, <2>4, AmountOfRemoved
    <2>8. Counted(batch, U)[y] = Counted(batch, T)[y] + Unit(batch[x].size)[y]
      BY <2>5, CountedRemoved
    <2>9. AmountOf(Image(U))[y] = Counted(batch, U)[y]
      BY <2>3, <2>6, <2>7, <2>8
    <2> QED
      BY <2>4, <2>5, <2>9 DEF U, P
  <1> HIDE DEF P
  <1>4. SUBSET S \subseteq P
    BY <1>2, <1>3, <1>1, FiniteInduction DEF Sized
  <1> QED
    BY <1>4 DEF P, Entries

-----------------------------------------------------------------------------
(* Samples are only counted: what matters of them is that they are a       *)
(* sequence.                                                               *)
IsSequence(s) == \E S : s \in Seq(S)

(* No sample.                                                              *)
LEMMA EmptySequence == IsSequence(<< >>) /\ Len(<< >>) = 0
  BY EmptySeq DEF IsSequence

(* The number of samples is a natural.                                     *)
LEMMA SequenceLength ==
    ASSUME NEW s, IsSequence(s)
    PROVE  Len(s) \in Nat
  BY LenProperties DEF IsSequence

(* One more sample.                                                        *)
LEMMA SequenceAppend ==
    ASSUME NEW s, IsSequence(s), NEW e
    PROVE  IsSequence(Append(s, e)) /\ Len(Append(s, e)) = Len(s) + 1
  <1>1. PICK S : s \in Seq(S)
    BY DEF IsSequence
  <1> DEFINE T == S \cup {e}
  <1>2. s \in Seq(T) /\ e \in T
    BY <1>1, SeqMonotonic
  <1> HIDE DEF T
  <1> QED
    BY <1>2, AppendProperties DEF IsSequence

(* The samples of two queues.                                              *)
LEMMA SequenceConcat ==
    ASSUME NEW s, IsSequence(s), NEW t, IsSequence(t)
    PROVE  IsSequence(s \o t) /\ Len(s \o t) = Len(s) + Len(t)
  <1>1. PICK S, T : s \in Seq(S) /\ t \in Seq(T)
    BY DEF IsSequence
  <1> DEFINE U == S \cup T
  <1>2. S \subseteq U /\ T \subseteq U
    OBVIOUS
  <1> HIDE DEF U
  <1>3. s \in Seq(U) /\ t \in Seq(U)
    BY <1>1, <1>2, SeqMonotonic
  <1> QED
    BY <1>3, ConcatProperties DEF IsSequence

-----------------------------------------------------------------------------
(* One queue.                                                              *)
StatsType(c) ==
    /\ DOMAIN c = {"adm", "drop", "credit_drop", "pcie_drop", "returned", "u_max",
                   "latency"}
    /\ c.adm \in Amount /\ c.drop \in Amount /\ c.pcie_drop \in Amount
    /\ c.returned \in Nat
    /\ IsSequence(c.latency) /\ Len(c.latency) = c.adm.pkts

QueueType(d, x) ==
    /\ DOMAIN x = {"credits", "heap", "next_free", "now", "stats", "row", "admitted"}
    /\ x.credits \in 0..D_q[d] /\ IsFiniteSet(x.heap)
    /\ StatsType(x.stats)

(* The counters of a bin that starts.                                      *)
LEMMA NoCountsType ==
    /\ StatsType(NoCounts)
    /\ NoCounts.adm = Nothing /\ NoCounts.drop = Nothing /\ NoCounts.pcie_drop = Nothing
    /\ NoCounts.returned = 0
  BY EmptySequence, NothingFields DEF StatsType, NoCounts, Amount, Nothing

(* Free descriptors are counted.                                           *)
LEMMA RingDepth ==
    ASSUME NEW d \in Domains
    PROVE  D_q[d] \in Nat
  BY DataPathAssumption

(* A queue at the start of the run.                                        *)
LEMMA NewQueueType ==
    ASSUME NEW d \in Domains
    PROVE  QueueType(d, NewQueue(d)) /\ NewQueue(d).credits = D_q[d]
  <1>1. IsFiniteSet({})
    BY FS_EmptySet
  <1> QED
    BY <1>1, NoCountsType, RingDepth DEF QueueType, NewQueue

(* What was returned has been added to the credits.                        *)
LEMMA Advanced ==
    ASSUME NEW d \in Domains, NEW x, QueueType(d, x), NEW t, NEW a, a = advanced(d, x, t)
    PROVE  /\ QueueType(d, a)
           /\ a.stats.adm = x.stats.adm /\ a.stats.drop = x.stats.drop
           /\ a.stats.pcie_drop = x.stats.pcie_drop
           /\ a.stats.latency = x.stats.latency
           /\ a.credits = x.credits + a.stats.returned - x.stats.returned
           /\ a.credits >= x.credits
  <1> DEFINE due == {p \in x.heap : p.back <= t}
             c == Least(D_q[d], x.credits + Cardinality(due))
  <1>1. x.credits \in 0..D_q[d] /\ D_q[d] \in Nat /\ IsFiniteSet(x.heap)
        /\ x.stats.returned \in Nat
    BY RingDepth DEF QueueType, StatsType
  <1>2. IsFiniteSet(due) /\ IsFiniteSet(x.heap \ due)
    BY <1>1, FS_Subset
  <1>3. Cardinality(due) \in Nat
    BY <1>2, FS_CardinalityType
  <1>4. a = [x EXCEPT !.credits = c, !.heap = @ \ due, !.now = t,
                      !.stats.returned = @ + (c - x.credits)]
    BY DEF advanced
  <1> HIDE DEF due
  <1>5. c \in 0..D_q[d] /\ c >= x.credits
    BY <1>1, <1>3 DEF Least
  <1> HIDE DEF c
  <1>6. DOMAIN x = {"credits", "heap", "next_free", "now", "stats", "row", "admitted"}
        /\ DOMAIN x.stats = {"adm", "drop", "credit_drop", "pcie_drop", "returned", "u_max",
                             "latency"}
    BY DEF QueueType, StatsType
  <1>7. /\ DOMAIN a = DOMAIN x /\ a.credits = c /\ a.heap = x.heap \ due
        /\ a.stats = [x.stats EXCEPT !.returned = @ + (c - x.credits)]
    BY <1>4, <1>6
  <1>8. /\ DOMAIN a.stats = DOMAIN x.stats
        /\ a.stats.adm = x.stats.adm /\ a.stats.drop = x.stats.drop
        /\ a.stats.pcie_drop = x.stats.pcie_drop
        /\ a.stats.latency = x.stats.latency
        /\ a.stats.returned = x.stats.returned + (c - x.credits)
    BY <1>6, <1>7
  <1>9. a.stats.returned \in Nat /\ a.credits = x.credits + a.stats.returned - x.stats.returned
    BY <1>1, <1>5, <1>7, <1>8
  <1>10. StatsType(a.stats)
    BY <1>8, <1>9 DEF QueueType, StatsType
  <1> QED
    BY <1>2, <1>5, <1>7, <1>8, <1>9, <1>10 DEF QueueType

(* A drop is counted, and a drop on the link also as one.                  *)
LEMMA DroppedForCredit ==
    ASSUME NEW d \in Domains, NEW x, QueueType(d, x), NEW size \in Nat,
           NEW a, a = dropped_for_credit(x, size)
    PROVE  /\ QueueType(d, a) /\ a.credits = x.credits
           /\ a.stats.adm = x.stats.adm
           /\ a.stats.pcie_drop = x.stats.pcie_drop
           /\ a.stats.returned = x.stats.returned
           /\ a.stats.drop = More(x.stats.drop, 1, size)
  <1>1. DOMAIN x = {"credits", "heap", "next_free", "now", "stats", "row", "admitted"}
        /\ DOMAIN x.stats = {"adm", "drop", "credit_drop", "pcie_drop", "returned", "u_max",
                             "latency"}
    BY DEF QueueType, StatsType
  <1>2. /\ DOMAIN a = DOMAIN x /\ a.credits = x.credits /\ a.heap = x.heap
        /\ a.stats = [x.stats EXCEPT !.drop = More(@, 1, size),
                                     !.credit_drop = More(@, 1, size)]
    BY <1>1 DEF dropped_for_credit
  <1>3. /\ DOMAIN a.stats = DOMAIN x.stats
        /\ a.stats.adm = x.stats.adm /\ a.stats.pcie_drop = x.stats.pcie_drop
        /\ a.stats.latency = x.stats.latency /\ a.stats.returned = x.stats.returned
        /\ a.stats.drop = More(x.stats.drop, 1, size)
    BY <1>1, <1>2
  <1>4. More(x.stats.drop, 1, size) \in Amount
    BY MoreFields DEF QueueType, StatsType
  <1>5. StatsType(a.stats)
    BY <1>3, <1>4 DEF QueueType, StatsType
  <1> QED
    BY <1>2, <1>3, <1>5 DEF QueueType

(* A drop at the link.                                                     *)
LEMMA DroppedByLink ==
    ASSUME NEW d \in Domains, NEW x, QueueType(d, x), NEW size \in Nat,
           NEW a, a = dropped_by_link(x, size)
    PROVE  /\ QueueType(d, a) /\ a.credits = x.credits
           /\ a.stats.adm = x.stats.adm
           /\ a.stats.pcie_drop = More(x.stats.pcie_drop, 1, size)
           /\ a.stats.returned = x.stats.returned
           /\ a.stats.drop = More(x.stats.drop, 1, size)
  <1>1. DOMAIN x = {"credits", "heap", "next_free", "now", "stats", "row", "admitted"}
        /\ DOMAIN x.stats = {"adm", "drop", "credit_drop", "pcie_drop", "returned", "u_max",
                             "latency"}
    BY DEF QueueType, StatsType
  <1>2. /\ DOMAIN a = DOMAIN x /\ a.credits = x.credits /\ a.heap = x.heap
        /\ a.stats = [x.stats EXCEPT !.drop = More(@, 1, size),
                                     !.pcie_drop = More(@, 1, size)]
    BY <1>1 DEF dropped_by_link
  <1>3. /\ DOMAIN a.stats = DOMAIN x.stats
        /\ a.stats.adm = x.stats.adm /\ a.stats.pcie_drop = More(x.stats.pcie_drop, 1, size)
        /\ a.stats.latency = x.stats.latency /\ a.stats.returned = x.stats.returned
        /\ a.stats.drop = More(x.stats.drop, 1, size)
    BY <1>1, <1>2
  <1>4. More(x.stats.drop, 1, size) \in Amount /\ More(x.stats.pcie_drop, 1, size) \in Amount
    BY MoreFields DEF QueueType, StatsType
  <1>5. StatsType(a.stats)
    BY <1>3, <1>4 DEF QueueType, StatsType
  <1> QED
    BY <1>2, <1>3, <1>5 DEF QueueType

(* An admission takes one descriptor and leaves one sample.                *)
LEMMA Taken ==
    ASSUME NEW d \in Domains, NEW x, QueueType(d, x), x.credits > 0, NEW size \in Nat,
           NEW t, NEW arrive, NEW service, NEW a, a = taken(d, x, t, size, arrive, service)
    PROVE  /\ QueueType(d, a) /\ a.credits = x.credits - 1
           /\ a.stats.adm = More(x.stats.adm, 1, size)
           /\ a.stats.pcie_drop = x.stats.pcie_drop
           /\ a.stats.returned = x.stats.returned
           /\ a.stats.drop = x.stats.drop
  <1>1. DOMAIN x = {"credits", "heap", "next_free", "now", "stats", "row", "admitted"}
        /\ DOMAIN x.stats = {"adm", "drop", "credit_drop", "pcie_drop", "returned", "u_max",
                             "latency"}
    BY DEF QueueType, StatsType
  <1>2. PICK e, u, l :
          /\ DOMAIN a = DOMAIN x /\ a.credits = x.credits - 1 /\ a.heap = x.heap \cup {e}
          /\ a.stats = [x.stats EXCEPT !.adm = More(@, 1, size), !.u_max = u,
                                       !.latency = Append(@, l)]
    BY <1>1 DEF taken
  <1>3. /\ DOMAIN a.stats = DOMAIN x.stats
        /\ a.stats.adm = More(x.stats.adm, 1, size)
        /\ a.stats.pcie_drop = x.stats.pcie_drop
        /\ a.stats.latency = Append(x.stats.latency, l)
        /\ a.stats.returned = x.stats.returned
        /\ a.stats.drop = x.stats.drop
    BY <1>1, <1>2
  <1>4. More(x.stats.adm, 1, size) \in Amount
        /\ More(x.stats.adm, 1, size).pkts = x.stats.adm.pkts + 1
    <2>1. x.stats.adm \in Amount
      BY DEF QueueType, StatsType
    <2> QED
      BY <2>1, MoreFields
  <1>5. /\ IsSequence(Append(x.stats.latency, l))
        /\ Len(Append(x.stats.latency, l)) = x.stats.adm.pkts + 1
    BY SequenceAppend DEF QueueType, StatsType
  <1>6. StatsType(a.stats)
    BY <1>3, <1>4, <1>5 DEF QueueType, StatsType
  <1>7. IsFiniteSet(a.heap) /\ a.credits \in 0..D_q[d]
    <2>1. IsFiniteSet(x.heap) /\ x.credits \in 0..D_q[d] /\ D_q[d] \in Nat
      BY RingDepth DEF QueueType
    <2>2. IsFiniteSet(x.heap \cup {e})
      BY <2>1, FS_AddElement
    <2> QED
      BY <1>2, <2>1, <2>2
  <1> QED
    BY <1>1, <1>2, <1>3, <1>6, <1>7 DEF QueueType

(* try_admit either drops the packet or takes a descriptor for it; with    *)
(* one free at the time of the packet it takes it.                         *)
LEMMA TryAdmitType ==
    ASSUME NEW d \in Domains, NEW x, QueueType(d, x), NEW size \in Nat,
           NEW t, NEW arrive, NEW service
    PROVE  QueueType(d, try_admit(d, x, t, size, arrive, service))
  <1> DEFINE a == advanced(d, x, t)
  <1>1. QueueType(d, a)
    BY Advanced
  <1> HIDE DEF a
  <1>2. a.credits \in Int
    BY <1>1, RingDepth DEF QueueType
  <1>3. CASE a.credits <= 0
    BY <1>1, <1>3, DroppedForCredit DEF try_admit, a
  <1>4. CASE a.credits > 0
    <2>1. ~(a.credits <= 0)
      BY <1>2, <1>4
    <2> QED
      BY <1>1, <1>4, <2>1, Taken DEF try_admit, a
  <1> QED
    BY <1>2, <1>3, <1>4

(* With a descriptor free at the time of the packet it is admitted.        *)
LEMMA Admitted ==
    ASSUME NEW d \in Domains, NEW x, QueueType(d, x), x.credits > 0, NEW size \in Nat,
           NEW t, NEW arrive, NEW service,
           NEW a, a = try_admit(d, x, t, size, arrive, service)
    PROVE  /\ QueueType(d, a)
           /\ a.credits = x.credits + a.stats.returned - x.stats.returned - 1
           /\ a.stats.adm = More(x.stats.adm, 1, size)
           /\ a.stats.pcie_drop = x.stats.pcie_drop
           /\ a.stats.drop = x.stats.drop
  <1> DEFINE m == advanced(d, x, t)
  <1>1. /\ QueueType(d, m)
        /\ m.stats.adm = x.stats.adm /\ m.stats.drop = x.stats.drop
        /\ m.stats.pcie_drop = x.stats.pcie_drop
        /\ m.credits = x.credits + m.stats.returned - x.stats.returned
        /\ m.credits >= x.credits
    BY Advanced
  <1>2. /\ m.credits \in Int /\ x.credits \in Int
        /\ m.stats.returned \in Int /\ x.stats.returned \in Int
    BY <1>1, RingDepth DEF QueueType, StatsType
  <1>3. m.credits > 0 /\ ~(m.credits <= 0)
    BY <1>1, <1>2
  <1>4. a = taken(d, m, t, size, arrive, service)
    BY <1>3 DEF try_admit
  <1> HIDE DEF m
  <1>5. /\ QueueType(d, a) /\ a.credits = m.credits - 1
        /\ a.stats.adm = More(m.stats.adm, 1, size)
        /\ a.stats.pcie_drop = m.stats.pcie_drop
        /\ a.stats.returned = m.stats.returned
        /\ a.stats.drop = m.stats.drop
    BY <1>1, <1>3, <1>4, Taken
  <1>6. a.credits = x.credits + a.stats.returned - x.stats.returned - 1
    BY <1>1, <1>2, <1>5
  <1> QED
    BY <1>1, <1>5, <1>6

-----------------------------------------------------------------------------
(* The samples of a bin, one queue after the other.                        *)
Gathered(row, g, s) == IF s = {} THEN << >> ELSE g[s \ {Chosen(s)}] \o row[Chosen(s)].latency

(* Gathering them is a recursion over the set of queues.                   *)
LEMMA SamplesUnfold ==
    ASSUME NEW S, IsFiniteSet(S), NEW row
    PROVE  \E g : /\ \A s \in SUBSET S : g[s] = Gathered(row, g, s)
                  /\ Samples(row, S) = g[S]
  <1> DEFINE Upto(n) == {s \in SUBSET S : Cardinality(s) <= n}
             N == {n \in Nat : \E g : g = [s \in Upto(n) |-> Gathered(row, g, s)]}
  <1>1. \A T \in SUBSET S : IsFiniteSet(T) /\ Cardinality(T) \in Nat
    BY FS_Subset, FS_CardinalityType
  <1>2. \A s \in SUBSET S : s # {} =>
           /\ Chosen(s) \in s /\ s \ {Chosen(s)} \in SUBSET S
           /\ Cardinality(s \ {Chosen(s)}) = Cardinality(s) - 1
    BY <1>1, ChosenRemoved
  <1>3. 0 \in N
    <2> DEFINE g == [s \in Upto(0) |-> << >>]
    <2>1. \A s \in Upto(0) : s = {}
      BY <1>1, FS_EmptySet
    <2>2. g = [s \in Upto(0) |-> Gathered(row, g, s)]
      BY <2>1 DEF Gathered
    <2> QED
      BY <2>2
  <1>4. ASSUME NEW n \in Nat, n \in N PROVE n + 1 \in N
    <2>1. PICK g : g = [s \in Upto(n) |-> Gathered(row, g, s)]
      BY <1>4
    <2> DEFINE h == [s \in Upto(n + 1) |-> Gathered(row, g, s)]
    <2>2. \A s \in Upto(n) : s \in Upto(n + 1) /\ h[s] = g[s]
      BY <1>1, <2>1
    <2>3. \A s \in Upto(n + 1) : s # {} => s \ {Chosen(s)} \in Upto(n)
      BY <1>1, <1>2
    <2>4. \A s \in Upto(n + 1) : Gathered(row, g, s) = Gathered(row, h, s)
      <3> HIDE DEF h, Upto
      <3> QED
        BY <2>2, <2>3 DEF Gathered
    <2>5. h = [s \in Upto(n + 1) |-> Gathered(row, h, s)]
      BY <2>4
    <2>6. \E k : k = [s \in Upto(n + 1) |-> Gathered(row, k, s)]
      <3> HIDE DEF h, Upto
      <3> QED
        BY <2>5
    <2> HIDE DEF h, Upto
    <2> QED
      BY <2>6
  <1> HIDE DEF N
  <1>5. Cardinality(S) \in N
    BY <1>1, <1>3, <1>4, Induction
  <1>6. Upto(Cardinality(S)) = SUBSET S
    BY <1>1, FS_Subset
  <1>7. PICK g : g = [s \in SUBSET S |-> Gathered(row, g, s)]
    BY <1>5, <1>6 DEF N
  <1>8. g = [s \in SUBSET S |->
               IF s = {} THEN << >>
               ELSE g[s \ {CHOOSE x \in s : TRUE}] \o row[CHOOSE x \in s : TRUE].latency]
    BY <1>7 DEF Gathered, Chosen
  <1>9. \E k : k = [s \in SUBSET S |->
               IF s = {} THEN << >>
               ELSE k[s \ {CHOOSE x \in s : TRUE}] \o row[CHOOSE x \in s : TRUE].latency]
    BY <1>8
  <1> HIDE DEF N, Upto
  <1> QED
    BY <1>9 DEF Samples, FoldSet, MapThenFoldSet, Gathered, Chosen

(* They are as many as the admissions of the queues.                       *)
LEMMA SamplesLength ==
    ASSUME NEW S, IsFiniteSet(S), NEW row,
           \A q \in S : /\ IsSequence(row[q].latency) /\ row[q].adm \in Amount
                        /\ Len(row[q].latency) = row[q].adm.pkts
    PROVE  /\ IsSequence(Samples(row, S))
           /\ Len(Samples(row, S)) = Total([q \in S |-> row[q].adm], S).pkts
  <1> DEFINE F == [q \in S |-> row[q].adm.pkts]
  <1>1. PICK g : /\ \A s \in SUBSET S : g[s] = Gathered(row, g, s)
                 /\ Samples(row, S) = g[S]
    BY SamplesUnfold
  <1> DEFINE Good(s) == IsSequence(g[s]) /\ Len(g[s]) = SumFunctionOnSet(F, s)
             N == {n \in Nat : \A s \in SUBSET S : Cardinality(s) = n => Good(s)}
  <1>2. \A s \in SUBSET S : IsFiniteSet(s) /\ Cardinality(s) \in Nat
    BY FS_Subset, FS_CardinalityType
  <1>3. \A q \in S : F[q] \in Nat /\ Len(row[q].latency) = F[q]
    BY DEF Amount
  <1> HIDE DEF F
  <1>4. 0 \in N
    <2>1. \A s \in SUBSET S : Cardinality(s) = 0 => s = {}
      BY <1>2, FS_EmptySet
    <2>2. g[{}] = << >>
      BY <1>1 DEF Gathered
    <2>3. Good({})
      BY <2>2, EmptySequence, SumOverNothing
    <2> HIDE DEF Good
    <2> QED
      BY <2>1, <2>3
  <1>5. ASSUME NEW n \in Nat, n \in N PROVE n + 1 \in N
    <2> SUFFICES ASSUME NEW s \in SUBSET S, Cardinality(s) = n + 1 PROVE Good(s)
      BY DEF N
    <2>1. s # {}
      <3>1. Cardinality({}) = 0 /\ n + 1 # 0
        BY FS_EmptySet
      <3> QED
        BY <3>1, Zenon
    <2> DEFINE c == Chosen(s)
               r == s \ {c}
    <2>2. c \in s /\ c \in S /\ r \in SUBSET S /\ Cardinality(r) = n
      BY <1>2, <2>1, ChosenRemoved
    <2>3. g[s] = g[r] \o row[c].latency
      BY <1>1, <2>1 DEF Gathered
    <2>4. Good(r)
      <3> HIDE DEF Good, r
      <3> QED
        BY <1>5, <2>2
    <2>5. IsSequence(row[c].latency) /\ Len(row[c].latency) = F[c] /\ F[c] \in Nat
      BY <1>3, <2>2
    <2>6. SumFunctionOnSet(F, s) = F[c] + SumFunctionOnSet(F, r)
      <3>1. \A q \in s : F[q] \in Int
        BY <1>3
      <3> QED
        BY <1>2, <2>2, <3>1, SumRemove
    <2> HIDE DEF c, r
    <2>7. IsSequence(g[s]) /\ Len(g[s]) = Len(g[r]) + Len(row[c].latency)
      BY <2>3, <2>4, <2>5, SequenceConcat
    <2>8. Len(g[r]) \in Nat
      BY <2>4, SequenceLength
    <2> QED
      BY <2>4, <2>5, <2>6, <2>7, <2>8
  <1> HIDE DEF N
  <1>6. Cardinality(S) \in N
    BY <1>2, <1>4, <1>5, Induction
  <1>7. Good(S)
    BY <1>6 DEF N
  <1>8. Total([q \in S |-> row[q].adm], S)["pkts"] = SumFunctionOnSet(F, S)
    <2> DEFINE A == [q \in S |-> row[q].adm]
    <2>1. Total(A, S)["pkts"] = SumFunctionOnSet([q \in S |-> A[q]["pkts"]], S)
      BY TotalField DEF Fields
    <2>2. [q \in S |-> A[q]["pkts"]] = F
      BY DEF F
    <2> QED
      BY <2>1, <2>2
  <1> QED
    BY <1>1, <1>7, <1>8

-----------------------------------------------------------------------------
(* The telemetry of a domain.                                              *)
Cells(d) == [0..(EpochBins[d] - 1) -> [Queues[d] -> Amount]]

TelemetryType(d, x) ==
    /\ DOMAIN x = {"b", "gen", "adm", "drop", "K", "V", "latency_samples"}
    /\ x.gen \in Cells(d) /\ x.adm \in Cells(d) /\ x.drop \in Cells(d)
    /\ x.K \in [0..(EpochBins[d] - 1) -> [Queues[d] -> Nat]]
    /\ x.V \in [0..EpochBins[d] -> [Queues[d] -> 0..D_q[d]]]
    /\ IsSequence(x.latency_samples)

(* What the shape of a domain holds.                                       *)
LEMMA ShapeFields ==
    ASSUME NEW d \in Domains
    PROVE  /\ Shape(d).H = EpochBins[d] /\ Shape(d).queues = Queues[d]
           /\ Shape(d).buckets = Buckets[d] /\ Shape(d).D_q = D_q[d]
           /\ EpochBins[d] \in Nat \ {0} /\ NumEpochs[d] \in Nat /\ D_q[d] \in Nat
           /\ Bins(Shape(d)) = 0..(EpochBins[d] - 1)
           /\ IsFiniteSet(0..(EpochBins[d] - 1))
           /\ IsFiniteSet(Queues[d]) /\ IsFiniteSet(Buckets[d])
  <1>1. EpochBins[d] \in Nat \ {0} /\ NumEpochs[d] \in Nat /\ D_q[d] \in Nat
        /\ IsFiniteSet(Queues[d]) /\ IsFiniteSet(Buckets[d])
    BY DataPathAssumption
  <1>2. Shape(d).H = EpochBins[d] /\ Shape(d).queues = Queues[d]
        /\ Shape(d).buckets = Buckets[d] /\ Shape(d).D_q = D_q[d]
    BY DEF Shape
  <1>3. Bins(Shape(d)) = 0..(EpochBins[d] - 1)
    BY <1>2 DEF Bins
  <1> DEFINE n == EpochBins[d] - 1
  <1>4. n \in Int
    BY <1>1
  <1> HIDE DEF n
  <1>5. IsFiniteSet(0..n)
    BY <1>4, FS_Interval
  <1> QED
    BY <1>1, <1>2, <1>3, <1>5 DEF n

(* The sums of a cleared epoch, and of one in which one more bin has been  *)
(* recorded.                                                               *)
LEMMA EpochTotalType ==
    ASSUME NEW d \in Domains, NEW f \in Cells(d), NEW q \in Queues[d]
    PROVE  EpochTotal(Shape(d), f, q) \in Amount
  <1> DEFINE B == 0..(EpochBins[d] - 1)
             F == [k \in B |-> f[k][q]]
  <1>1. Bins(Shape(d)) = B /\ IsFiniteSet(B)
    BY ShapeFields
  <1>2. \A k \in B : F[k] \in Amount
    BY DEF Cells
  <1>3. EpochTotal(Shape(d), f, q) = Total(F, B)
    BY <1>1 DEF EpochTotal
  <1> HIDE DEF F, B
  <1> QED
    BY <1>1, <1>2, <1>3, TotalType

(* An epoch in which nothing is recorded.                                  *)
LEMMA EpochTotalZero ==
    ASSUME NEW d \in Domains, NEW f, NEW q \in Queues[d], NEW y \in Fields,
           \A k \in 0..(EpochBins[d] - 1) : f[k][q] = Nothing
    PROVE  EpochTotal(Shape(d), f, q)[y] = 0
  <1> DEFINE B == 0..(EpochBins[d] - 1)
             F == [k \in B |-> f[k][q]]
  <1>1. Bins(Shape(d)) = B /\ IsFiniteSet(B)
    BY ShapeFields
  <1>2. \A k \in B : F[k] = Nothing
    OBVIOUS
  <1>3. EpochTotal(Shape(d), f, q) = Total(F, B)
    BY <1>1 DEF EpochTotal
  <1> HIDE DEF F, B
  <1> QED
    BY <1>1, <1>2, <1>3, TotalZero

(* One bin recorded.                                                       *)
LEMMA EpochTotalRecorded ==
    ASSUME NEW d \in Domains, NEW f \in Cells(d), NEW g \in Cells(d), NEW q \in Queues[d],
           NEW y \in Fields, NEW k \in 0..(EpochBins[d] - 1), f[k][q] = Nothing,
           \A j \in 0..(EpochBins[d] - 1) : j # k => g[j] = f[j]
    PROVE  EpochTotal(Shape(d), g, q)[y] = EpochTotal(Shape(d), f, q)[y] + g[k][q][y]
  <1> DEFINE B == 0..(EpochBins[d] - 1)
             F == [j \in B |-> f[j][q]]
             G == [j \in B |-> g[j][q]]
  <1>1. Bins(Shape(d)) = B /\ IsFiniteSet(B)
    BY ShapeFields
  <1>2. \A j \in B : F[j] \in Amount /\ G[j] \in Amount
    BY DEF Cells
  <1>3. \A j \in B \ {k} : G[j] = F[j]
    OBVIOUS
  <1>4. F[k] = Nothing /\ G[k] = g[k][q] /\ k \in B
    OBVIOUS
  <1>5. /\ EpochTotal(Shape(d), f, q) = Total(F, B)
        /\ EpochTotal(Shape(d), g, q) = Total(G, B)
    BY <1>1 DEF EpochTotal
  <1>6. IsFiniteSet(B)
    BY <1>1
  <1> HIDE DEF F, G, B
  <1>7. Total(G, B)[y] = Total(F, B)[y] + G[k][y] - F[k][y]
    BY <1>2, <1>3, <1>4, <1>6, TotalChanged
  <1>8. F[k][y] = 0 /\ G[k][y] \in Nat /\ Total(F, B)[y] \in Nat
    <2>1. G[k] \in Amount /\ Total(F, B) \in Amount
      BY <1>1, <1>2, <1>4, TotalType
    <2> QED
      BY <1>4, <2>1, NothingFields, AmountFields
  <1> QED
    BY <1>4, <1>5, <1>7, <1>8

(* A new epoch starts with empty rows and the descriptors free then.       *)
LEMMA EpochReset ==
    ASSUME NEW d \in Domains, NEW V \in [Queues[d] -> 0..D_q[d]],
           NEW x, x = set_V_start(reset_epoch(Shape(d)), V)
    PROVE  /\ TelemetryType(d, x)
           /\ \A k \in 0..(EpochBins[d] - 1) : \A q \in Queues[d] :
                 /\ x.gen[k][q] = Nothing /\ x.adm[k][q] = Nothing
                 /\ x.drop[k][q] = Nothing /\ x.K[k][q] = 0
           /\ x.V[0] = V
           /\ x.latency_samples = << >>
  <1> DEFINE B == 0..(EpochBins[d] - 1)
             none == [k \in B |-> [q \in Queues[d] |-> Nothing]]
             zeros == [k \in B |-> [q \in Queues[d] |-> 0]]
             free == [k \in 0..EpochBins[d] |-> [q \in Queues[d] |-> 0]]
  <1>1. PICK b : reset_epoch(Shape(d)) =
           [b |-> b, gen |-> none, adm |-> none, drop |-> none, K |-> zeros,
            V |-> free, latency_samples |-> << >>]
    BY ShapeFields DEF reset_epoch
  <1> HIDE DEF none, zeros, free
  <1>2. x = [b |-> b, gen |-> none, adm |-> none, drop |-> none, K |-> zeros,
             V |-> [free EXCEPT ![0] = V], latency_samples |-> << >>]
    BY <1>1 DEF set_V_start
  <1>3. EpochBins[d] \in Nat /\ D_q[d] \in Nat
    BY ShapeFields
  <1>4. none \in Cells(d)
    BY NothingFields DEF Cells, none
  <1>5. zeros \in [B -> [Queues[d] -> Nat]]
    BY DEF zeros
  <1>6. [free EXCEPT ![0] = V] \in [0..EpochBins[d] -> [Queues[d] -> 0..D_q[d]]]
        /\ [free EXCEPT ![0] = V][0] = V
    <2>1. free \in [0..EpochBins[d] -> [Queues[d] -> 0..D_q[d]]]
      BY <1>3 DEF free
    <2>2. 0 \in 0..EpochBins[d]
      BY <1>3
    <2> QED
      BY <2>1, <2>2
  <1>7. \A k \in B : \A q \in Queues[d] : none[k][q] = Nothing /\ zeros[k][q] = 0
    BY DEF none, zeros
  <1>8. DOMAIN x = {"b", "gen", "adm", "drop", "K", "V", "latency_samples"}
    BY <1>2
  <1>9. /\ x.gen = none /\ x.adm = none /\ x.drop = none /\ x.K = zeros
        /\ x.V = [free EXCEPT ![0] = V] /\ x.latency_samples = << >>
    BY <1>2
  <1>10. TelemetryType(d, x)
    BY <1>4, <1>5, <1>6, <1>8, <1>9, EmptySequence DEF TelemetryType
  <1> QED
    BY <1>6, <1>7, <1>9, <1>10

(* A bin fills its own row, and no other.                                  *)
RecordsBin(d, x, k, bucket, table, row, V, a) ==
    /\ TelemetryType(d, a)
    /\ \A q \in Queues[d] :
          /\ a.gen[k][q] = Total(bucket, {b \in Buckets[d] : table[b] = q})
          /\ a.adm[k][q] = row[q].adm /\ a.drop[k][q] = row[q].drop
          /\ a.K[k][q] = row[q].returned
    /\ \A j \in 0..(EpochBins[d] - 1) : j # k =>
          /\ a.gen[j] = x.gen[j] /\ a.adm[j] = x.adm[j]
          /\ a.drop[j] = x.drop[j] /\ a.K[j] = x.K[j]
    /\ a.V[k + 1] = V
    /\ \A j \in 0..EpochBins[d] : j # k + 1 => a.V[j] = x.V[j]
    /\ Len(a.latency_samples) = Len(x.latency_samples)
          + Total([q \in Queues[d] |-> row[q].adm], Queues[d]).pkts

(* What record_bin writes.                                                 *)
LEMMA BinRecorded ==
    ASSUME NEW d \in Domains, NEW x, TelemetryType(d, x),
           NEW k \in 0..(EpochBins[d] - 1),
           NEW bucket \in [Buckets[d] -> Amount], NEW table,
           NEW row, \A q \in Queues[d] : StatsType(row[q]),
           NEW V \in [Queues[d] -> 0..D_q[d]],
           NEW a, a = record_bin(Shape(d), x, k, bucket, table, row, V)
    PROVE  RecordsBin(d, x, k, bucket, table, row, V, a)
  <1> DEFINE gen == [q \in Queues[d] |-> Total(bucket, {b \in Buckets[d] : table[b] = q})]
             adm == [q \in Queues[d] |-> row[q].adm]
             drops == [q \in Queues[d] |-> row[q].drop]
             K == [q \in Queues[d] |-> row[q].returned]
  <1>1. /\ DOMAIN x = {"b", "gen", "adm", "drop", "K", "V", "latency_samples"}
        /\ x.gen \in Cells(d) /\ x.adm \in Cells(d) /\ x.drop \in Cells(d)
        /\ x.K \in [0..(EpochBins[d] - 1) -> [Queues[d] -> Nat]]
        /\ x.V \in [0..EpochBins[d] -> [Queues[d] -> 0..D_q[d]]]
        /\ IsSequence(x.latency_samples)
    BY DEF TelemetryType
  <1>2. gen \in [Queues[d] -> Amount]
    <2> SUFFICES ASSUME NEW q \in Queues[d]
                 PROVE  Total(bucket, {b \in Buckets[d] : table[b] = q}) \in Amount
      OBVIOUS
    <2> DEFINE S == {b \in Buckets[d] : table[b] = q}
    <2>1. IsFiniteSet(S)
      BY ShapeFields, FS_Subset
    <2>2. \A b \in S : bucket[b] \in Amount
      OBVIOUS
    <2> HIDE DEF S
    <2>3. Total(bucket, S) \in Amount
      BY <2>1, <2>2, TotalType
    <2> QED
      BY <2>3 DEF S
  <1>3. adm \in [Queues[d] -> Amount] /\ drops \in [Queues[d] -> Amount]
        /\ K \in [Queues[d] -> Nat]
    BY DEF StatsType
  <1>4. gen = QueueTotals(Shape(d), table, bucket)
    BY ShapeFields DEF QueueTotals
  <1>5. a = [x EXCEPT !.b[k] = bucket, !.gen[k] = gen, !.adm[k] = adm, !.drop[k] = drops,
                      !.K[k] = K, !.V[k + 1] = V,
                      !.latency_samples = @ \o Samples(row, Queues[d])]
    BY <1>4, ShapeFields DEF record_bin
  <1>6. /\ \A q \in Queues[d] : gen[q] = Total(bucket, {b \in Buckets[d] : table[b] = q})
        /\ \A q \in Queues[d] : adm[q] = row[q].adm /\ drops[q] = row[q].drop
                                /\ K[q] = row[q].returned
    OBVIOUS
  <1>7. /\ IsSequence(Samples(row, Queues[d]))
        /\ Len(Samples(row, Queues[d])) = Total(adm, Queues[d]).pkts
    <2>1. \A q \in Queues[d] : /\ IsSequence(row[q].latency) /\ row[q].adm \in Amount
                               /\ Len(row[q].latency) = row[q].adm.pkts
      BY DEF StatsType
    <2>2. IsFiniteSet(Queues[d])
      BY ShapeFields
    <2> QED
      BY <2>1, <2>2, SamplesLength
  <1> HIDE DEF gen, adm, drops, K
  <1>8. /\ DOMAIN a = DOMAIN x
        /\ a.gen = [x.gen EXCEPT ![k] = gen] /\ a.adm = [x.adm EXCEPT ![k] = adm]
        /\ a.drop = [x.drop EXCEPT ![k] = drops] /\ a.K = [x.K EXCEPT ![k] = K]
        /\ a.V = [x.V EXCEPT ![k + 1] = V]
        /\ a.latency_samples = x.latency_samples \o Samples(row, Queues[d])
    BY <1>1, <1>5
  <1>9. k + 1 \in 0..EpochBins[d]
    BY ShapeFields
  <1> DEFINE B == 0..(EpochBins[d] - 1)
             R == [Queues[d] -> Amount]
             C == [Queues[d] -> Nat]
  <1>10. /\ x.gen \in [B -> R] /\ x.adm \in [B -> R] /\ x.drop \in [B -> R]
         /\ x.K \in [B -> C] /\ k \in B
    BY <1>1 DEF Cells
  <1>11. gen \in R /\ adm \in R /\ drops \in R /\ K \in C
    BY <1>2, <1>3
  <1> HIDE DEF B, R, C
  <1>12. /\ a.gen \in [B -> R] /\ a.gen[k] = gen
         /\ \A j \in B : j # k => a.gen[j] = x.gen[j]
    <2>1. x.gen \in [B -> R] /\ a.gen = [x.gen EXCEPT ![k] = gen] /\ k \in B
      BY <1>8, <1>10
    <2>2. gen \in R
      BY <1>11
    <2> QED
      BY <2>1, <2>2
  <1>13. /\ a.adm \in [B -> R] /\ a.adm[k] = adm
         /\ \A j \in B : j # k => a.adm[j] = x.adm[j]
    <2>1. x.adm \in [B -> R] /\ a.adm = [x.adm EXCEPT ![k] = adm] /\ k \in B
      BY <1>8, <1>10
    <2>2. adm \in R
      BY <1>11
    <2> QED
      BY <2>1, <2>2
  <1>14. /\ a.drop \in [B -> R] /\ a.drop[k] = drops
         /\ \A j \in B : j # k => a.drop[j] = x.drop[j]
    <2>1. x.drop \in [B -> R] /\ a.drop = [x.drop EXCEPT ![k] = drops] /\ k \in B
      BY <1>8, <1>10
    <2>2. drops \in R
      BY <1>11
    <2> QED
      BY <2>1, <2>2
  <1>15. /\ a.K \in [B -> C] /\ a.K[k] = K
         /\ \A j \in B : j # k => a.K[j] = x.K[j]
    <2>1. x.K \in [B -> C] /\ a.K = [x.K EXCEPT ![k] = K] /\ k \in B
      BY <1>8, <1>10
    <2>2. K \in C
      BY <1>11
    <2> QED
      BY <2>1, <2>2
  <1>16. /\ a.V \in [0..EpochBins[d] -> [Queues[d] -> 0..D_q[d]]]
         /\ a.V[k + 1] = V
         /\ \A j \in 0..EpochBins[d] : j # k + 1 => a.V[j] = x.V[j]
    <2>1. /\ x.V \in [0..EpochBins[d] -> [Queues[d] -> 0..D_q[d]]]
          /\ a.V = [x.V EXCEPT ![k + 1] = V]
      BY <1>1, <1>8
    <2> QED
      BY <1>9, <2>1
  <1>17. /\ IsSequence(a.latency_samples)
         /\ Len(a.latency_samples) = Len(x.latency_samples) + Total(adm, Queues[d]).pkts
    <2>1. /\ IsSequence(x.latency_samples)
          /\ a.latency_samples = x.latency_samples \o Samples(row, Queues[d])
      BY <1>1, <1>8
    <2>2. /\ IsSequence(a.latency_samples)
          /\ Len(a.latency_samples) = Len(x.latency_samples) + Len(Samples(row, Queues[d]))
      BY <1>7, <2>1, SequenceConcat
    <2> QED
      BY <1>7, <2>2
  <1>18. TelemetryType(d, a)
    BY <1>1, <1>8, <1>16, <1>17, <1>12, <1>13, <1>14, <1>15 DEF TelemetryType, Cells, B, R, C
  <1>19. Len(a.latency_samples) = Len(x.latency_samples)
                 + Total([q \in Queues[d] |-> row[q].adm], Queues[d]).pkts
    BY <1>17 DEF adm
  <1> QED
    BY <1>6, <1>16, <1>18, <1>19, <1>12, <1>13, <1>14, <1>15 DEF B, RecordsBin

-----------------------------------------------------------------------------
(* What every step preserves.  First the type of what is counted.          *)
DomainType(d) ==
    /\ in_epoch[d] \in Nat /\ epoch[d] \in Nat
    /\ rss[d] \in [Buckets[d] -> Queues[d]]
    /\ DOMAIN pipeline[d] = Queues[d]
    /\ \A q \in Queues[d] : QueueType(d, pipeline[d][q])
    /\ TelemetryType(d, telem[d])
    /\ lost[d] \in [Queues[d] -> Amount]
    /\ generated[d] \in [Buckets[d] -> Amount]

PendingHandoff == [q_dst : Queues["stateful"], buffer : Amount]

FinishedHandoff == [bucket : Buckets["stateful"], q_dst : Queues["stateful"],
                    left : Nat, avg_size : Nat]

PathType ==
    /\ phase \in {"pull", "packets", "stateless", "stateful", "release"}
    /\ DOMAIN in_epoch = Domains /\ DOMAIN epoch = Domains /\ DOMAIN rss = Domains
    /\ DOMAIN pipeline = Domains /\ DOMAIN telem = Domains /\ DOMAIN lost = Domains
    /\ DOMAIN generated = Domains
    /\ \A d \in Domains : DomainType(d)
    /\ IsFiniteSet(todo)
    /\ \A p \in todo : p.domain \in Domains /\ p.bucket \in Buckets[p.domain] /\ p.size \in Nat
    /\ DOMAIN handoffs \subseteq Buckets["stateful"]
    /\ \A b \in DOMAIN handoffs : handoffs[b] \in PendingHandoff
    /\ finished \subseteq FinishedHandoff

(* A domain that still closes epochs has a row for the bin to come.        *)
Open(d) == epoch[d] < NumEpochs[d]

Progress ==
    /\ \A d \in Domains : in_epoch[d] <= EpochBins[d]
    /\ phase \in {"pull", "packets"} => \A d \in Domains : in_epoch[d] < EpochBins[d]
    /\ phase \in {"stateful", "release"} =>
          in_epoch["stateless"] < EpochBins["stateless"] \/ ~Open("stateless")
    /\ phase = "release" => AtBoundary("stateful")

(* The packets of a queue that are still to be processed in this bin, and  *)
(* the buckets it serves.                                                  *)
OnTheWay(d, q) == {p \in todo : p.domain = d /\ QueueOf(p) = q}

BucketsOf(d, q) == {b \in Buckets[d] : rss[d][b] = q}

Recorded(d, x, name, q, y) == EpochTotal(Shape(d), x[name], q)[y]

(* The rows of the bins to come are empty.                                 *)
Unrecorded(d, x, n) ==
    \A k \in 0..(EpochBins[d] - 1) : k >= n =>
       \A q \in Queues[d] :
          /\ x.gen[k][q] = Nothing /\ x.adm[k][q] = Nothing
          /\ x.drop[k][q] = Nothing /\ x.K[k][q] = 0

(* The free descriptors change by what is returned and admitted, from bin  *)
(* to bin and in the running one; a release for the stateful domain falls  *)
(* between two epochs.                                                     *)
Connected(d, x, n) ==
    \A q \in Queues[d] : \A k \in 0..(EpochBins[d] - 1) : k < n =>
       x.V[k + 1][q] = x.V[k][q] + x.K[k][q] - x.adm[k][q].pkts

Descriptors(d) ==
    \A q \in Queues[d] :
       /\ phase = "packets" => pipeline[d][q].credits =
             telem[d].V[in_epoch[d]][q] + pipeline[d][q].stats.returned
                - pipeline[d][q].stats.adm.pkts
       /\ phase # "packets" /\ (d = "stateful" => phase # "release")
             => pipeline[d][q].credits = telem[d].V[in_epoch[d]][q]

(* Every admission of the epoch has left one sample.                       *)
Sampled(d, x) ==
    Len(x.latency_samples) =
        Total([q \in Queues[d] |-> EpochTotal(Shape(d), x.adm, q)], Queues[d]).pkts

(* Every packet generated for a queue in this epoch is admitted, dropped,  *)
(* lost before it, or in the running bin still on its way.                 *)
Balanced(d) ==
    \A q \in Queues[d] : \A y \in Fields :
       /\ phase = "packets" =>
             Recorded(d, telem[d], "gen", q, y) + Total(generated[d], BucketsOf(d, q))[y]
                = Recorded(d, telem[d], "adm", q, y) + pipeline[d][q].stats.adm[y]
                  + Recorded(d, telem[d], "drop", q, y) + pipeline[d][q].stats.drop[y]
                  + AmountOf(OnTheWay(d, q))[y] + lost[d][q][y]
       /\ phase # "packets" =>
             Recorded(d, telem[d], "gen", q, y)
                = Recorded(d, telem[d], "adm", q, y) + Recorded(d, telem[d], "drop", q, y) + lost[d][q][y]

Ledger(d) ==
    Open(d) =>
       /\ Unrecorded(d, telem[d], in_epoch[d]) /\ Connected(d, telem[d], in_epoch[d])
       /\ Sampled(d, telem[d])
       /\ Descriptors(d) /\ Balanced(d)

(* The link and the queues count the same packets of a bin.                *)
LinkCounts ==
    use_pcie_link /\ phase \in {"packets", "stateless"} =>
          /\ stats.accepted_pkts = Both([d \in Domains |-> Counter(d, "adm")])
          /\ \A d \in Domains : stats.by_domain[d] = Counter(d, "pcie_drop")

PathInductive ==
    /\ PathType /\ Progress /\ LinkCounts
    /\ \A d \in Domains : Ledger(d)

-----------------------------------------------------------------------------
(* There are two domains.                                                  *)
LEMMA TwoDomains == Domains = {"stateless", "stateful"}
  BY DataPathAssumption DEF Egress

(* A batch is finite, and its sizes are naturals.                          *)
LEMMA BatchType ==
    ASSUME NEW d \in Domains, NEW batch \in Streams(d)
    PROVE  /\ Sized(batch, DOMAIN batch) /\ DOMAIN batch \subseteq Int
           /\ Len(batch) \in Nat
           /\ \A i \in DOMAIN batch :
                 /\ batch[i].bucket \in Buckets[d] /\ batch[i].size \in Sizes
                 /\ batch[i].at \in 0..(BinNs - 1)
  <1>1. /\ DOMAIN batch = 1..Len(batch) /\ Len(batch) \in Nat
        /\ \A i \in DOMAIN batch :
              /\ batch[i].bucket \in Buckets[d] /\ batch[i].size \in Sizes
              /\ batch[i].at \in 0..(BinNs - 1)
    BY BatchPackets
  <1>2. IsFiniteSet(DOMAIN batch)
    <2> DEFINE n == Len(batch)
    <2>1. n \in Int
      BY <1>1
    <2> HIDE DEF n
    <2>2. IsFiniteSet(1..n)
      BY <2>1, FS_Interval
    <2> QED
      BY <1>1, <2>2 DEF n
  <1>3. Sizes \subseteq Nat
    BY PCIeLinkAssumption
  <1>4. Sized(batch, DOMAIN batch)
    BY <1>1, <1>2, <1>3 DEF Sized
  <1> QED
    BY <1>1, <1>4

(* The sums of an epoch are naturals, and 0 when it starts.                *)
LEMMA RecordedType ==
    ASSUME NEW d \in Domains, NEW x, TelemetryType(d, x), NEW q \in Queues[d],
           NEW y \in Fields, NEW name \in {"gen", "adm", "drop"}
    PROVE  Recorded(d, x, name, q, y) \in Nat
  <1>1. x[name] \in Cells(d)
    BY DEF TelemetryType
  <1>2. EpochTotal(Shape(d), x[name], q) \in Amount
    BY <1>1, EpochTotalType
  <1> QED
    BY <1>2, AmountFields DEF Recorded

(* The ledger of an epoch that starts is empty.                            *)
LEMMA LedgerStarts ==
    ASSUME NEW d \in Domains, NEW V \in [Queues[d] -> 0..D_q[d]],
           NEW x, x = set_V_start(reset_epoch(Shape(d)), V)
    PROVE  /\ TelemetryType(d, x) /\ x.V[0] = V
           /\ Unrecorded(d, x, 0) /\ Connected(d, x, 0) /\ Sampled(d, x)
           /\ \A q \in Queues[d] : \A y \in Fields :
                 /\ Recorded(d, x, "gen", q, y) = 0 /\ Recorded(d, x, "adm", q, y) = 0
                 /\ Recorded(d, x, "drop", q, y) = 0
  <1>1. /\ TelemetryType(d, x)
        /\ \A k \in 0..(EpochBins[d] - 1) : \A q \in Queues[d] :
              /\ x.gen[k][q] = Nothing /\ x.adm[k][q] = Nothing
              /\ x.drop[k][q] = Nothing /\ x.K[k][q] = 0
        /\ x.V[0] = V /\ x.latency_samples = << >>
    BY EpochReset
  <1>2. Unrecorded(d, x, 0)
    BY <1>1 DEF Unrecorded
  <1>3. Connected(d, x, 0)
    <2>1. \A k \in 0..(EpochBins[d] - 1) : ~(k < 0)
      OBVIOUS
    <2> QED
      BY <2>1 DEF Connected
  <1>4. \A q \in Queues[d] : \A y \in Fields :
           /\ Recorded(d, x, "gen", q, y) = 0 /\ Recorded(d, x, "adm", q, y) = 0
           /\ Recorded(d, x, "drop", q, y) = 0
    BY <1>1, EpochTotalZero DEF Recorded
  <1>5. Sampled(d, x)
    <2> DEFINE F == [q \in Queues[d] |-> EpochTotal(Shape(d), x.adm, q)]
               G == [q \in Queues[d] |-> F[q]["pkts"]]
    <2>1. \A q \in Queues[d] : G[q] = 0
      BY <1>4 DEF Recorded, Fields
    <2>2. Total(F, Queues[d])["pkts"] = SumFunctionOnSet(G, Queues[d])
      BY TotalField DEF Fields
    <2> HIDE DEF G
    <2>3. SumFunctionOnSet(G, Queues[d]) = 0
      BY <2>1, ShapeFields, SumZero
    <2> QED
      BY <1>1, <2>2, <2>3, EmptySequence DEF Sampled
  <1> QED
    BY <1>1, <1>2, <1>3, <1>4, <1>5

(* The ledger at the start of the run.                                     *)
LEMMA InitPathInductive == InitPath => PathInductive
  <1> SUFFICES ASSUME InitPath PROVE PathInductive
    OBVIOUS
  <1>1. ASSUME NEW d \in Domains
        PROVE  /\ in_epoch[d] = 0 /\ epoch[d] = 0
               /\ DOMAIN pipeline[d] = Queues[d]
               /\ \A q \in Queues[d] : pipeline[d][q] = NewQueue(d)
               /\ telem[d] = set_V_start(reset_epoch(Shape(d)), [q \in Queues[d] |-> D_q[d]])
               /\ lost[d] = [q \in Queues[d] |-> Nothing]
               /\ generated[d] = [b \in Buckets[d] |-> Nothing]
               /\ rss[d] \in [Buckets[d] -> Queues[d]]
    BY DataPathAssumption DEF InitPath
  <1>2. /\ phase = "pull" /\ todo = {} /\ finished = {} /\ handoffs = [b \in {} |-> Nothing]
        /\ DOMAIN in_epoch = Domains /\ DOMAIN epoch = Domains /\ DOMAIN rss = Domains
        /\ DOMAIN pipeline = Domains /\ DOMAIN telem = Domains /\ DOMAIN lost = Domains
        /\ DOMAIN generated = Domains
    BY DataPathAssumption DEF InitPath
  <1>3. ASSUME NEW d \in Domains PROVE DomainType(d) /\ Ledger(d)
    <2>1. /\ lost[d] \in [Queues[d] -> Amount] /\ generated[d] \in [Buckets[d] -> Amount]
          /\ \A q \in Queues[d] : lost[d][q] = Nothing
      <3>1. Nothing \in Amount
        BY NothingFields
      <3>2. /\ lost[d] = [q \in Queues[d] |-> Nothing]
            /\ generated[d] = [b \in Buckets[d] |-> Nothing]
        BY <1>1
      <3> QED
        BY <3>1, <3>2
    <2>2. /\ in_epoch[d] = 0 /\ epoch[d] = 0 /\ DOMAIN pipeline[d] = Queues[d]
          /\ rss[d] \in [Buckets[d] -> Queues[d]]
          /\ \A q \in Queues[d] : pipeline[d][q] = NewQueue(d)
      BY <1>1
    <2> DEFINE V == [q \in Queues[d] |-> D_q[d]]
    <2>3. V \in [Queues[d] -> 0..D_q[d]] /\ \A q \in Queues[d] : V[q] = D_q[d]
      BY RingDepth
    <2>4. telem[d] = set_V_start(reset_epoch(Shape(d)), V)
      BY <1>1
    <2> HIDE DEF V
    <2>5. /\ TelemetryType(d, telem[d]) /\ telem[d].V[0] = V
          /\ Unrecorded(d, telem[d], 0) /\ Connected(d, telem[d], 0)
          /\ Sampled(d, telem[d])
          /\ \A q \in Queues[d] : \A y \in Fields :
                /\ Recorded(d, telem[d], "gen", q, y) = 0
                /\ Recorded(d, telem[d], "adm", q, y) = 0
                /\ Recorded(d, telem[d], "drop", q, y) = 0
      BY <2>3, <2>4, LedgerStarts
    <2>6. \A q \in Queues[d] : QueueType(d, pipeline[d][q])
                               /\ pipeline[d][q].credits = D_q[d]
      BY <2>2, NewQueueType
    <2>7. DomainType(d)
      BY <2>1, <2>5, <2>6, <2>2 DEF DomainType
    <2>8. Descriptors(d)
      BY <1>2, <2>3, <2>5, <2>6, <2>2 DEF Descriptors
    <2>9. Balanced(d)
      <3>1. \A q \in Queues[d] : \A y \in Fields : lost[d][q][y] = 0
        BY <2>1, NothingFields
      <3> QED
        BY <1>2, <2>5, <3>1 DEF Balanced
    <2> QED
      BY <2>5, <2>7, <2>8, <2>9, <2>2 DEF Ledger
  <1>4. PathType
    <2>1. IsFiniteSet({}) /\ DOMAIN handoffs = {}
      BY <1>2, FS_EmptySet
    <2> QED
      BY <1>2, <1>3, <2>1 DEF PathType
  <1>5. Progress
    <2>1. \A d \in Domains : in_epoch[d] = 0 /\ EpochBins[d] \in Nat \ {0}
      BY <1>1, ShapeFields
    <2> QED
      BY <1>2, <2>1 DEF Progress
  <1>6. LinkCounts
    BY <1>2 DEF LinkCounts
  <1> QED
    BY <1>3, <1>4, <1>5, <1>6 DEF PathInductive

-----------------------------------------------------------------------------
(* A step between two bins that leaves a domain's epoch alone.             *)
LEMMA DomainKept ==
    ASSUME NEW d \in Domains, DomainType(d),
           pipeline'[d] = pipeline[d], telem'[d] = telem[d], lost'[d] = lost[d],
           generated'[d] = generated[d], rss'[d] \in [Buckets[d] -> Queues[d]],
           in_epoch'[d] \in Nat, epoch'[d] \in Nat
    PROVE  DomainType(d)'
  BY DEF DomainType

(* Then its ledger stays as it is.                                         *)
LEMMA LedgerKept ==
    ASSUME NEW d \in Domains, Open(d) => Descriptors(d)', Ledger(d),
           phase # "packets", phase' # "packets",
           telem'[d] = telem[d], lost'[d] = lost[d], epoch'[d] = epoch[d],
           in_epoch'[d] = in_epoch[d]
    PROVE  Ledger(d)'
  <1> SUFFICES ASSUME Open(d)'
               PROVE  /\ Unrecorded(d, telem[d], in_epoch[d])'
                      /\ Connected(d, telem[d], in_epoch[d])'
                      /\ Sampled(d, telem[d])'
                      /\ Descriptors(d)' /\ Balanced(d)'
    BY DEF Ledger
  <1>1. Open(d)
    BY DEF Open
  <1>2. /\ Unrecorded(d, telem[d], in_epoch[d]) /\ Connected(d, telem[d], in_epoch[d])
        /\ Sampled(d, telem[d]) /\ Balanced(d) /\ Descriptors(d)'
    BY <1>1 DEF Ledger
  <1>3. /\ Unrecorded(d, telem[d], in_epoch[d])'
        /\ Connected(d, telem[d], in_epoch[d])'
        /\ Sampled(d, telem[d])'
    <2>1. /\ Unrecorded(d, telem'[d], in_epoch'[d]) /\ Connected(d, telem'[d], in_epoch'[d])
          /\ Sampled(d, telem'[d])
      BY <1>1, <1>2, Zenon
    <2> QED
      BY <2>1
  <1>4. Balanced(d)'
    <2>1. \A q \in Queues[d] : \A y \in Fields :
             Recorded(d, telem[d], "gen", q, y)
                = Recorded(d, telem[d], "adm", q, y) + Recorded(d, telem[d], "drop", q, y)
                  + lost[d][q][y]
      BY <1>2 DEF Balanced
    <2>2. \A q \in Queues[d] : \A y \in Fields :
             Recorded(d, telem'[d], "gen", q, y)
                = Recorded(d, telem'[d], "adm", q, y) + Recorded(d, telem'[d], "drop", q, y)
                  + lost'[d][q][y]
      BY <2>1
    <2> QED
      BY <2>2 DEF Balanced
  <1> QED
    BY <1>2, <1>3, <1>4

(* In particular when nothing of the domain changes.                       *)
LEMMA LedgerUntouched ==
    ASSUME NEW d \in Domains, Ledger(d),
           phase # "packets", phase # "release", phase' # "packets",
           pipeline'[d] = pipeline[d],
           telem'[d] = telem[d], lost'[d] = lost[d], epoch'[d] = epoch[d],
           in_epoch'[d] = in_epoch[d]
    PROVE  Ledger(d)'
  <1>1. Open(d) => Descriptors(d)'
    BY DEF Ledger, Descriptors
  <1> QED
    BY <1>1, LedgerKept

(* A release takes descriptors of the stateful queues only.                *)
LEMMA LedgerOfRelease ==
    ASSUME NEW d \in Domains, Ledger(d),
           phase = "release", phase' # "packets",
           d = "stateful" \/ pipeline'[d] = pipeline[d],
           d = "stateful" => phase' = "release",
           telem'[d] = telem[d], lost'[d] = lost[d], epoch'[d] = epoch[d],
           in_epoch'[d] = in_epoch[d]
    PROVE  Ledger(d)'
  <1>1. Open(d) => Descriptors(d)'
    BY DEF Ledger, Descriptors
  <1> QED
    BY <1>1, LedgerKept

(* A domain that has closed all its epochs has no ledger.                  *)
LEMMA LedgerClosed ==
    ASSUME NEW d \in Domains, ~Open(d), epoch'[d] = epoch[d]
    PROVE  Ledger(d)'
  BY DEF Open, Ledger

(* A closed epoch: the next one starts with an empty ledger.               *)
LEMMA DomainClosed ==
    ASSUME NEW d \in Domains, DomainType(d), NEW n, Close(d, n),
           DOMAIN telem = Domains, DOMAIN lost = Domains, DOMAIN epoch = Domains,
           pipeline' = pipeline, generated' = generated,
           rss'[d] \in [Buckets[d] -> Queues[d]],
           in_epoch'[d] = 0, phase' \notin {"packets", "release"}
    PROVE  DomainType(d)' /\ Ledger(d)' /\ epoch'[d] = epoch[d] + 1
  <1> DEFINE V == [q \in Queues[d] |-> pipeline[d][q].credits]
  <1>1. V \in [Queues[d] -> 0..D_q[d]] /\ V = V_start(d)
        /\ \A q \in Queues[d] : V[q] = pipeline[d][q].credits
    BY DEF DomainType, QueueType, V_start, snapshot_V
  <1> HIDE DEF V
  <1>2. /\ telem'[d] = set_V_start(reset_epoch(Shape(d)), V)
        /\ lost'[d] = [q \in Queues[d] |-> Nothing]
        /\ epoch'[d] = epoch[d] + 1
    BY <1>1 DEF Close
  <1>3. /\ TelemetryType(d, telem'[d]) /\ telem'[d].V[0] = V
        /\ Unrecorded(d, telem'[d], 0) /\ Connected(d, telem'[d], 0)
        /\ Sampled(d, telem'[d])
        /\ \A q \in Queues[d] : \A y \in Fields :
              /\ Recorded(d, telem'[d], "gen", q, y) = 0
              /\ Recorded(d, telem'[d], "adm", q, y) = 0
              /\ Recorded(d, telem'[d], "drop", q, y) = 0
    BY <1>1, <1>2, LedgerStarts
  <1>4. lost'[d] \in [Queues[d] -> Amount]
        /\ \A q \in Queues[d] : \A y \in Fields : lost'[d][q][y] = 0
    BY <1>2, NothingFields
  <1>5. DomainType(d)'
    BY <1>2, <1>3, <1>4 DEF DomainType
  <1>6. Descriptors(d)'
    BY <1>1, <1>3 DEF Descriptors
  <1>7. Balanced(d)'
    BY <1>3, <1>4 DEF Balanced
  <1>8. Unrecorded(d, telem[d], in_epoch[d])' /\ Connected(d, telem[d], in_epoch[d])'
        /\ Sampled(d, telem[d])'
    BY <1>3
  <1> QED
    BY <1>2, <1>5, <1>6, <1>7, <1>8 DEF Ledger

(* The boundary of the stateless domain: a new epoch and any table.        *)
LEMMA StatelessBoundaryKeeps ==
    ASSUME PathInductive, _on_stateless_epoch_boundary
    PROVE  PathInductive'
  <1>1. /\ phase = "stateless" /\ AtBoundary("stateless") /\ phase' = "stateful"
        /\ in_epoch' = [in_epoch EXCEPT !["stateless"] = 0]
        /\ UNCHANGED <<use_pcie_link, pipeline, deficit, handoffs, finished, generated,
                       todo, t_start>>
    BY DEF _on_stateless_epoch_boundary
  <1>2. PICK table \in [Buckets["stateless"] -> Queues["stateless"]] :
           /\ \E moves \in Reassigned("stateless", table) : Close("stateless", moves)
           /\ rss' = [rss EXCEPT !["stateless"] = table]
    BY DEF _on_stateless_epoch_boundary
  <1>3. PathType /\ Progress /\ \A d \in Domains : DomainType(d) /\ Ledger(d)
    BY DEF PathInductive, PathType
  <1>4. /\ DOMAIN in_epoch' = Domains /\ DOMAIN epoch' = Domains /\ DOMAIN rss' = Domains
        /\ DOMAIN telem' = Domains /\ DOMAIN lost' = Domains
        /\ DOMAIN telem = Domains /\ DOMAIN lost = Domains /\ DOMAIN epoch = Domains
    BY <1>1, <1>2, <1>3 DEF PathType, Close
  <1>5. "stateless" \in Domains /\ "stateful" \in Domains
    BY TwoDomains
  <1>6. rss'["stateless"] = table /\ in_epoch'["stateless"] = 0
        /\ rss'["stateful"] = rss["stateful"] /\ in_epoch'["stateful"] = in_epoch["stateful"]
    BY <1>1, <1>2, <1>3, <1>5 DEF PathType
  <1>7. /\ telem'["stateful"] = telem["stateful"] /\ lost'["stateful"] = lost["stateful"]
        /\ epoch'["stateful"] = epoch["stateful"]
    BY <1>2, <1>4, <1>5 DEF Close
  <1>8. DomainType("stateless")' /\ Ledger("stateless")'
    <2>1. PICK n : Close("stateless", n)
      BY <1>2
    <2> QED
      BY <1>1, <1>3, <1>4, <1>5, <1>6, <2>1, DomainClosed
  <1>9. DomainType("stateful")'
    <2>1. DomainType("stateful")
      BY <1>3, <1>5
    <2>2. /\ rss'["stateful"] \in [Buckets["stateful"] -> Queues["stateful"]]
          /\ in_epoch'["stateful"] \in Nat /\ epoch'["stateful"] \in Nat
      BY <1>6, <1>7, <2>1 DEF DomainType
    <2> QED
      BY <1>1, <1>5, <1>7, <2>1, <2>2, DomainKept
  <1>10. Ledger("stateful")'
    <2>1. Ledger("stateful")
      BY <1>3, <1>5
    <2>2. /\ phase # "packets" /\ phase' # "packets" /\ phase # "release"
          /\ pipeline'["stateful"] = pipeline["stateful"]
          /\ in_epoch'["stateful"] = in_epoch["stateful"]
      BY <1>1, <1>6
    <2> QED
      BY <1>5, <1>7, <2>1, <2>2, LedgerUntouched
  <1>11. \A d \in Domains : DomainType(d)' /\ Ledger(d)'
    BY <1>8, <1>9, <1>10, TwoDomains
  <1>12. PathType'
    BY <1>1, <1>3, <1>4, <1>11 DEF PathType
  <1>13. Progress'
    BY <1>1, <1>3, <1>5, <1>6, TwoDomains, ShapeFields DEF Progress
  <1>14. LinkCounts'
    BY <1>1 DEF LinkCounts
  <1> QED
    BY <1>11, <1>12, <1>13, <1>14 DEF PathInductive

(* No boundary of the stateless domain.                                    *)
LEMMA NoStatelessBoundaryKeeps ==
    ASSUME PathInductive, NoStatelessBoundary
    PROVE  PathInductive'
  <1>1. /\ phase = "stateless" /\ ~AtBoundary("stateless") /\ phase' = "stateful"
        /\ UNCHANGED <<use_pcie_link, pipeline, rss, telem, lost, in_epoch, epoch,
                       handoffs, finished, generated, todo>>
    BY DEF NoStatelessBoundary
  <1>2. PathType /\ Progress /\ \A d \in Domains : DomainType(d) /\ Ledger(d)
    BY DEF PathInductive, PathType
  <1>3. ASSUME NEW d \in Domains PROVE DomainType(d)' /\ Ledger(d)'
    <2>1. DomainType(d)'
      BY <1>1, <1>2, DomainKept DEF DomainType
    <2>2. /\ phase # "packets" /\ phase' # "packets" /\ phase # "release"
          /\ pipeline'[d] = pipeline[d] /\ telem'[d] = telem[d] /\ lost'[d] = lost[d]
          /\ epoch'[d] = epoch[d] /\ in_epoch'[d] = in_epoch[d]
      BY <1>1
    <2> QED
      BY <1>2, <2>1, <2>2, LedgerUntouched
  <1>4. PathType'
    BY <1>1, <1>2, <1>3 DEF PathType
  <1>5. Progress'
    <2>1. in_epoch["stateless"] <= EpochBins["stateless"]
          /\ in_epoch["stateless"] \in Nat /\ EpochBins["stateless"] \in Nat
      BY <1>2, TwoDomains, ShapeFields DEF Progress, DomainType
    <2>2. in_epoch["stateless"] < EpochBins["stateless"] \/ ~Open("stateless")
      BY <1>1, <2>1 DEF AtBoundary, Open
    <2> QED
      BY <1>1, <1>2, <2>2 DEF Progress, Open
  <1>6. LinkCounts'
    BY <1>1 DEF LinkCounts
  <1> QED
    BY <1>3, <1>4, <1>5, <1>6 DEF PathInductive

(* A boundary keeps the handoffs that remain and begins others, for        *)
(* buckets without one, with empty buffers.                                *)
LEMMA IssueShape ==
    ASSUME NEW left, NEW table, Issue(left, table)
    PROVE  /\ DOMAIN left \subseteq DOMAIN handoffs'
           /\ \A b \in DOMAIN left : handoffs'[b] = left[b]
           /\ \A b \in DOMAIN handoffs' \ DOMAIN left :
                 /\ b \in Buckets["stateful"]
                 /\ \E q \in Queues["stateful"] :
                       handoffs'[b] = [q_dst |-> q, buffer |-> Nothing]
  <1>1. PICK new \in SUBSET (Buckets["stateful"] \ DOMAIN left) :
        \E dst \in [new -> Queues["stateful"]] :
           handoffs' = [b \in DOMAIN left \cup new |->
                           IF b \in new THEN [q_dst |-> dst[b], buffer |-> Nothing]
                                        ELSE left[b]]
    BY Zenon DEF Issue
  <1>2. PICK dst \in [new -> Queues["stateful"]] :
           handoffs' = [b \in DOMAIN left \cup new |->
                           IF b \in new THEN [q_dst |-> dst[b], buffer |-> Nothing]
                                        ELSE left[b]]
    BY <1>1
  <1>3. DOMAIN handoffs' = DOMAIN left \cup new
    BY <1>2
  <1>4. \A b \in DOMAIN left : handoffs'[b] = left[b]
    BY <1>2
  <1>5. \A b \in new : dst[b] \in Queues["stateful"]
                      /\ handoffs'[b] = [q_dst |-> dst[b], buffer |-> Nothing]
    BY <1>2
  <1> QED
    BY <1>3, <1>4, <1>5

(* Handoffs commit and begin; the buffers of those that end are to be      *)
(* released.                                                               *)
LEMMA StatefulBoundaryKeeps ==
    ASSUME PathInductive, _on_stateful_epoch_boundary
    PROVE  PathInductive'
  <1>1. /\ phase = "stateful" /\ AtBoundary("stateful") /\ phase' = "release"
        /\ UNCHANGED <<use_pcie_link, pipeline, telem, lost, in_epoch, epoch,
                       generated, todo>>
    BY DEF _on_stateful_epoch_boundary
  <1>2. PICK ended \in SUBSET DOMAIN handoffs :
          /\ rss' = [rss EXCEPT !["stateful"] = Committed(ended)]
          /\ Issue(Remaining(ended), Committed(ended))
          /\ finished' = {[bucket |-> b, q_dst |-> handoffs[b].q_dst,
                           left |-> handoffs[b].buffer.pkts,
                           avg_size |-> Later(1, handoffs[b].buffer.bytes \div
                                                 Later(1, handoffs[b].buffer.pkts))] :
                             b \in ended}
    BY DEF _on_stateful_epoch_boundary
  <1>3. PathType /\ Progress /\ \A d \in Domains : DomainType(d) /\ Ledger(d)
    BY DEF PathInductive, PathType
  <1>4. /\ DOMAIN handoffs \subseteq Buckets["stateful"]
        /\ \A b \in DOMAIN handoffs : handoffs[b] \in PendingHandoff
        /\ DOMAIN rss = Domains
        /\ \A d \in Domains : rss[d] \in [Buckets[d] -> Queues[d]]
    BY <1>3 DEF PathType, DomainType
  <1>5. Committed(ended) \in [Buckets["stateful"] -> Queues["stateful"]]
    BY <1>4, TwoDomains DEF Committed, PendingHandoff
  <1>6. /\ DOMAIN handoffs' \subseteq Buckets["stateful"]
        /\ \A b \in DOMAIN handoffs' : handoffs'[b] \in PendingHandoff
    <2> DEFINE left == Remaining(ended)
               begun(q) == [q_dst |-> q, buffer |-> Nothing]
    <2>1. /\ DOMAIN left \subseteq Buckets["stateful"]
          /\ \A b \in DOMAIN left : left[b] \in PendingHandoff
      BY <1>4 DEF Remaining
    <2>2. \A q \in Queues["stateful"] : begun(q) \in PendingHandoff
      BY NothingFields DEF PendingHandoff
    <2>3. /\ \A b \in DOMAIN left : handoffs'[b] = left[b]
          /\ \A b \in DOMAIN handoffs' \ DOMAIN left :
                /\ b \in Buckets["stateful"]
                /\ \E q \in Queues["stateful"] : handoffs'[b] = begun(q)
      BY <1>2, IssueShape
    <2> HIDE DEF left, begun
    <2> QED
      BY <2>1, <2>2, <2>3
  <1>7. rss'["stateful"] = Committed(ended) /\ rss'["stateless"] = rss["stateless"]
        /\ DOMAIN rss' = Domains
    BY <1>2, <1>4, TwoDomains
  <1>8. ASSUME NEW d \in Domains PROVE DomainType(d)' /\ Ledger(d)'
    <2>1. rss'[d] \in [Buckets[d] -> Queues[d]]
      BY <1>4, <1>5, <1>7, TwoDomains
    <2>2. DomainType(d)'
      BY <1>1, <1>3, <2>1, DomainKept DEF DomainType
    <2>3. /\ phase # "packets" /\ phase' # "packets" /\ phase # "release"
          /\ pipeline'[d] = pipeline[d] /\ telem'[d] = telem[d] /\ lost'[d] = lost[d]
          /\ epoch'[d] = epoch[d] /\ in_epoch'[d] = in_epoch[d]
      BY <1>1
    <2> QED
      BY <1>3, <2>2, <2>3, LedgerUntouched
  <1>9. finished' \subseteq FinishedHandoff
    <2>1. finished' = {[bucket |-> b, q_dst |-> handoffs[b].q_dst,
                        left |-> handoffs[b].buffer.pkts,
                        avg_size |-> Later(1, handoffs[b].buffer.bytes \div
                                              Later(1, handoffs[b].buffer.pkts))] :
                          b \in ended}
      BY <1>2
    <2>2. \A b \in ended :
             /\ b \in Buckets["stateful"] /\ handoffs[b].q_dst \in Queues["stateful"]
             /\ handoffs[b].buffer.pkts \in Nat /\ handoffs[b].buffer.bytes \in Nat
      BY <1>4 DEF PendingHandoff, Amount
    <2>3. ASSUME NEW x \in Nat, NEW y \in Nat
          PROVE  Later(1, x \div Later(1, y)) \in Nat
      <3>1. Later(1, y) \in Nat \ {0}
        BY DEF Later
      <3>2. x \div Later(1, y) \in Nat
        BY <3>1
      <3> QED
        BY <3>2 DEF Later
    <2>4. \A b \in ended : Later(1, handoffs[b].buffer.bytes \div
                                     Later(1, handoffs[b].buffer.pkts)) \in Nat
      BY <2>2, <2>3
    <2> QED
      BY <2>1, <2>2, <2>4 DEF FinishedHandoff
  <1>10. PathType'
    BY <1>1, <1>3, <1>6, <1>7, <1>8, <1>9 DEF PathType
  <1>11. Progress'
    BY <1>1, <1>3 DEF Progress, Open, AtBoundary
  <1>12. LinkCounts'
    BY <1>1 DEF LinkCounts
  <1> QED
    BY <1>8, <1>10, <1>11, <1>12 DEF PathInductive

(* A packet of a finished handoff takes a descriptor or is dropped: the    *)
(* ledgers do not see it.                                                  *)
LEMMA ReleaseKeeps ==
    ASSUME PathInductive, Release
    PROVE  PathInductive'
  <1>1. /\ phase = "release" /\ phase' = "release"
        /\ UNCHANGED <<use_pcie_link, rss, telem, lost, in_epoch, epoch,
                       handoffs, generated, todo>>
    BY DEF Release
  <1>2. PICK h \in finished, service \in ServiceTimes["stateful"] :
           /\ h.left > 0
           /\ PutQueue("stateful", h.q_dst,
                    try_admit("stateful", pipeline["stateful"][h.q_dst],
                              t_start - 1, h.avg_size,
                              t_start - 1 + T_dma[h.avg_size], service))
           /\ finished' = (finished \ {h}) \cup {[h EXCEPT !.left = @ - 1]}
    BY DEF Release
  <1>3. PathType /\ Progress /\ \A d \in Domains : DomainType(d) /\ Ledger(d)
    BY DEF PathInductive, PathType
  <1>4. h \in FinishedHandoff /\ "stateful" \in Domains
    BY <1>3, TwoDomains DEF PathType
  <1> DEFINE q == h.q_dst
             new == try_admit("stateful", pipeline["stateful"][q], t_start - 1, h.avg_size,
                              t_start - 1 + T_dma[h.avg_size], service)
  <1>5. q \in Queues["stateful"] /\ h.avg_size \in Nat
    BY <1>4 DEF FinishedHandoff
  <1>6. QueueType("stateful", pipeline["stateful"][q])
    BY <1>3, <1>4, <1>5 DEF DomainType
  <1>7. QueueType("stateful", new)
    BY <1>4, <1>5, <1>6, TryAdmitType
  <1>8. pipeline' = [pipeline EXCEPT !["stateful"][q] = new]
    BY <1>2 DEF PutQueue
  <1> HIDE DEF q, new
  <1>9. /\ DOMAIN pipeline' = Domains
        /\ DOMAIN pipeline'["stateful"] = Queues["stateful"]
        /\ \A r \in Queues["stateful"] : QueueType("stateful", pipeline'["stateful"][r])
        /\ \A d \in Domains : d # "stateful" => pipeline'[d] = pipeline[d]
    BY <1>3, <1>4, <1>5, <1>7, <1>8 DEF PathType, DomainType
  <1>10. finished' \subseteq FinishedHandoff
    <2>1. [h EXCEPT !.left = @ - 1] \in FinishedHandoff
      BY <1>2, <1>4 DEF FinishedHandoff
    <2> QED
      BY <1>2, <1>3, <2>1 DEF PathType
  <1>11. ASSUME NEW d \in Domains PROVE DomainType(d)' /\ Ledger(d)'
    <2>1. DomainType(d)'
      BY <1>1, <1>3, <1>9 DEF DomainType
    <2>2. /\ phase = "release" /\ phase' # "packets"
          /\ d = "stateful" \/ pipeline'[d] = pipeline[d]
          /\ d = "stateful" => phase' = "release"
          /\ telem'[d] = telem[d] /\ lost'[d] = lost[d]
          /\ epoch'[d] = epoch[d] /\ in_epoch'[d] = in_epoch[d]
      BY <1>1, <1>9
    <2>3. Ledger(d)
      BY <1>3
    <2> QED
      BY <2>1, <2>2, <2>3, LedgerOfRelease
  <1>12. PathType'
    BY <1>1, <1>3, <1>9, <1>10, <1>11 DEF PathType
  <1>13. Progress'
    BY <1>1, <1>3 DEF Progress, Open, AtBoundary
  <1>14. LinkCounts'
    BY <1>1 DEF LinkCounts
  <1> QED
    BY <1>11, <1>12, <1>13, <1>14 DEF PathInductive

(* The end of an iteration: the counter of a domain that has closed its    *)
(* last epoch is cleared.                                                  *)
LEMMA CloseStatefulKeeps ==
    ASSUME PathInductive, CloseStateful
    PROVE  PathInductive'
  <1>1. /\ phase = "release" /\ phase' = "pull" /\ finished' = {}
        /\ in_epoch' = Clipped_bins([in_epoch EXCEPT !["stateful"] = 0], epoch')
        /\ UNCHANGED <<use_pcie_link, pipeline, rss, handoffs, generated, todo>>
    BY DEF CloseStateful
  <1>2. PICK n : Close("stateful", n)
    BY DEF CloseStateful
  <1>3. PathType /\ Progress /\ \A d \in Domains : DomainType(d) /\ Ledger(d)
    BY DEF PathInductive, PathType
  <1>4. /\ DOMAIN epoch' = Domains /\ DOMAIN telem' = Domains /\ DOMAIN lost' = Domains
        /\ DOMAIN telem = Domains /\ DOMAIN lost = Domains /\ DOMAIN epoch = Domains
        /\ DOMAIN in_epoch = Domains
    BY <1>2, <1>3 DEF PathType, Close
  <1>5. "stateless" \in Domains /\ "stateful" \in Domains
    BY TwoDomains
  <1>6. /\ DOMAIN in_epoch' = Domains /\ in_epoch'["stateful"] = 0
        /\ in_epoch'["stateless"] =
              IF epoch'["stateless"] >= NumEpochs["stateless"] THEN 0
              ELSE in_epoch["stateless"]
    BY <1>1, <1>4, <1>5 DEF Clipped_bins
  <1>7. /\ telem'["stateless"] = telem["stateless"] /\ lost'["stateless"] = lost["stateless"]
        /\ epoch'["stateless"] = epoch["stateless"]
    BY <1>2, <1>4, <1>5 DEF Close
  <1>8. DomainType("stateful")' /\ Ledger("stateful")'
    <2>1. DomainType("stateful") /\ rss'["stateful"] \in [Buckets["stateful"] -> Queues["stateful"]]
      BY <1>1, <1>3, <1>5 DEF DomainType
    <2>2. phase' \notin {"packets", "release"} /\ pipeline' = pipeline
          /\ generated' = generated
      BY <1>1
    <2> QED
      BY <1>2, <1>4, <1>5, <1>6, <2>1, <2>2, DomainClosed
  <1>9. in_epoch["stateless"] \in Nat /\ epoch["stateless"] \in Nat
        /\ NumEpochs["stateless"] \in Nat /\ EpochBins["stateless"] \in Nat \ {0}
        /\ EpochBins["stateful"] \in Nat \ {0}
    BY <1>3, <1>5, ShapeFields DEF DomainType
  <1>10. DomainType("stateless")'
    <2>1. DomainType("stateless")
      BY <1>3, <1>5
    <2>2. /\ rss'["stateless"] \in [Buckets["stateless"] -> Queues["stateless"]]
          /\ in_epoch'["stateless"] \in Nat /\ epoch'["stateless"] \in Nat
      BY <1>1, <1>6, <1>7, <1>9, <2>1 DEF DomainType
    <2> QED
      BY <1>1, <1>5, <1>7, <2>1, <2>2, DomainKept
  <1>11. Ledger("stateless")'
    <2>1. CASE Open("stateless")
      <3>1. in_epoch'["stateless"] = in_epoch["stateless"]
        BY <1>6, <1>7, <1>9, <2>1 DEF Open
      <3>2. /\ phase = "release" /\ phase' # "packets"
            /\ "stateless" = "stateful" \/ pipeline'["stateless"] = pipeline["stateless"]
            /\ "stateless" = "stateful" => phase' = "release"
        BY <1>1
      <3>3. Ledger("stateless")
        BY <1>3, <1>5
      <3> QED
        BY <1>5, <1>7, <3>1, <3>2, <3>3, LedgerOfRelease
    <2>2. CASE ~Open("stateless")
      BY <1>5, <1>7, <2>2, LedgerClosed
    <2> QED
      BY <2>1, <2>2
  <1>12. \A d \in Domains : DomainType(d)' /\ Ledger(d)'
    BY <1>8, <1>10, <1>11, TwoDomains
  <1>13. PathType'
    BY <1>1, <1>3, <1>4, <1>6, <1>12 DEF PathType
  <1>14. Progress'
    <2>1. in_epoch'["stateless"] < EpochBins["stateless"]
      BY <1>1, <1>3, <1>6, <1>7, <1>9 DEF Progress, Open
    <2>2. \A d \in Domains : in_epoch'[d] < EpochBins[d] /\ in_epoch'[d] <= EpochBins[d]
      BY <1>6, <1>9, <2>1, TwoDomains
    <2> QED
      BY <1>1, <2>2 DEF Progress
  <1>15. LinkCounts'
    BY <1>1 DEF LinkCounts
  <1> QED
    BY <1>12, <1>13, <1>14, <1>15 DEF PathInductive

(* No boundary of the stateful domain.                                     *)
LEMMA NoStatefulBoundaryKeeps ==
    ASSUME PathInductive, NoStatefulBoundary
    PROVE  PathInductive'
  <1>1. /\ phase = "stateful" /\ ~AtBoundary("stateful") /\ phase' = "pull"
        /\ in_epoch' = Clipped_bins(in_epoch, epoch)
        /\ UNCHANGED <<use_pcie_link, pipeline, rss, telem, lost, epoch,
                       handoffs, finished, generated, todo>>
    BY DEF NoStatefulBoundary
  <1>2. PathType /\ Progress /\ \A d \in Domains : DomainType(d) /\ Ledger(d)
    BY DEF PathInductive, PathType
  <1>3. DOMAIN in_epoch' = Domains
        /\ \A d \in Domains :
              in_epoch'[d] = IF epoch[d] >= NumEpochs[d] THEN 0 ELSE in_epoch[d]
    BY <1>1 DEF Clipped_bins
  <1>4. \A d \in Domains :
           /\ in_epoch[d] \in Nat /\ epoch[d] \in Nat
           /\ NumEpochs[d] \in Nat /\ EpochBins[d] \in Nat \ {0}
    BY <1>2, ShapeFields DEF DomainType
  <1>5. ASSUME NEW d \in Domains PROVE DomainType(d)' /\ Ledger(d)'
    <2>1. DomainType(d)'
      <3>1. in_epoch'[d] \in Nat /\ epoch'[d] \in Nat
            /\ rss'[d] \in [Buckets[d] -> Queues[d]]
        BY <1>1, <1>2, <1>3, <1>4 DEF DomainType
      <3> QED
        BY <1>1, <1>2, <3>1, DomainKept
    <2>2. CASE Open(d)
      <3>1. in_epoch'[d] = in_epoch[d]
        BY <1>3, <1>4, <2>2 DEF Open
      <3>2. /\ phase # "packets" /\ phase' # "packets" /\ phase # "release"
            /\ pipeline'[d] = pipeline[d] /\ telem'[d] = telem[d] /\ lost'[d] = lost[d]
            /\ epoch'[d] = epoch[d]
        BY <1>1
      <3> QED
        BY <1>2, <2>1, <3>1, <3>2, LedgerUntouched
    <2>3. CASE ~Open(d)
      BY <1>1, <2>1, <2>3, LedgerClosed
    <2> QED
      BY <2>2, <2>3
  <1>6. PathType'
    BY <1>1, <1>2, <1>3, <1>5 DEF PathType
  <1>7. Progress'
    <2>1. ASSUME NEW d \in Domains
          PROVE  in_epoch'[d] < EpochBins[d] /\ in_epoch'[d] <= EpochBins[d]
      <3>1. CASE ~Open(d)
        BY <1>3, <1>4, <3>1 DEF Open
      <3>2. CASE Open(d)
        <4>1. in_epoch[d] < EpochBins[d]
          BY <1>1, <1>2, <1>4, <3>2, TwoDomains DEF Progress, AtBoundary, Open
        <4> QED
          BY <1>3, <1>4, <4>1
      <3> QED
        BY <3>1, <3>2
    <2> QED
      BY <1>1, <2>1 DEF Progress
  <1>8. LinkCounts'
    BY <1>1 DEF LinkCounts
  <1> QED
    BY <1>5, <1>6, <1>7, <1>8 DEF PathInductive

(* Nothing changes.                                                        *)
LEMMA StutterKeeps ==
    ASSUME PathInductive, UNCHANGED allVars
    PROVE  PathInductive'
  <1>1. UNCHANGED <<use_pcie_link, pipeline, rss, telem, lost, in_epoch, epoch, stats,
                    handoffs, finished, generated, todo, phase>>
    BY DEF allVars, pathVars, vars
  <1>2. PathType /\ Progress /\ LinkCounts /\ \A d \in Domains : DomainType(d) /\ Ledger(d)
    BY DEF PathInductive, PathType
  <1>3. PathType'
    BY <1>1, <1>2 DEF PathType, DomainType
  <1>4. Progress'
    BY <1>1, <1>2 DEF Progress, AtBoundary, Open
  <1>5. LinkCounts'
    BY <1>1, <1>2 DEF LinkCounts, Counter
  <1>6. ASSUME NEW d \in Domains PROVE Ledger(d)'
    <2>1. Ledger(d)
      BY <1>2
    <2>2. Open(d)' = Open(d)
      BY <1>1 DEF Open
    <2>3. Descriptors(d)' = Descriptors(d)
      BY <1>1 DEF Descriptors
    <2>4. Balanced(d)' = Balanced(d)
      BY <1>1 DEF Balanced, OnTheWay, QueueOf, BucketsOf
    <2> QED
      BY <1>1, <2>1, <2>2, <2>3, <2>4 DEF Ledger
  <1> QED
    BY <1>3, <1>4, <1>5, <1>6 DEF PathInductive

-----------------------------------------------------------------------------
(* A domain has brought a batch of which S passes on, from place n of the  *)
(* merged stream.                                                          *)
Brought(d, batch, S, n) ==
    /\ batch \in Streams(d) /\ S \subseteq DOMAIN batch /\ n \in Int
    /\ generated'[d] = [b \in Buckets[d] |-> OfBucket(batch, DOMAIN batch, b)]
    /\ lost'[d] = [q \in Queues[d] |->
          LET more == Counted(batch, {i \in DOMAIN batch \ S : rss[d][batch[i].bucket] = q})
          IN  More(lost[d][q], more.pkts, more.bytes)]
    /\ {p \in todo' : p.domain = d} = Entries(d, batch, n, S)

(* What fits in a buffer is some of the load, and leaves it within its     *)
(* capacity.                                                               *)
LEMMA FittingBounds ==
    ASSUME NEW buffer \in Amount, NEW load \in Amount
    PROVE  /\ Fitting(buffer, load) \in Amount
           /\ Fitting(buffer, load).pkts <= load.pkts
           /\ buffer.bytes <= BufferCapacity
                 => buffer.bytes + Fitting(buffer, load).bytes <= BufferCapacity
  <1> DEFINE room == BufferCapacity - buffer.bytes
             added == Later(0, room)
             w == Later(1, load.bytes)
             n == load.pkts
             k == (n * added) \div w
  <1>1. /\ BufferCapacity \in Nat /\ n \in Nat
        /\ load.bytes \in Nat /\ buffer.bytes \in Nat
    BY DataPathAssumption DEF Amount
  <1>2. CASE load.bytes <= room
    <2>1. Fitting(buffer, load) = load
      BY <1>2 DEF Fitting
    <2> QED
      BY <1>1, <1>2, <2>1
  <1>3. CASE ~(load.bytes <= room)
    <2>1. Fitting(buffer, load) = [pkts |-> k, bytes |-> added]
      BY <1>3 DEF Fitting
    <2>2. /\ added \in Nat /\ w \in Nat \ {0} /\ added <= w
          /\ buffer.bytes <= BufferCapacity => buffer.bytes + added <= BufferCapacity
      BY <1>1, <1>3 DEF Later
    <2> HIDE DEF added, w, n
    <2>3. n * added <= n * w /\ n * added \in Nat /\ n * w \in Nat /\ n * w = w * n
      BY <1>1, <2>2, Times
    <2>4. (n * added) \div w <= (n * w) \div w
      BY <2>2, <2>3, DivMonotone
    <2>5. (n * w) \div w = n
      BY <1>1, <2>2, <2>3, DivTimes
    <2>6. k \in Nat
      BY <2>2, <2>3, DivMod
    <2>7. k <= n
      BY <2>4, <2>5
    <2> HIDE DEF k
    <2>8. /\ Fitting(buffer, load).pkts = k /\ Fitting(buffer, load).bytes = added
          /\ Fitting(buffer, load) \in Amount
      BY <2>1, <2>2, <2>6 DEF Amount
    <2> QED
      BY <2>2, <2>7, <2>8 DEF n
  <1> QED
    BY <1>2, <1>3

(* What a pull brings each domain.                                         *)
LEMMA PullBrings ==
    ASSUME Pull, PathType
    PROVE  /\ \A d \in Domains : \E batch, S, n : Brought(d, batch, S, n)
           /\ \A p \in todo' : p.domain \in Domains
           /\ DOMAIN generated' = Domains /\ DOMAIN lost' = Domains
           /\ DOMAIN handoffs' = DOMAIN handoffs
           /\ \A b \in DOMAIN handoffs : handoffs'[b] \in PendingHandoff
  <1>1. PICK sl \in Streams("stateless"), sf \in Streams("stateful") :
          \E bytes, sh :
          \E k_sl \in KeptOf(sh, "stateless", sl, bytes),
             k_sf \in KeptOf(sh, "stateful", sf, bytes) :
             Distribute(Pair(sl, sf), Pair(k_sl, k_sf))
    BY Zenon DEF Pull
  <1>2. PICK k_sl, k_sf :
          /\ k_sl \subseteq DOMAIN sl /\ k_sf \subseteq DOMAIN sf
          /\ Distribute(Pair(sl, sf), Pair(k_sl, k_sf))
    BY <1>1, KeptOfBatch, Zenon
  <1> DEFINE stream == Pair(sl, sf)
             kept == Pair(k_sl, k_sf)
             held == [d \in Domains |-> Withheld(d, stream[d], kept[d])]
             passed == [d \in Domains |-> kept[d] \ held[d]]
             offset == Pair(0, Len(sl))
  <1>3. /\ generated' = [d \in Domains |-> [b \in Buckets[d] |->
                            OfBucket(stream[d], DOMAIN stream[d], b)]]
        /\ handoffs' = [b \in DOMAIN handoffs |->
              LET more == Fitting(handoffs[b].buffer,
                              OfBucket(stream["stateful"], held["stateful"], b))
              IN  [handoffs[b] EXCEPT !.buffer = More(@, more.pkts, more.bytes)]]
        /\ lost' = [d \in Domains |-> [q \in Queues[d] |->
              LET more == Counted(stream[d], {i \in DOMAIN stream[d] \ passed[d] :
                            rss[d][stream[d][i].bucket] = q})
              IN  More(lost[d][q], more.pkts, more.bytes)]]
        /\ todo' = Merged(stream, passed)
    BY <1>2, Zenon DEF Distribute
  <1>4. "stateless" \in Domains /\ "stateful" \in Domains /\ "stateless" # "stateful"
    BY TwoDomains
  <1>5. /\ stream["stateless"] = sl /\ stream["stateful"] = sf
        /\ kept["stateless"] = k_sl /\ kept["stateful"] = k_sf
        /\ offset["stateless"] = 0 /\ offset["stateful"] = Len(sl)
    BY DEF Pair
  <1>6. /\ passed["stateless"] \subseteq k_sl /\ passed["stateful"] \subseteq k_sf
        /\ held["stateful"] \subseteq k_sf
    BY <1>4, <1>5 DEF Withheld
  <1>7. \A d \in Domains : /\ stream[d] \in Streams(d) /\ passed[d] \subseteq DOMAIN stream[d]
                           /\ offset[d] \in Int
    <2>1. Len(sl) \in Int
      BY <1>4, BatchType
    <2> HIDE DEF stream, passed, offset
    <2> QED
      BY <1>2, <1>5, <1>6, <2>1, TwoDomains
  <1> HIDE DEF stream, passed, offset, kept, held
  <1>8. todo' = {Entry("stateless", stream["stateless"], offset["stateless"], i) :
                    i \in passed["stateless"]} \cup
                {Entry("stateful", stream["stateful"], offset["stateful"], i) :
                    i \in passed["stateful"]}
    BY <1>3, <1>5 DEF Merged
  <1>9. \A d, batch, n, i : Entry(d, batch, n, i).domain = d
    BY DEF Entry
  <1>10. ASSUME NEW d \in Domains PROVE Brought(d, stream[d], passed[d], offset[d])
    <2>1. generated'[d] = [b \in Buckets[d] |-> OfBucket(stream[d], DOMAIN stream[d], b)]
      BY <1>3
    <2>2. lost'[d] = [q \in Queues[d] |->
              LET more == Counted(stream[d], {i \in DOMAIN stream[d] \ passed[d] :
                            rss[d][stream[d][i].bucket] = q})
              IN  More(lost[d][q], more.pkts, more.bytes)]
      BY <1>3
    <2>3. {p \in todo' : p.domain = d} = Entries(d, stream[d], offset[d], passed[d])
      <3>1. CASE d = "stateless"
        BY <1>4, <1>8, <1>9, <3>1 DEF Entries
      <3>2. CASE d = "stateful"
        BY <1>4, <1>8, <1>9, <3>2 DEF Entries
      <3> QED
        BY <3>1, <3>2, TwoDomains
    <2> QED
      BY <1>7, <2>1, <2>2, <2>3 DEF Brought
  <1>11. \A p \in todo' : p.domain \in Domains
    BY <1>4, <1>8, <1>9
  <1>12. ASSUME NEW b \in DOMAIN handoffs PROVE handoffs'[b] \in PendingHandoff
    <2> DEFINE load == OfBucket(stream["stateful"], held["stateful"], b)
               more == Fitting(handoffs[b].buffer, load)
    <2>1. handoffs'[b] = [handoffs[b] EXCEPT !.buffer = More(@, more.pkts, more.bytes)]
      BY <1>3
    <2>2. load \in Amount
      <3> DEFINE S == {i \in held["stateful"] : stream["stateful"][i].bucket = b}
      <3>1. Sized(sf, DOMAIN sf) /\ S \in SUBSET DOMAIN sf
        BY <1>2, <1>4, <1>6, BatchType
      <3>2. load = Counted(sf, S)
        BY <1>5 DEF OfBucket
      <3> HIDE DEF S, load
      <3> QED
        BY <3>1, <3>2, SizedSubset, CountedType
    <2>3. handoffs[b] \in [q_dst : Queues["stateful"], buffer : Amount]
      BY DEF PathType, PendingHandoff
    <2> HIDE DEF load
    <2>4. More(handoffs[b].buffer, more.pkts, more.bytes) \in Amount
      <3>1. handoffs[b].buffer \in Amount
        BY <2>3
      <3>2. more \in Amount
        BY <2>2, <3>1, FittingBounds
      <3> HIDE DEF more
      <3>3. more.pkts \in Nat /\ more.bytes \in Nat
        BY <3>2 DEF Amount
      <3> QED
        BY <3>1, <3>3, MoreFields
    <2> HIDE DEF more
    <2> QED
      BY <2>1, <2>3, <2>4 DEF PendingHandoff
  <1>13. DOMAIN generated' = Domains /\ DOMAIN lost' = Domains
         /\ DOMAIN handoffs' = DOMAIN handoffs
    BY <1>3
  <1> QED
    BY <1>10, <1>11, <1>12, <1>13

(* What a batch brings for a queue passes on or is lost.                   *)
LEMMA BroughtType ==
    ASSUME NEW d \in Domains, DomainType(d), NEW batch, NEW S, NEW n, Brought(d, batch, S, n)
    PROVE  /\ generated'[d] \in [Buckets[d] -> Amount]
           /\ lost'[d] \in [Queues[d] -> Amount]
           /\ IsFiniteSet({p \in todo' : p.domain = d})
           /\ \A p \in todo' : p.domain = d => p.bucket \in Buckets[d] /\ p.size \in Nat
  <1>1. /\ batch \in Streams(d) /\ S \subseteq DOMAIN batch /\ n \in Int
        /\ generated'[d] = [b \in Buckets[d] |-> OfBucket(batch, DOMAIN batch, b)]
        /\ lost'[d] = [q \in Queues[d] |->
              LET more == Counted(batch, {i \in DOMAIN batch \ S : rss[d][batch[i].bucket] = q})
              IN  More(lost[d][q], more.pkts, more.bytes)]
        /\ {p \in todo' : p.domain = d} = Entries(d, batch, n, S)
    BY DEF Brought
  <1>2. /\ Sized(batch, DOMAIN batch) /\ DOMAIN batch \subseteq Int
        /\ \A i \in DOMAIN batch : batch[i].bucket \in Buckets[d] /\ batch[i].size \in Sizes
    BY <1>1, BatchType
  <1>3. \A T \in SUBSET DOMAIN batch : Sized(batch, T) /\ Counted(batch, T) \in Amount
    BY <1>2, SizedSubset, CountedType
  <1>4. \A b \in Buckets[d] : OfBucket(batch, DOMAIN batch, b) \in Amount
    BY <1>3 DEF OfBucket
  <1>5. ASSUME NEW q \in Queues[d] PROVE lost'[d][q] \in Amount
    <2> DEFINE M == {i \in DOMAIN batch \ S : rss[d][batch[i].bucket] = q}
    <2>1. Counted(batch, M) \in Amount
      BY <1>3
    <2>2. lost'[d][q] = More(lost[d][q], Counted(batch, M).pkts, Counted(batch, M).bytes)
      BY <1>1
    <2>3. lost[d][q] \in Amount
      BY DEF DomainType
    <2> HIDE DEF M
    <2>4. Counted(batch, M).pkts \in Nat /\ Counted(batch, M).bytes \in Nat
      BY <2>1 DEF Amount
    <2> QED
      BY <2>2, <2>3, <2>4, MoreFields
  <1>6. IsFiniteSet(Entries(d, batch, n, S))
    <2>1. Indexed(batch, S) /\ "pkts" \in Fields
      BY <1>1, <1>2, <1>3 DEF Fields, Indexed
    <2> QED
      BY <1>1, <2>1, EntriesCounted
  <1>7. \A i \in S : Entry(d, batch, n, i).bucket \in Buckets[d]
                     /\ Entry(d, batch, n, i).size \in Nat
    BY <1>1, <1>2 DEF Entry, Sized
  <1>8. DOMAIN lost'[d] = Queues[d] /\ lost'[d] = [q \in Queues[d] |-> lost'[d][q]]
    BY <1>1
  <1>9. lost'[d] \in [Queues[d] -> Amount]
    BY <1>5, <1>8
  <1>10. generated'[d] \in [Buckets[d] -> Amount]
    BY <1>1, <1>4
  <1>11. \A p \in todo' : p.domain = d => p.bucket \in Buckets[d] /\ p.size \in Nat
    <2> SUFFICES ASSUME NEW p \in todo', p.domain = d
                 PROVE  p.bucket \in Buckets[d] /\ p.size \in Nat
      OBVIOUS
    <2>1. PICK i \in S : p = Entry(d, batch, n, i)
      BY <1>1 DEF Entries
    <2> QED
      BY <1>7, <2>1
  <1> QED
    BY <1>1, <1>6, <1>9, <1>10, <1>11

(* What a domain generates is on its way or lost, queue by queue.          *)
LEMMA BroughtBalanced ==
    ASSUME NEW d \in Domains, DomainType(d), NEW batch, NEW S, NEW n, Brought(d, batch, S, n),
           NEW q \in Queues[d], NEW y \in Fields
    PROVE  Total(generated'[d], BucketsOf(d, q))[y] + lost[d][q][y]
              = AmountOf({p \in todo' : p.domain = d /\ rss[d][p.bucket] = q})[y]
                + lost'[d][q][y]
  <1> DEFINE B == BucketsOf(d, q)
             mine == {i \in DOMAIN batch : rss[d][batch[i].bucket] = q}
             M == {i \in DOMAIN batch \ S : rss[d][batch[i].bucket] = q}
             P == {i \in S : rss[d][batch[i].bucket] = q}
  <1>1. /\ batch \in Streams(d) /\ S \subseteq DOMAIN batch /\ n \in Int
        /\ generated'[d] = [b \in Buckets[d] |-> OfBucket(batch, DOMAIN batch, b)]
        /\ lost'[d][q] = More(lost[d][q], Counted(batch, M).pkts, Counted(batch, M).bytes)
        /\ {p \in todo' : p.domain = d} = Entries(d, batch, n, S)
    BY DEF Brought
  <1>2. /\ Sized(batch, DOMAIN batch) /\ DOMAIN batch \subseteq Int
        /\ \A i \in DOMAIN batch : batch[i].bucket \in Buckets[d]
    BY <1>1, BatchType
  <1>3. /\ mine = M \cup P /\ M \cap P = {}
        /\ M \in SUBSET DOMAIN batch /\ P \in SUBSET DOMAIN batch
    BY <1>1
  <1>4. mine = OfBuckets(batch, DOMAIN batch, B)
    BY <1>2 DEF OfBuckets, BucketsOf
  <1> DEFINE E == {p \in todo' : p.domain = d /\ rss[d][p.bucket] = q}
  <1>5. E = Entries(d, batch, n, P)
    <2>1. \A i \in S : Entry(d, batch, n, i).bucket = batch[i].bucket
      BY DEF Entry
    <2>2. E = {p \in {r \in todo' : r.domain = d} : rss[d][p.bucket] = q}
      OBVIOUS
    <2>3. {p \in Entries(d, batch, n, S) : rss[d][p.bucket] = q} = Entries(d, batch, n, P)
      BY <2>1 DEF Entries
    <2> QED
      BY <1>1, <2>2, <2>3
  <1>6. \A b \in B : generated'[d][b] = OfBucket(batch, DOMAIN batch, b)
    BY <1>1 DEF BucketsOf
  <1>7. IsFiniteSet(B)
    <2>1. IsFiniteSet(Buckets[d]) /\ B \subseteq Buckets[d]
      BY ShapeFields DEF BucketsOf
    <2> QED
      BY <2>1, FS_Subset
  <1>8. lost[d][q] \in Amount
    BY DEF DomainType
  <1> HIDE DEF M, P, mine, B, E
  <1>9. Total(generated'[d], B)[y] = Counted(batch, mine)[y]
    BY <1>2, <1>4, <1>6, <1>7, CountedByBucket
  <1>10. Sized(batch, M) /\ Sized(batch, P) /\ P \subseteq Int
    BY <1>2, <1>3, SizedSubset
  <1>11. Counted(batch, mine)[y] = Counted(batch, M)[y] + Counted(batch, P)[y]
    BY <1>3, <1>10, CountedUnion
  <1>12. AmountOf(Entries(d, batch, n, P))[y] = Counted(batch, P)[y]
    <2>1. n \in Int
      BY <1>1
    <2>2. Indexed(batch, P)
      BY <1>10 DEF Indexed
    <2> QED
      BY <2>1, <2>2, EntriesCounted
  <1>13. Counted(batch, M) \in Amount /\ Counted(batch, P) \in Amount
    BY <1>10, CountedType
  <1>14. lost'[d][q][y] = lost[d][q][y] + Counted(batch, M)[y]
    <2>1. Counted(batch, M).pkts \in Nat /\ Counted(batch, M).bytes \in Nat
      BY <1>13 DEF Amount
    <2> DEFINE x == lost[d][q]
               c == Counted(batch, M)
    <2>2. x \in Amount /\ c.pkts \in Nat /\ c.bytes \in Nat
      BY <1>8, <2>1
    <2>3. lost'[d][q] = More(x, c.pkts, c.bytes)
      BY <1>1
    <2> HIDE DEF x, c
    <2>4. /\ More(x, c.pkts, c.bytes)["pkts"] = x["pkts"] + c["pkts"]
          /\ More(x, c.pkts, c.bytes)["bytes"] = x["bytes"] + c["bytes"]
      BY <2>2, MoreFields
    <2>5. /\ lost'[d][q]["pkts"] = lost[d][q]["pkts"] + Counted(batch, M)["pkts"]
          /\ lost'[d][q]["bytes"] = lost[d][q]["bytes"] + Counted(batch, M)["bytes"]
      BY <2>3, <2>4 DEF x, c
    <2> QED
      BY <2>5 DEF Fields
  <1>15. lost[d][q][y] \in Nat /\ Counted(batch, M)[y] \in Nat /\ Counted(batch, P)[y] \in Nat
    BY <1>8, <1>13, AmountFields
  <1>16. Total(generated'[d], B)[y] + lost[d][q][y] = AmountOf(E)[y] + lost'[d][q][y]
    <2> DEFINE g == Total(generated'[d], B)[y]
               l == lost[d][q][y]
               m == lost'[d][q][y]
               a == AmountOf(E)[y]
    <2>1. /\ g = Counted(batch, M)[y] + Counted(batch, P)[y]
          /\ a = Counted(batch, P)[y] /\ m = l + Counted(batch, M)[y]
      BY <1>5, <1>9, <1>11, <1>12, <1>14
    <2> HIDE DEF g, l, m, a
    <2>2. l \in Nat
      BY <1>15 DEF l
    <2>3. g + l = a + m
      BY <1>15, <2>1, <2>2
    <2> QED
      BY <2>3 DEF g, l, m, a
  <1> QED
    BY <1>16 DEF B, E

-----------------------------------------------------------------------------
(* The counters of a bin that starts are those of the link: none.          *)
LEMMA CounterZero ==
    ASSUME NEW d \in Domains, NEW name,
           \A q \in Queues[d] : pipeline'[d][q].stats[name] = Nothing
    PROVE  Counter(d, name)' = 0
  <1> DEFINE F == [q \in Queues[d] |-> pipeline'[d][q].stats[name]]
  <1>1. IsFiniteSet(Queues[d]) /\ "pkts" \in Fields
    BY ShapeFields DEF Fields
  <1>2. \A q \in Queues[d] : F[q] = Nothing
    OBVIOUS
  <1>3. Counter(d, name)' = Total(F, Queues[d]).pkts
    BY DEF Counter
  <1> HIDE DEF F
  <1>4. Total(F, Queues[d])["pkts"] = 0
    BY <1>1, <1>2, TotalZero
  <1> QED
    BY <1>3, <1>4

(* A bin is pulled.                                                        *)
LEMMA PullKeeps ==
    ASSUME PathInductive, Pull
    PROVE  PathInductive'
  <1>1. /\ phase = "pull" /\ phase' = "packets"
        /\ pipeline' = reset_bin_queues
        /\ IF use_pcie_link THEN reset_bin_stats ELSE UNCHANGED vars
        /\ UNCHANGED <<use_pcie_link, rss, telem, log, finished, t_start, in_epoch, epoch>>
    BY DEF Pull
  <1>2. PathType /\ Progress /\ \A d \in Domains : DomainType(d) /\ Ledger(d)
    BY DEF PathInductive, PathType
  <1>3. /\ \A d \in Domains : \E batch, S, n : Brought(d, batch, S, n)
        /\ \A p \in todo' : p.domain \in Domains
        /\ DOMAIN generated' = Domains /\ DOMAIN lost' = Domains
        /\ DOMAIN handoffs' = DOMAIN handoffs
        /\ \A b \in DOMAIN handoffs : handoffs'[b] \in PendingHandoff
    BY <1>2, PullBrings
  <1>4. /\ DOMAIN pipeline' = Domains
        /\ \A d \in Domains :
              /\ DOMAIN pipeline'[d] = Queues[d]
              /\ \A q \in Queues[d] :
                    /\ QueueType(d, pipeline'[d][q])
                    /\ pipeline'[d][q].stats = NoCounts
                    /\ pipeline'[d][q].credits = pipeline[d][q].credits
    <2>1. /\ DOMAIN pipeline' = Domains
          /\ \A d \in Domains :
                /\ DOMAIN pipeline'[d] = Queues[d]
                /\ \A q \in Queues[d] :
                      pipeline'[d][q] = [pipeline[d][q] EXCEPT !.stats = NoCounts]
      BY <1>1 DEF reset_bin_queues
    <2>2. ASSUME NEW d \in Domains, NEW q \in Queues[d]
          PROVE  /\ QueueType(d, pipeline'[d][q])
                 /\ pipeline'[d][q].stats = NoCounts
                 /\ pipeline'[d][q].credits = pipeline[d][q].credits
      <3>1. QueueType(d, pipeline[d][q]) /\ StatsType(NoCounts)
        BY <1>2, NoCountsType DEF DomainType
      <3>2. pipeline'[d][q] = [pipeline[d][q] EXCEPT !.stats = NoCounts]
        BY <2>1
      <3> DEFINE x == pipeline[d][q]
                 a == pipeline'[d][q]
      <3>3. QueueType(d, x) /\ a = [x EXCEPT !.stats = NoCounts]
        BY <3>1, <3>2
      <3> HIDE DEF x, a
      <3>4. /\ DOMAIN a = DOMAIN x /\ a.stats = NoCounts /\ a.credits = x.credits
            /\ a.heap = x.heap
        BY <3>3 DEF QueueType
      <3>5. QueueType(d, a)
        BY <3>1, <3>3, <3>4 DEF QueueType
      <3> QED
        BY <3>4, <3>5 DEF x, a
    <2> QED
      BY <2>1, <2>2
  <1>5. ASSUME NEW d \in Domains
        PROVE  /\ DomainType(d)'
               /\ IsFiniteSet({p \in todo' : p.domain = d})
               /\ \A p \in todo' : p.domain = d => p.bucket \in Buckets[d] /\ p.size \in Nat
               /\ \A q \in Queues[d] : \A y \in Fields :
                     Total(generated'[d], BucketsOf(d, q))[y] + lost[d][q][y]
                        = AmountOf({p \in todo' : p.domain = d /\ rss[d][p.bucket] = q})[y]
                          + lost'[d][q][y]
    <2>1. PICK batch, S, n : Brought(d, batch, S, n)
      BY <1>3
    <2>2. DomainType(d)
      BY <1>2
    <2>3. /\ generated'[d] \in [Buckets[d] -> Amount]
          /\ lost'[d] \in [Queues[d] -> Amount]
          /\ IsFiniteSet({p \in todo' : p.domain = d})
          /\ \A p \in todo' : p.domain = d => p.bucket \in Buckets[d] /\ p.size \in Nat
      BY <2>1, <2>2, BroughtType
    <2>4. \A q \in Queues[d] : \A y \in Fields :
                     Total(generated'[d], BucketsOf(d, q))[y] + lost[d][q][y]
                        = AmountOf({p \in todo' : p.domain = d /\ rss[d][p.bucket] = q})[y]
                          + lost'[d][q][y]
      BY <2>1, <2>2, BroughtBalanced
    <2>5. DomainType(d)'
      BY <1>1, <1>4, <2>2, <2>3 DEF DomainType
    <2> QED
      BY <2>3, <2>4, <2>5
  <1>6. PathType'
    <2>1. IsFiniteSet(todo')
      <3> DEFINE A == {p \in todo' : p.domain = "stateless"}
                 B == {p \in todo' : p.domain = "stateful"}
      <3>1. todo' = A \cup B
        BY <1>3, TwoDomains
      <3>2. IsFiniteSet(A) /\ IsFiniteSet(B)
        BY <1>5, TwoDomains
      <3> HIDE DEF A, B
      <3> QED
        BY <3>1, <3>2, FS_Union
    <2>2. \A p \in todo' : p.domain \in Domains /\ p.bucket \in Buckets[p.domain]
                           /\ p.size \in Nat
      BY <1>3, <1>5
    <2>3. /\ DOMAIN in_epoch' = Domains /\ DOMAIN epoch' = Domains /\ DOMAIN rss' = Domains
          /\ DOMAIN telem' = Domains /\ DOMAIN handoffs' \subseteq Buckets["stateful"]
          /\ \A b \in DOMAIN handoffs' : handoffs'[b] \in PendingHandoff
          /\ finished' \subseteq FinishedHandoff
      BY <1>1, <1>2, <1>3 DEF PathType
    <2> QED
      BY <1>1, <1>3, <1>4, <1>5, <2>1, <2>2, <2>3 DEF PathType
  <1>7. Progress'
    BY <1>1, <1>2 DEF Progress
  <1>8. LinkCounts'
    <2> SUFFICES ASSUME use_pcie_link
                 PROVE  /\ stats'.accepted_pkts = Both([d \in Domains |-> Counter(d, "adm")'])
                        /\ \A d \in Domains : stats'.by_domain[d] = Counter(d, "pcie_drop")'
      BY <1>1 DEF LinkCounts
    <2>1. stats' = NoStats
      BY <1>1 DEF reset_bin_stats
    <2>2. ASSUME NEW d \in Domains PROVE Counter(d, "adm")' = 0 /\ Counter(d, "pcie_drop")' = 0
      <3>1. \A q \in Queues[d] : pipeline'[d][q].stats["adm"] = Nothing
        BY <1>4, NoCountsType
      <3>2. \A q \in Queues[d] : pipeline'[d][q].stats["pcie_drop"] = Nothing
        BY <1>4, NoCountsType
      <3> QED
        BY <3>1, <3>2, CounterZero
    <2>3. Both([d \in Domains |-> Counter(d, "adm")']) = 0
      <3> DEFINE F == [d \in Domains |-> Counter(d, "adm")']
      <3>1. F["stateless"] = 0 /\ F["stateful"] = 0
        BY <2>2, TwoDomains
      <3> HIDE DEF F
      <3> QED
        BY <3>1 DEF Both, F
    <2>4. NoStats.accepted_pkts = 0 /\ \A d \in Domains : NoStats.by_domain[d] = 0
      BY DEF NoStats
    <2> QED
      BY <2>1, <2>2, <2>3, <2>4
  <1>9. ASSUME NEW d \in Domains PROVE Ledger(d)'
    <2> SUFFICES ASSUME Open(d)'
                 PROVE  /\ Unrecorded(d, telem[d], in_epoch[d])'
                        /\ Connected(d, telem[d], in_epoch[d])'
                        /\ Sampled(d, telem[d])'
                        /\ Descriptors(d)' /\ Balanced(d)'
      BY DEF Ledger
    <2>1. Open(d)
      BY <1>1 DEF Open
    <2>2. /\ Unrecorded(d, telem[d], in_epoch[d]) /\ Connected(d, telem[d], in_epoch[d])
          /\ Sampled(d, telem[d]) /\ Descriptors(d) /\ Balanced(d)
      BY <1>2, <2>1 DEF Ledger
    <2>3. /\ Unrecorded(d, telem[d], in_epoch[d])'
          /\ Connected(d, telem[d], in_epoch[d])'
          /\ Sampled(d, telem[d])'
      BY <1>1, <2>2
    <2>4. Descriptors(d)'
      <3> SUFFICES ASSUME NEW q \in Queues[d]
                   PROVE  pipeline'[d][q].credits =
                             telem'[d].V[in_epoch'[d]][q] + pipeline'[d][q].stats.returned
                                - pipeline'[d][q].stats.adm.pkts
        BY <1>1 DEF Descriptors
      <3>1. pipeline[d][q].credits = telem[d].V[in_epoch[d]][q]
        BY <1>1, <2>2 DEF Descriptors
      <3>2. pipeline'[d][q].stats.returned = 0 /\ pipeline'[d][q].stats.adm.pkts = 0
        BY <1>4, NoCountsType DEF Nothing
      <3>3. pipeline[d][q].credits \in Int
        BY <1>2, RingDepth DEF DomainType, QueueType
      <3>4. pipeline'[d][q].credits = pipeline[d][q].credits
            /\ telem'[d].V[in_epoch'[d]][q] = telem[d].V[in_epoch[d]][q]
        BY <1>1, <1>4
      <3> QED
        BY <3>1, <3>2, <3>3, <3>4
    <2>5. Balanced(d)'
      <3> SUFFICES ASSUME NEW q \in Queues[d], NEW y \in Fields
                   PROVE  Recorded(d, telem'[d], "gen", q, y)
                             + Total(generated'[d], BucketsOf(d, q)')[y]
                = Recorded(d, telem'[d], "adm", q, y) + pipeline'[d][q].stats.adm[y]
                  + Recorded(d, telem'[d], "drop", q, y) + pipeline'[d][q].stats.drop[y]
                  + AmountOf(OnTheWay(d, q)')[y] + lost'[d][q][y]
        BY <1>1 DEF Balanced
      <3> DEFINE g == Recorded(d, telem[d], "gen", q, y)
                 a == Recorded(d, telem[d], "adm", q, y)
                 r == Recorded(d, telem[d], "drop", q, y)
                 l == lost[d][q][y]
                 m == lost'[d][q][y]
                 E == {p \in todo' : p.domain = d /\ rss[d][p.bucket] = q}
                 w == AmountOf(E)[y]
                 t == Total(generated'[d], BucketsOf(d, q))[y]
      <3>1. g = a + r + l
        BY <1>1, <2>2 DEF Balanced
      <3>2. t + l = w + m
        BY <1>5
      <3>3. /\ telem'[d] = telem[d] /\ BucketsOf(d, q)' = BucketsOf(d, q)
            /\ OnTheWay(d, q)' = E
        BY <1>1 DEF BucketsOf, OnTheWay, QueueOf
      <3>4. pipeline'[d][q].stats.adm[y] = 0 /\ pipeline'[d][q].stats.drop[y] = 0
        BY <1>4, NoCountsType, NothingFields
      <3>5. a \in Nat /\ r \in Nat /\ g \in Nat
        BY <1>2, RecordedType DEF DomainType
      <3>6. l \in Nat /\ m \in Nat
        <4>1. lost[d][q] \in Amount /\ lost'[d][q] \in Amount
          BY <1>2, <1>5 DEF DomainType
        <4> QED
          BY <4>1, AmountFields
      <3>7. w \in Nat
        <4>1. E \subseteq {p \in todo' : p.domain = d} /\ \A p \in E : p.size \in Nat
          BY <1>5
        <4>2. IsFiniteSet(E)
          BY <1>5, <4>1, FS_Subset
        <4> HIDE DEF E
        <4> QED
          BY <4>1, <4>2, AmountOfType, AmountFields
      <3>8. t \in Nat
        <4>1. BucketsOf(d, q) \subseteq Buckets[d] /\ IsFiniteSet(Buckets[d])
          BY ShapeFields DEF BucketsOf
        <4>2. \A b \in BucketsOf(d, q) : generated'[d][b] \in Amount
          BY <1>5, <4>1 DEF DomainType
        <4>3. IsFiniteSet(BucketsOf(d, q))
          BY <4>1, FS_Subset
        <4>4. Total(generated'[d], BucketsOf(d, q)) \in Amount
          BY <4>2, <4>3, TotalType
        <4> QED
          BY <4>4, AmountFields
      <3> HIDE DEF g, a, r, l, m, E, w, t
      <3>9. g + t = a + 0 + r + 0 + w + m
        BY <3>1, <3>2, <3>5, <3>6, <3>7, <3>8
      <3> QED
        BY <3>3, <3>4, <3>9 DEF g, a, r, m, w, t
    <2> QED
      BY <2>3, <2>4, <2>5
  <1>10. \A d \in Domains : DomainType(d)'
    BY <1>5
  <1> QED
    BY <1>6, <1>7, <1>8, <1>9 DEF PathInductive

-----------------------------------------------------------------------------
(* The row of a bin that ends adds to the sums of its epoch.               *)
LEMMA BinAdded ==
    ASSUME NEW d \in Domains, NEW x, TelemetryType(d, x), NEW a, TelemetryType(d, a),
           NEW k \in 0..(EpochBins[d] - 1), NEW name \in {"gen", "adm", "drop"},
           NEW q \in Queues[d], x[name][k][q] = Nothing,
           \A j \in 0..(EpochBins[d] - 1) : j # k => a[name][j] = x[name][j],
           NEW y \in Fields
    PROVE  Recorded(d, a, name, q, y) = Recorded(d, x, name, q, y) + a[name][k][q][y]
  <1> DEFINE f == x[name]
             g == a[name]
  <1>1. f \in Cells(d) /\ g \in Cells(d)
    BY DEF TelemetryType
  <1>2. f[k][q] = Nothing /\ \A j \in 0..(EpochBins[d] - 1) : j # k => g[j] = f[j]
    OBVIOUS
  <1> HIDE DEF f, g
  <1>3. EpochTotal(Shape(d), g, q)[y] = EpochTotal(Shape(d), f, q)[y] + g[k][q][y]
    BY <1>1, <1>2, EpochTotalRecorded
  <1> QED
    BY <1>3 DEF Recorded, f, g

(* No queue of a domain counts anything.                                   *)
LEMMA CounterSame ==
    ASSUME NEW d \in Domains, NEW name,
           \A q \in Queues[d] : pipeline'[d][q].stats[name] = pipeline[d][q].stats[name]
    PROVE  Counter(d, name)' = Counter(d, name)
  <1>1. [q \in Queues[d] |-> pipeline'[d][q].stats[name]]
           = [q \in Queues[d] |-> pipeline[d][q].stats[name]]
    OBVIOUS
  <1> QED
    BY <1>1 DEF Counter

(* What the end of a bin does to a domain.                                 *)
Ended(d) ==
    /\ DOMAIN pipeline'[d] = Queues[d]
    /\ \A q \in Queues[d] :
          /\ QueueType(d, pipeline'[d][q])
          /\ pipeline'[d][q].stats.adm = pipeline[d][q].stats.adm
          /\ pipeline'[d][q].stats.drop = pipeline[d][q].stats.drop
          /\ pipeline'[d][q].stats.pcie_drop = pipeline[d][q].stats.pcie_drop
          /\ pipeline'[d][q].credits = pipeline[d][q].credits
                + pipeline'[d][q].stats.returned - pipeline[d][q].stats.returned
    /\ TelemetryType(d, telem'[d])
    /\ \A q \in Queues[d] :
          LET k == in_epoch[d]
          IN  /\ telem'[d].gen[k][q] = Total(generated[d], BucketsOf(d, q))
              /\ telem'[d].adm[k][q] = pipeline'[d][q].stats.adm
              /\ telem'[d].drop[k][q] = pipeline'[d][q].stats.drop
              /\ telem'[d].K[k][q] = pipeline'[d][q].stats.returned
              /\ telem'[d].V[k + 1][q] = pipeline'[d][q].credits
    /\ \A j \in 0..(EpochBins[d] - 1) : j # in_epoch[d] =>
          /\ telem'[d].gen[j] = telem[d].gen[j] /\ telem'[d].adm[j] = telem[d].adm[j]
          /\ telem'[d].drop[j] = telem[d].drop[j] /\ telem'[d].K[j] = telem[d].K[j]
    /\ \A j \in 0..EpochBins[d] : j # in_epoch[d] + 1 => telem'[d].V[j] = telem[d].V[j]
    /\ Len(telem'[d].latency_samples) = Len(telem[d].latency_samples)
          + Total([q \in Queues[d] |-> telem'[d].adm[in_epoch[d]][q]], Queues[d]).pkts

(* The end of a bin, domain by domain.                                     *)
LEMMA EndBinEnds ==
    ASSUME PathType, Progress, EndBin, NEW d \in Domains
    PROVE  Ended(d)
  <1>1. /\ pipeline' = [e \in Domains |-> [q \in Queues[e] |->
             LET a == advanced(e, pipeline[e][q], t_end)
             IN  [a EXCEPT !.row = a.stats]]]
        /\ telem' = [e \in Domains |->
             record_bin(Shape(e), telem[e], in_epoch[e], generated[e], rss[e],
                        [q \in Queues[e] |-> pipeline'[e][q].stats],
                        [q \in Queues[e] |-> pipeline'[e][q].credits])]
        /\ phase = "packets"
    BY DEF EndBin
  <1>2. DomainType(d)
    BY DEF PathType
  <1>3. DOMAIN pipeline'[d] = Queues[d]
    BY <1>1
  <1>4. ASSUME NEW q \in Queues[d]
        PROVE  /\ QueueType(d, pipeline'[d][q])
               /\ pipeline'[d][q].stats.adm = pipeline[d][q].stats.adm
               /\ pipeline'[d][q].stats.drop = pipeline[d][q].stats.drop
               /\ pipeline'[d][q].stats.pcie_drop = pipeline[d][q].stats.pcie_drop
               /\ pipeline'[d][q].credits = pipeline[d][q].credits
                     + pipeline'[d][q].stats.returned - pipeline[d][q].stats.returned
    <2> DEFINE x == pipeline[d][q]
               a == advanced(d, x, t_end)
               b == pipeline'[d][q]
    <2>1. QueueType(d, x)
      BY <1>2 DEF DomainType
    <2>2. b = [a EXCEPT !.row = a.stats]
      BY <1>1
    <2> HIDE DEF x, b
    <2>3. /\ QueueType(d, a)
          /\ a.stats.adm = x.stats.adm /\ a.stats.drop = x.stats.drop
          /\ a.stats.pcie_drop = x.stats.pcie_drop
          /\ a.credits = x.credits + a.stats.returned - x.stats.returned
      BY <2>1, Advanced
    <2> HIDE DEF a
    <2>4. /\ DOMAIN b = DOMAIN a /\ b.stats = a.stats /\ b.credits = a.credits
          /\ b.heap = a.heap
      BY <2>2, <2>3 DEF QueueType
    <2>5. QueueType(d, b)
      BY <2>3, <2>4 DEF QueueType
    <2>6. b.credits = x.credits + b.stats.returned - x.stats.returned
      BY <2>3, <2>4
    <2>7. /\ b.stats.adm = x.stats.adm /\ b.stats.drop = x.stats.drop
          /\ b.stats.pcie_drop = x.stats.pcie_drop
      BY <2>3, <2>4
    <2> QED
      BY <2>5, <2>6, <2>7 DEF x, b
  <1> DEFINE row == [q \in Queues[d] |-> pipeline'[d][q].stats]
             V == [q \in Queues[d] |-> pipeline'[d][q].credits]
             k == in_epoch[d]
  <1>5. telem'[d] = record_bin(Shape(d), telem[d], k, generated[d], rss[d], row, V)
    BY <1>1
  <1>6. /\ \A q \in Queues[d] : /\ row[q] = pipeline'[d][q].stats
                                /\ V[q] = pipeline'[d][q].credits
                                /\ StatsType(row[q])
        /\ V \in [Queues[d] -> 0..D_q[d]]
    BY <1>4 DEF QueueType
  <1>7. k \in 0..(EpochBins[d] - 1)
    BY <1>1, <1>2, ShapeFields DEF Progress, DomainType
  <1>8. TelemetryType(d, telem[d]) /\ generated[d] \in [Buckets[d] -> Amount]
    BY <1>2 DEF DomainType
  <1> HIDE DEF row, V, k
  <1>9. /\ TelemetryType(d, telem'[d])
        /\ \A q \in Queues[d] :
              /\ telem'[d].gen[k][q] = Total(generated[d], {b \in Buckets[d] : rss[d][b] = q})
              /\ telem'[d].adm[k][q] = row[q].adm /\ telem'[d].drop[k][q] = row[q].drop
              /\ telem'[d].K[k][q] = row[q].returned
        /\ \A j \in 0..(EpochBins[d] - 1) : j # k =>
              /\ telem'[d].gen[j] = telem[d].gen[j] /\ telem'[d].adm[j] = telem[d].adm[j]
              /\ telem'[d].drop[j] = telem[d].drop[j] /\ telem'[d].K[j] = telem[d].K[j]
        /\ telem'[d].V[k + 1] = V
        /\ \A j \in 0..EpochBins[d] : j # k + 1 => telem'[d].V[j] = telem[d].V[j]
        /\ Len(telem'[d].latency_samples) = Len(telem[d].latency_samples)
              + Total([q \in Queues[d] |-> row[q].adm], Queues[d]).pkts
    <2> DEFINE x == telem[d]
               a == telem'[d]
               bucket == generated[d]
               table == rss[d]
    <2>1. /\ TelemetryType(d, x) /\ bucket \in [Buckets[d] -> Amount]
          /\ a = record_bin(Shape(d), x, k, bucket, table, row, V)
      BY <1>5, <1>8
    <2> HIDE DEF x, a, bucket, table
    <2>2. RecordsBin(d, x, k, bucket, table, row, V, a)
      <3>1. \A q \in Queues[d] : StatsType(row[q])
        BY <1>6
      <3>2. V \in [Queues[d] -> 0..D_q[d]]
        BY <1>6
      <3> QED
        BY <1>7, <2>1, <3>1, <3>2, BinRecorded
    <2> QED
      BY <2>2 DEF RecordsBin, x, a, bucket, table
  <1>10. [q \in Queues[d] |-> row[q].adm] = [q \in Queues[d] |-> telem'[d].adm[k][q]]
    BY <1>9
  <1>11. /\ \A q \in Queues[d] :
              /\ telem'[d].gen[k][q] = Total(generated[d], BucketsOf(d, q))
              /\ telem'[d].adm[k][q] = pipeline'[d][q].stats.adm
              /\ telem'[d].drop[k][q] = pipeline'[d][q].stats.drop
              /\ telem'[d].K[k][q] = pipeline'[d][q].stats.returned
              /\ telem'[d].V[k + 1][q] = pipeline'[d][q].credits
    <2> SUFFICES ASSUME NEW q \in Queues[d]
                 PROVE  /\ telem'[d].gen[k][q] = Total(generated[d], BucketsOf(d, q))
                        /\ telem'[d].adm[k][q] = pipeline'[d][q].stats.adm
                        /\ telem'[d].drop[k][q] = pipeline'[d][q].stats.drop
                        /\ telem'[d].K[k][q] = pipeline'[d][q].stats.returned
                        /\ telem'[d].V[k + 1][q] = pipeline'[d][q].credits
      OBVIOUS
    <2>1. telem'[d].gen[k][q] = Total(generated[d], BucketsOf(d, q))
      BY <1>9 DEF BucketsOf
    <2>2. row[q] = pipeline'[d][q].stats /\ V[q] = pipeline'[d][q].credits
      BY <1>6
    <2>3. /\ telem'[d].adm[k][q] = row[q].adm /\ telem'[d].drop[k][q] = row[q].drop
          /\ telem'[d].K[k][q] = row[q].returned /\ telem'[d].V[k + 1] = V
      BY <1>9
    <2> QED
      BY <2>1, <2>2, <2>3
  <1> QED
    BY <1>3, <1>4, <1>9, <1>10, <1>11 DEF Ended, k

-----------------------------------------------------------------------------
(* The ledger of a domain after the bin.                                   *)
LEMMA EndedLedger ==
    ASSUME NEW d \in Domains, PathType, Progress, Ledger(d), Ended(d), phase = "packets",
           todo = {}, phase' = "stateless", in_epoch'[d] = in_epoch[d] + 1,
           epoch'[d] = epoch[d], lost'[d] = lost[d]
    PROVE  Ledger(d)'
  <1> SUFFICES ASSUME Open(d)'
               PROVE  /\ Unrecorded(d, telem[d], in_epoch[d])'
                      /\ Connected(d, telem[d], in_epoch[d])'
                      /\ Sampled(d, telem[d])'
                      /\ Descriptors(d)' /\ Balanced(d)'
    BY DEF Ledger
  <1> DEFINE k == in_epoch[d]
             x == telem[d]
             a == telem'[d]
  <1>1. Open(d)
    BY DEF Open
  <1>2. /\ Unrecorded(d, x, k) /\ Connected(d, x, k) /\ Sampled(d, x)
        /\ Descriptors(d) /\ Balanced(d)
    BY <1>1 DEF Ledger
  <1>3. DomainType(d) /\ k \in 0..(EpochBins[d] - 1) /\ EpochBins[d] \in Nat \ {0}
    BY ShapeFields DEF PathType, DomainType, Progress
  <1>4. TelemetryType(d, x) /\ TelemetryType(d, a)
    BY <1>3 DEF DomainType, Ended
  <1>5. /\ \A q \in Queues[d] :
              /\ a.gen[k][q] = Total(generated[d], BucketsOf(d, q))
              /\ a.adm[k][q] = pipeline'[d][q].stats.adm
              /\ a.drop[k][q] = pipeline'[d][q].stats.drop
              /\ a.K[k][q] = pipeline'[d][q].stats.returned
              /\ a.V[k + 1][q] = pipeline'[d][q].credits
              /\ pipeline'[d][q].stats.adm = pipeline[d][q].stats.adm
              /\ pipeline'[d][q].stats.drop = pipeline[d][q].stats.drop
              /\ pipeline'[d][q].credits = pipeline[d][q].credits
                    + pipeline'[d][q].stats.returned - pipeline[d][q].stats.returned
              /\ QueueType(d, pipeline'[d][q]) /\ QueueType(d, pipeline[d][q])
        /\ \A j \in 0..(EpochBins[d] - 1) : j # k =>
              /\ a.gen[j] = x.gen[j] /\ a.adm[j] = x.adm[j]
              /\ a.drop[j] = x.drop[j] /\ a.K[j] = x.K[j]
        /\ \A j \in 0..EpochBins[d] : j # k + 1 => a.V[j] = x.V[j]
    BY <1>3 DEF Ended, DomainType
  <1>6. Len(a.latency_samples) = Len(x.latency_samples)
              + Total([q \in Queues[d] |-> a.adm[k][q]], Queues[d]).pkts
    BY DEF Ended
  <1> HIDE DEF k, x, a
  <1>7. \A q \in Queues[d] : /\ x.gen[k][q] = Nothing /\ x.adm[k][q] = Nothing
                             /\ x.drop[k][q] = Nothing
    BY <1>2, <1>3 DEF Unrecorded
  <1>8. ASSUME NEW name \in {"gen", "adm", "drop"}, NEW q \in Queues[d], NEW y \in Fields
        PROVE  Recorded(d, a, name, q, y) = Recorded(d, x, name, q, y) + a[name][k][q][y]
    <2>1. x[name][k][q] = Nothing
      BY <1>7
    <2>2. \A j \in 0..(EpochBins[d] - 1) : j # k => a[name][j] = x[name][j]
      BY <1>5
    <2> QED
      BY <1>3, <1>4, <2>1, <2>2, BinAdded
  <1>9. Unrecorded(d, a, k + 1)
    <2> SUFFICES ASSUME NEW j \in 0..(EpochBins[d] - 1), j >= k + 1, NEW q \in Queues[d]
                 PROVE  /\ a.gen[j][q] = Nothing /\ a.adm[j][q] = Nothing
                        /\ a.drop[j][q] = Nothing /\ a.K[j][q] = 0
      BY DEF Unrecorded
    <2>1. j # k /\ j >= k
      BY <1>3
    <2>2. /\ x.gen[j][q] = Nothing /\ x.adm[j][q] = Nothing
          /\ x.drop[j][q] = Nothing /\ x.K[j][q] = 0
      BY <1>2, <2>1 DEF Unrecorded
    <2> QED
      BY <1>5, <2>1, <2>2
  <1>10. \A q \in Queues[d] : pipeline[d][q].credits =
             x.V[k][q] + pipeline[d][q].stats.returned - pipeline[d][q].stats.adm.pkts
    BY <1>2 DEF Descriptors, x, k
  <1>11. Connected(d, a, k + 1)
    <2> SUFFICES ASSUME NEW q \in Queues[d], NEW j \in 0..(EpochBins[d] - 1), j < k + 1
                 PROVE  a.V[j + 1][q] = a.V[j][q] + a.K[j][q] - a.adm[j][q].pkts
      BY DEF Connected
    <2>1. CASE j = k
      <3>1. k \in 0..EpochBins[d] /\ k # k + 1
        BY <1>3
      <3>2. a.V[k] = x.V[k]
        BY <1>5, <3>1
      <3> DEFINE v == x.V[k][q]
                 c == pipeline[d][q].credits
                 e == pipeline'[d][q].credits
                 r == pipeline[d][q].stats.returned
                 s == pipeline'[d][q].stats.returned
                 n == pipeline[d][q].stats.adm.pkts
      <3>3. /\ a.V[k + 1][q] = e /\ a.K[k][q] = s /\ a.adm[k][q].pkts = n
            /\ e = c + s - r /\ c = v + r - n
        BY <1>5, <1>10
      <3>4. r \in Nat /\ s \in Nat /\ n \in Nat
        BY <1>5 DEF QueueType, StatsType, Amount
      <3>5. v \in Int
        <4>1. x.V \in [0..EpochBins[d] -> [Queues[d] -> 0..D_q[d]]]
          BY <1>4 DEF TelemetryType
        <4>2. x.V[k] \in [Queues[d] -> 0..D_q[d]]
          BY <3>1, <4>1
        <4> QED
          BY <4>2
      <3> HIDE DEF v, c, e, r, s, n
      <3>6. e = v + s - n
        BY <3>3, <3>4, <3>5
      <3>7. a.V[k][q] = v
        BY <3>2 DEF v
      <3> QED
        BY <2>1, <3>3, <3>6, <3>7
    <2>2. CASE j # k
      <3>1. j < k /\ j + 1 # k + 1 /\ j # k + 1 /\ j \in 0..EpochBins[d]
            /\ j + 1 \in 0..EpochBins[d]
        BY <1>3, <2>2
      <3>2. a.V[j + 1] = x.V[j + 1] /\ a.V[j] = x.V[j] /\ a.K[j] = x.K[j]
            /\ a.adm[j] = x.adm[j]
        BY <1>5, <2>2, <3>1
      <3>3. x.V[j + 1][q] = x.V[j][q] + x.K[j][q] - x.adm[j][q].pkts
        BY <1>2, <3>1 DEF Connected
      <3> QED
        BY <3>2, <3>3
    <2> QED
      BY <2>1, <2>2
  <1>12. Sampled(d, a)
    <2> DEFINE Q == Queues[d]
               F == [q \in Q |-> EpochTotal(Shape(d), x.adm, q)]
               G == [q \in Q |-> a.adm[k][q]]
               H == [q \in Q |-> EpochTotal(Shape(d), a.adm, q)]
    <2>1. \A q \in Q : F[q] \in Amount /\ G[q] \in Amount
      <3>1. x.adm \in Cells(d) /\ a.adm \in Cells(d)
        BY <1>4 DEF TelemetryType
      <3>2. \A q \in Q : EpochTotal(Shape(d), x.adm, q) \in Amount
        BY <3>1, EpochTotalType
      <3>3. \A q \in Q : a.adm[k][q] \in Amount
        BY <1>3, <3>1 DEF Cells
      <3> QED
        BY <3>2, <3>3
    <2>2. \A q \in Q : H[q]["pkts"] = F[q]["pkts"] + G[q]["pkts"]
      <3> SUFFICES ASSUME NEW q \in Q PROVE H[q]["pkts"] = F[q]["pkts"] + G[q]["pkts"]
        OBVIOUS
      <3>1. Recorded(d, a, "adm", q, "pkts") = Recorded(d, x, "adm", q, "pkts") + a["adm"][k][q]["pkts"]
        BY <1>8 DEF Fields
      <3> QED
        BY <3>1 DEF Recorded
    <2>3. IsFiniteSet(Q) /\ "pkts" \in Fields
      BY ShapeFields DEF Fields
    <2>4. /\ Len(a.latency_samples) = Len(x.latency_samples) + Total(G, Q)["pkts"]
          /\ Len(x.latency_samples) = Total(F, Q)["pkts"]
      BY <1>2, <1>6 DEF Sampled
    <2> HIDE DEF F, G, H, Q
    <2>5. Total(H, Q)["pkts"] = Total(F, Q)["pkts"] + Total(G, Q)["pkts"]
      BY <2>1, <2>2, <2>3, TotalPlus
    <2>6. Len(a.latency_samples) = Total(H, Q)["pkts"]
      BY <2>4, <2>5
    <2> QED
      BY <2>6 DEF Sampled, H, Q
  <1>13. Descriptors(d)'
    <2>1. \A q \in Queues[d] : pipeline'[d][q].credits = telem'[d].V[in_epoch'[d]][q]
      BY <1>5 DEF a, k
    <2> QED
      BY <2>1 DEF Descriptors
  <1>14. Balanced(d)'
    <2> SUFFICES ASSUME NEW q \in Queues[d], NEW y \in Fields
                 PROVE  Recorded(d, a, "gen", q, y)
                           = Recorded(d, a, "adm", q, y) + Recorded(d, a, "drop", q, y)
                             + lost[d][q][y]
      BY DEF Balanced, a
    <2> DEFINE g == Recorded(d, x, "gen", q, y)
               m == Recorded(d, x, "adm", q, y)
               r == Recorded(d, x, "drop", q, y)
               t == Total(generated[d], BucketsOf(d, q))[y]
               n == pipeline[d][q].stats.adm[y]
               s == pipeline[d][q].stats.drop[y]
               w == AmountOf(OnTheWay(d, q))[y]
               l == lost[d][q][y]
    <2>1. g + t = m + n + r + s + w + l
      BY <1>2 DEF Balanced, x
    <2>2. w = 0
      <3>1. OnTheWay(d, q) = {}
        BY DEF OnTheWay
      <3> QED
        BY <3>1, AmountOfNothing
    <2>3. /\ Recorded(d, a, "gen", q, y) = g + a["gen"][k][q][y]
          /\ Recorded(d, a, "adm", q, y) = m + a["adm"][k][q][y]
          /\ Recorded(d, a, "drop", q, y) = r + a["drop"][k][q][y]
      BY <1>8
    <2>4. a["gen"][k][q][y] = t /\ a["adm"][k][q][y] = n /\ a["drop"][k][q][y] = s
      BY <1>5
    <2>5. g \in Nat /\ m \in Nat /\ r \in Nat
      BY <1>4, RecordedType
    <2>6. n \in Nat /\ s \in Nat /\ l \in Nat
      <3>1. pipeline[d][q].stats.adm \in Amount /\ pipeline[d][q].stats.drop \in Amount
            /\ lost[d][q] \in Amount
        BY <1>3, <1>5 DEF DomainType, QueueType, StatsType
      <3> QED
        BY <3>1, AmountFields
    <2> HIDE DEF g, m, r, t, n, s, w, l
    <2>7. Recorded(d, a, "gen", q, y) = g + t
      BY <2>3, <2>4
    <2>8. Recorded(d, a, "adm", q, y) = m + n /\ Recorded(d, a, "drop", q, y) = r + s
      BY <2>3, <2>4
    <2>9. g + t = (m + n) + (r + s) + l
      BY <2>1, <2>2, <2>5, <2>6
    <2> QED
      BY <2>7, <2>8, <2>9 DEF l
  <1>15. Unrecorded(d, telem[d], in_epoch[d])' /\ Connected(d, telem[d], in_epoch[d])'
         /\ Sampled(d, telem[d])'
    BY <1>9, <1>11, <1>12 DEF a, k
  <1> QED
    BY <1>13, <1>14, <1>15

(* The end of a bin.                                                       *)
LEMMA EndBinKeeps ==
    ASSUME PathInductive, EndBin
    PROVE  PathInductive'
  <1>1. /\ phase = "packets" /\ phase' = "stateless" /\ todo = {} /\ todo' = {}
        /\ DOMAIN pipeline' = Domains /\ DOMAIN telem' = Domains
        /\ DOMAIN in_epoch' = Domains
        /\ \A d \in Domains : in_epoch'[d] = in_epoch[d] + 1
        /\ IF use_pcie_link THEN advance(t_end) ELSE UNCHANGED vars
        /\ UNCHANGED <<use_pcie_link, rss, handoffs, finished, generated, lost, epoch>>
    BY DEF EndBin
  <1>2. PathType /\ Progress /\ LinkCounts /\ \A d \in Domains : DomainType(d) /\ Ledger(d)
    BY DEF PathInductive, PathType
  <1>3. \A d \in Domains : Ended(d)
    BY <1>2, EndBinEnds
  <1>4. ASSUME NEW d \in Domains PROVE DomainType(d)' /\ Ledger(d)'
    <2>1. DomainType(d) /\ Ended(d) /\ Ledger(d)
      BY <1>2, <1>3
    <2>2. DomainType(d)'
      BY <1>1, <2>1 DEF DomainType, Ended
    <2>3. /\ in_epoch'[d] = in_epoch[d] + 1 /\ epoch'[d] = epoch[d] /\ lost'[d] = lost[d]
      BY <1>1
    <2> QED
      BY <1>1, <1>2, <2>1, <2>2, <2>3, EndedLedger
  <1>5. PathType'
    <2>1. IsFiniteSet(todo') /\ \A p \in todo' : FALSE
      BY <1>1, FS_EmptySet
    <2> QED
      BY <1>1, <1>2, <1>4, <2>1 DEF PathType
  <1>6. Progress'
    <2>1. \A d \in Domains : in_epoch'[d] <= EpochBins[d]
      BY <1>1, <1>2, ShapeFields DEF Progress, DomainType
    <2> QED
      BY <1>1, <2>1 DEF Progress
  <1>7. LinkCounts'
    <2>1. stats' = stats
      BY <1>1 DEF advance, vars
    <2>2. \A d \in Domains : Counter(d, "adm")' = Counter(d, "adm")
                             /\ Counter(d, "pcie_drop")' = Counter(d, "pcie_drop")
      <3> SUFFICES ASSUME NEW d \in Domains
                   PROVE  Counter(d, "adm")' = Counter(d, "adm")
                          /\ Counter(d, "pcie_drop")' = Counter(d, "pcie_drop")
        OBVIOUS
      <3>1. \A q \in Queues[d] :
               /\ pipeline'[d][q].stats["adm"] = pipeline[d][q].stats["adm"]
               /\ pipeline'[d][q].stats["pcie_drop"] = pipeline[d][q].stats["pcie_drop"]
        BY <1>3 DEF Ended
      <3> QED
        BY <3>1, CounterSame
    <2>3. [d \in Domains |-> Counter(d, "adm")'] = [d \in Domains |-> Counter(d, "adm")]
      BY <2>2
    <2> QED
      BY <1>1, <1>2, <2>1, <2>2, <2>3 DEF LinkCounts
  <1> QED
    BY <1>4, <1>5, <1>6, <1>7 DEF PathInductive

-----------------------------------------------------------------------------
(* What a packet does to its queue: it is admitted or dropped, once.       *)
Counts(x, a, size) ==
    \/ a.stats.adm = More(x.stats.adm, 1, size) /\ a.stats.drop = x.stats.drop
    \/ a.stats.adm = x.stats.adm /\ a.stats.drop = More(x.stats.drop, 1, size)

Handled(d, x, a, size) ==
    /\ QueueType(d, a)
    /\ Counts(x, a, size)
    /\ a.credits = x.credits + a.stats.returned - x.stats.returned
                      - (a.stats.adm.pkts - x.stats.adm.pkts)

(* A packet that finds a descriptor.                                       *)
LEMMA HandledAdmitted ==
    ASSUME NEW d \in Domains, NEW x, QueueType(d, x), NEW size \in Nat, NEW t, NEW arrive,
           NEW service, NEW m, m = advanced(d, x, t), m.credits > 0,
           NEW a, a = try_admit(d, m, t, size, arrive, service)
    PROVE  /\ Handled(d, x, a, size)
           /\ a.stats.adm = More(x.stats.adm, 1, size)
           /\ a.stats.pcie_drop = x.stats.pcie_drop
  <1>1. /\ QueueType(d, m)
        /\ m.stats.adm = x.stats.adm /\ m.stats.drop = x.stats.drop
        /\ m.stats.pcie_drop = x.stats.pcie_drop
        /\ m.credits = x.credits + m.stats.returned - x.stats.returned
    BY Advanced
  <1>2. /\ QueueType(d, a)
        /\ a.credits = m.credits + a.stats.returned - m.stats.returned - 1
        /\ a.stats.adm = More(m.stats.adm, 1, size)
        /\ a.stats.pcie_drop = m.stats.pcie_drop
        /\ a.stats.drop = m.stats.drop
    BY <1>1, Admitted
  <1>3. a.stats.adm.pkts = x.stats.adm.pkts + 1 /\ x.stats.adm.pkts \in Nat
    <2> DEFINE n == x.stats.adm
    <2>1. n \in Amount
      BY DEF QueueType, StatsType
    <2>2. a.stats.adm = More(n, 1, size)
      BY <1>1, <1>2
    <2> HIDE DEF n
    <2>3. More(n, 1, size).pkts = n.pkts + 1 /\ n.pkts \in Nat
      BY <2>1, MoreFields DEF Amount
    <2> QED
      BY <2>2, <2>3 DEF n
  <1>4. /\ x.credits \in Int /\ x.stats.returned \in Int
        /\ m.stats.returned \in Int /\ a.stats.returned \in Int
    BY <1>1, <1>2, RingDepth DEF QueueType, StatsType
  <1>5. a.credits = x.credits + a.stats.returned - x.stats.returned
                      - (a.stats.adm.pkts - x.stats.adm.pkts)
    BY <1>1, <1>2, <1>3, <1>4
  <1> QED
    BY <1>1, <1>2, <1>5 DEF Handled, Counts

(* A packet that finds none, or is refused by the link.                    *)
LEMMA HandledDropped ==
    ASSUME NEW d \in Domains, NEW x, QueueType(d, x), NEW size \in Nat, NEW t,
           NEW m, m = advanced(d, x, t), NEW a,
           a \in {dropped_for_credit(m, size), dropped_by_link(m, size)}
    PROVE  /\ Handled(d, x, a, size)
           /\ a.stats.adm = x.stats.adm
           /\ a = dropped_for_credit(m, size) => a.stats.pcie_drop = x.stats.pcie_drop
           /\ a = dropped_by_link(m, size) =>
                 a.stats.pcie_drop = More(x.stats.pcie_drop, 1, size)
  <1>1. /\ QueueType(d, m)
        /\ m.stats.adm = x.stats.adm /\ m.stats.drop = x.stats.drop
        /\ m.stats.pcie_drop = x.stats.pcie_drop
        /\ m.credits = x.credits + m.stats.returned - x.stats.returned
    BY Advanced
  <1>2. /\ QueueType(d, a) /\ a.credits = m.credits
        /\ a.stats.adm = m.stats.adm /\ a.stats.returned = m.stats.returned
        /\ a.stats.drop = More(m.stats.drop, 1, size)
    <2>1. CASE a = dropped_for_credit(m, size)
      BY <1>1, <2>1, DroppedForCredit
    <2>2. CASE a = dropped_by_link(m, size)
      BY <1>1, <2>2, DroppedByLink
    <2> QED
      BY <2>1, <2>2
  <1>3. a = dropped_for_credit(m, size) => a.stats.pcie_drop = m.stats.pcie_drop
    BY <1>1, DroppedForCredit
  <1>4. a = dropped_by_link(m, size) => a.stats.pcie_drop = More(m.stats.pcie_drop, 1, size)
    BY <1>1, DroppedByLink
  <1>5. x.stats.adm.pkts \in Nat /\ x.credits \in Int /\ x.stats.returned \in Int
    BY RingDepth DEF QueueType, StatsType, Amount
  <1>6. m.stats.returned \in Int
    BY <1>1 DEF QueueType, StatsType
  <1>7. a.credits = x.credits + a.stats.returned - x.stats.returned
                      - (a.stats.adm.pkts - x.stats.adm.pkts)
    BY <1>1, <1>2, <1>5, <1>6
  <1>8. Handled(d, x, a, size)
    BY <1>1, <1>2, <1>7 DEF Handled, Counts
  <1> QED
    BY <1>1, <1>2, <1>3, <1>4, <1>8

(* Either way it is counted once.                                          *)
LEMMA CountsOnce ==
    ASSUME NEW d, NEW x, QueueType(d, x), NEW size \in Nat, NEW a, Counts(x, a, size),
           NEW y \in Fields
    PROVE  a.stats.adm[y] + a.stats.drop[y] = x.stats.adm[y] + x.stats.drop[y] + Unit(size)[y]
  <1> DEFINE m == x.stats.adm
             r == x.stats.drop
  <1>1. m \in Amount /\ r \in Amount
    BY DEF QueueType, StatsType
  <1>2. \/ a.stats.adm = More(m, 1, size) /\ a.stats.drop = r
        \/ a.stats.adm = m /\ a.stats.drop = More(r, 1, size)
    BY DEF Counts
  <1> HIDE DEF m, r
  <1>3. More(m, 1, size)[y] = m[y] + Unit(size)[y] /\ More(r, 1, size)[y] = r[y] + Unit(size)[y]
    <2>1. /\ More(m, 1, size)["pkts"] = m["pkts"] + 1
          /\ More(m, 1, size)["bytes"] = m["bytes"] + size
          /\ More(r, 1, size)["pkts"] = r["pkts"] + 1
          /\ More(r, 1, size)["bytes"] = r["bytes"] + size
      BY <1>1, MoreFields
    <2> QED
      BY <2>1 DEF Unit, Fields
  <1>4. m[y] \in Nat /\ r[y] \in Nat /\ Unit(size)[y] \in Nat
    BY <1>1, AmountFields DEF Unit, Fields
  <1>5. a.stats.adm[y] + a.stats.drop[y] = m[y] + r[y] + Unit(size)[y]
    BY <1>2, <1>3, <1>4
  <1> QED
    BY <1>5 DEF m, r

-----------------------------------------------------------------------------
(* One queue of a domain counts something.                                 *)
LEMMA CounterMoved ==
    ASSUME NEW d \in Domains, NEW name, NEW q \in Queues[d],
           \A r \in Queues[d] : pipeline[d][r].stats[name] \in Amount,
           \A r \in Queues[d] : pipeline'[d][r].stats[name] \in Amount,
           \A r \in Queues[d] : r # q => pipeline'[d][r] = pipeline[d][r]
    PROVE  /\ Counter(d, name) \in Nat
           /\ Counter(d, name)' = Counter(d, name) + pipeline'[d][q].stats[name].pkts
                                     - pipeline[d][q].stats[name].pkts
  <1> DEFINE S == Queues[d]
             f == [r \in S |-> pipeline[d][r].stats[name]]
             g == [r \in S |-> pipeline'[d][r].stats[name]]
  <1>1. IsFiniteSet(S) /\ "pkts" \in Fields /\ q \in S
    BY ShapeFields DEF Fields
  <1>2. \A r \in S : f[r] \in Amount /\ g[r] \in Amount
    OBVIOUS
  <1>3. \A r \in S \ {q} : g[r] = f[r]
    OBVIOUS
  <1>4. f[q] = pipeline[d][q].stats[name] /\ g[q] = pipeline'[d][q].stats[name]
    OBVIOUS
  <1>5. Counter(d, name)' = Total(g, S)["pkts"] /\ Counter(d, name) = Total(f, S)["pkts"]
    BY DEF Counter
  <1> HIDE DEF f, g, S
  <1>6. ASSUME NEW y \in Fields PROVE Total(g, S)[y] = Total(f, S)[y] + g[q][y] - f[q][y]
    <2>1. IsFiniteSet(S)
      BY <1>1
    <2>2. q \in S
      BY <1>1
    <2>3. \A r \in S : f[r] \in Amount /\ g[r] \in Amount
      BY <1>2
    <2>4. \A r \in S \ {q} : g[r] = f[r]
      BY <1>3
    <2>5. ASSUME NEW F, NEW G, \A r \in S : F[r] \in Amount /\ G[r] \in Amount,
                 \A r \in S \ {q} : G[r] = F[r]
          PROVE  Total(G, S)[y] = Total(F, S)[y] + G[q][y] - F[q][y]
      BY <2>1, <2>2, <2>5, TotalChanged
    <2> QED
      BY <2>3, <2>4, <2>5
  <1>7. Total(f, S)["pkts"] \in Nat
    BY <1>1, <1>2, TotalType, AmountFields
  <1>8. Total(g, S)["pkts"] = Total(f, S)["pkts"] + g[q]["pkts"] - f[q]["pkts"]
    BY <1>1, <1>6
  <1> QED
    BY <1>4, <1>5, <1>7, <1>8

(* The queue of a packet, before and after.                                *)
PacketStep(p) ==
    LET d == p.domain
        q == QueueOf(p)
    IN  /\ p \in todo /\ d \in Domains /\ q \in Queues[d] /\ p.size \in Nat
        /\ todo' = todo \ {p}
        /\ DOMAIN pipeline' = Domains /\ DOMAIN pipeline'[d] = Queues[d]
        /\ Handled(d, pipeline[d][q], pipeline'[d][q], p.size)
        /\ \A r \in Queues[d] : r # q => pipeline'[d][r] = pipeline[d][r]
        /\ \A e \in Domains : e # d => pipeline'[e] = pipeline[e]

(* The actions of a packet are such a step.                                *)
LEMMA PutQueueStep ==
    ASSUME PathType, NEW p \in todo, todo' = todo \ {p}, NEW new,
           PutQueue(p.domain, QueueOf(p), new),
           Handled(p.domain, pipeline[p.domain][QueueOf(p)], new, p.size)
    PROVE  PacketStep(p) /\ pipeline'[p.domain][QueueOf(p)] = new
  <1> DEFINE d == p.domain
             q == QueueOf(p)
  <1>1. d \in Domains /\ p.bucket \in Buckets[d] /\ p.size \in Nat
    BY DEF PathType
  <1>2. q \in Queues[d] /\ DOMAIN pipeline = Domains /\ DOMAIN pipeline[d] = Queues[d]
    BY <1>1 DEF PathType, DomainType, QueueOf
  <1>3. pipeline' = [pipeline EXCEPT ![d][q] = new]
    BY DEF PutQueue
  <1> HIDE DEF d, q
  <1>4. /\ pipeline'[d][q] = new
        /\ DOMAIN pipeline' = Domains /\ DOMAIN pipeline'[d] = Queues[d]
        /\ \A r \in Queues[d] : r # q => pipeline'[d][r] = pipeline[d][r]
        /\ \A e \in Domains : e # d => pipeline'[e] = pipeline[e]
    BY <1>1, <1>2, <1>3
  <1>5. Handled(d, pipeline[d][q], pipeline'[d][q], p.size)
    BY <1>4 DEF d, q
  <1> QED
    BY <1>1, <1>2, <1>4, <1>5 DEF PacketStep, d, q

-----------------------------------------------------------------------------
(* The ledgers, whichever way the packet goes.                             *)
LEMMA PacketDomains ==
    ASSUME PathType, Progress, NEW p, PacketStep(p), NEW d \in Domains,
           phase = "packets", phase' = "packets",
           telem' = telem, lost' = lost, epoch' = epoch, in_epoch' = in_epoch, rss' = rss,
           generated' = generated, Ledger(d)
    PROVE  DomainType(d)' /\ Ledger(d)'
  <1>1. /\ p \in todo /\ p.domain \in Domains /\ QueueOf(p) \in Queues[p.domain]
        /\ p.size \in Nat /\ todo' = todo \ {p}
        /\ DOMAIN pipeline'[p.domain] = Queues[p.domain]
        /\ Handled(p.domain, pipeline[p.domain][QueueOf(p)],
                   pipeline'[p.domain][QueueOf(p)], p.size)
        /\ \A r \in Queues[p.domain] :
              r # QueueOf(p) => pipeline'[p.domain][r] = pipeline[p.domain][r]
        /\ \A e \in Domains : e # p.domain => pipeline'[e] = pipeline[e]
    BY DEF PacketStep
  <1>2. DomainType(d)
    BY DEF PathType
  <1>3. DomainType(d)'
    <2>1. DOMAIN pipeline'[d] = Queues[d] /\ \A r \in Queues[d] : QueueType(d, pipeline'[d][r])
      <3>1. CASE d = p.domain
        BY <1>1, <1>2, <3>1 DEF DomainType, Handled
      <3>2. CASE d # p.domain
        BY <1>1, <1>2, <3>2 DEF DomainType
      <3> QED
        BY <3>1, <3>2
    <2> QED
      BY <1>2, <2>1 DEF DomainType
  <1> SUFFICES ASSUME Open(d)' PROVE Ledger(d)'
    BY <1>3 DEF Ledger
  <1>4. Open(d)
    BY DEF Open
  <1>5. /\ Unrecorded(d, telem[d], in_epoch[d]) /\ Connected(d, telem[d], in_epoch[d])
        /\ Sampled(d, telem[d]) /\ Descriptors(d) /\ Balanced(d)
    BY <1>4 DEF Ledger
  <1>6. Unrecorded(d, telem[d], in_epoch[d])' /\ Connected(d, telem[d], in_epoch[d])'
        /\ Sampled(d, telem[d])'
    BY <1>5
  <1>7. ASSUME NEW q \in Queues[d], ~(d = p.domain /\ q = QueueOf(p))
        PROVE  pipeline'[d][q] = pipeline[d][q] /\ OnTheWay(d, q)' = OnTheWay(d, q)
    <2>1. pipeline'[d][q] = pipeline[d][q]
      BY <1>1, <1>7
    <2>2. OnTheWay(d, q)' = OnTheWay(d, q)
      BY <1>1, <1>7 DEF OnTheWay, QueueOf
    <2> QED
      BY <2>1, <2>2
  <1>8. ASSUME NEW q \in Queues[d], d = p.domain, q = QueueOf(p)
        PROVE  /\ Handled(d, pipeline[d][q], pipeline'[d][q], p.size)
               /\ OnTheWay(d, q)' = OnTheWay(d, q) \ {p}
               /\ p \in OnTheWay(d, q) /\ IsFiniteSet(OnTheWay(d, q))
               /\ \A r \in OnTheWay(d, q) : r.size \in Nat
    <2>1. Handled(d, pipeline[d][q], pipeline'[d][q], p.size)
      BY <1>1, <1>8
    <2>2. OnTheWay(d, q)' = OnTheWay(d, q) \ {p} /\ p \in OnTheWay(d, q)
          /\ OnTheWay(d, q) \subseteq todo
      BY <1>1, <1>8 DEF OnTheWay, QueueOf
    <2>3. IsFiniteSet(OnTheWay(d, q)) /\ \A r \in OnTheWay(d, q) : r.size \in Nat
      BY <2>2, FS_Subset DEF PathType
    <2> QED
      BY <2>1, <2>2, <2>3
  <1>9. Descriptors(d)'
    <2> SUFFICES ASSUME NEW q \in Queues[d]
                 PROVE  pipeline'[d][q].credits =
                           telem[d].V[in_epoch[d]][q] + pipeline'[d][q].stats.returned
                              - pipeline'[d][q].stats.adm.pkts
      BY DEF Descriptors
    <2> DEFINE x == pipeline[d][q]
               a == pipeline'[d][q]
               v == telem[d].V[in_epoch[d]][q]
    <2>1. x.credits = v + x.stats.returned - x.stats.adm.pkts
      BY <1>5 DEF Descriptors
    <2>2. CASE d = p.domain /\ q = QueueOf(p)
      <3>1. a.credits = x.credits + a.stats.returned - x.stats.returned
                           - (a.stats.adm.pkts - x.stats.adm.pkts)
        BY <1>8, <2>2 DEF Handled
      <3>2. QueueType(d, x) /\ QueueType(d, a)
        BY <1>2, <1>3 DEF DomainType
      <3> HIDE DEF x, a
      <3>3. /\ x.stats.returned \in Nat /\ a.stats.returned \in Nat
            /\ x.stats.adm.pkts \in Nat /\ a.stats.adm.pkts \in Nat
            /\ x.credits \in Int
        BY <3>2, RingDepth DEF QueueType, StatsType, Amount
      <3>4. v \in Int
        <4>1. in_epoch[d] \in 0..EpochBins[d]
          BY <1>2, ShapeFields DEF DomainType, Progress
        <4>2. telem[d].V \in [0..EpochBins[d] -> [Queues[d] -> 0..D_q[d]]]
          BY <1>2 DEF DomainType, TelemetryType
        <4>3. telem[d].V[in_epoch[d]] \in [Queues[d] -> 0..D_q[d]]
          BY <4>1, <4>2
        <4> QED
          BY <4>3, RingDepth
      <3> HIDE DEF v
      <3>5. a.credits = v + a.stats.returned - a.stats.adm.pkts
        BY <2>1, <3>1, <3>3, <3>4
      <3> QED
        BY <3>5 DEF a, v
    <2>3. CASE ~(d = p.domain /\ q = QueueOf(p))
      BY <1>7, <2>1, <2>3
    <2> QED
      BY <2>2, <2>3
  <1>10. Balanced(d)'
    <2> SUFFICES ASSUME NEW q \in Queues[d], NEW y \in Fields
                 PROVE  Recorded(d, telem[d], "gen", q, y) + Total(generated[d], BucketsOf(d, q))[y]
                = Recorded(d, telem[d], "adm", q, y) + pipeline'[d][q].stats.adm[y]
                  + Recorded(d, telem[d], "drop", q, y) + pipeline'[d][q].stats.drop[y]
                  + AmountOf(OnTheWay(d, q)')[y] + lost[d][q][y]
      BY DEF Balanced, BucketsOf
    <2>1. Recorded(d, telem[d], "gen", q, y) + Total(generated[d], BucketsOf(d, q))[y]
                = Recorded(d, telem[d], "adm", q, y) + pipeline[d][q].stats.adm[y]
                  + Recorded(d, telem[d], "drop", q, y) + pipeline[d][q].stats.drop[y]
                  + AmountOf(OnTheWay(d, q))[y] + lost[d][q][y]
      BY <1>5 DEF Balanced
    <2>2. CASE ~(d = p.domain /\ q = QueueOf(p))
      BY <1>7, <2>1, <2>2
    <2>3. CASE d = p.domain /\ q = QueueOf(p)
      <3> DEFINE s == Recorded(d, telem[d], "gen", q, y)
                         + Total(generated[d], BucketsOf(d, q))[y]
                 x == pipeline[d][q]
                 a == pipeline'[d][q]
                 m == Recorded(d, telem[d], "adm", q, y)
                 r == Recorded(d, telem[d], "drop", q, y)
                 E == OnTheWay(d, q)
                 w == AmountOf(E)[y]
                 l == lost[d][q][y]
      <3>1. /\ QueueType(d, x) /\ QueueType(d, a) /\ Counts(x, a, p.size) /\ p.size \in Nat
            /\ OnTheWay(d, q)' = E \ {p} /\ p \in E /\ IsFiniteSet(E)
            /\ \A e \in E : e.size \in Nat
        BY <1>1, <1>2, <1>3, <1>8, <2>3 DEF DomainType, Handled
      <3>2. s = m + x.stats.adm[y] + r + x.stats.drop[y] + w + l
        BY <2>1
      <3>3. m \in Nat /\ r \in Nat
        BY <1>2, RecordedType DEF DomainType
      <3>4. l \in Nat
        <4>1. lost[d][q] \in Amount
          BY <1>2 DEF DomainType
        <4> QED
          BY <4>1, AmountFields
      <3> HIDE DEF s, x, a, m, r, E, l
      <3>5. a.stats.adm[y] + a.stats.drop[y] = x.stats.adm[y] + x.stats.drop[y] + Unit(p.size)[y]
        BY <3>1, CountsOnce
      <3>6. w = AmountOf(E \ {p})[y] + Unit(p.size)[y]
        BY <3>1, AmountOfRemoved
      <3>7. /\ x.stats.adm[y] \in Nat /\ x.stats.drop[y] \in Nat
            /\ a.stats.adm[y] \in Nat /\ a.stats.drop[y] \in Nat
        BY <3>1, AmountFields DEF QueueType, StatsType
      <3>8. AmountOf(E \ {p})[y] \in Nat /\ Unit(p.size)[y] \in Nat
        <4>1. IsFiniteSet(E \ {p}) /\ \A e \in E \ {p} : e.size \in Nat
          BY <3>1, FS_Subset
        <4>2. AmountOf(E \ {p}) \in Amount
          BY <4>1, AmountOfType
        <4> QED
          BY <3>1, <4>2, AmountFields DEF Unit, Fields
      <3> HIDE DEF w
      <3>9. s = m + a.stats.adm[y] + r + a.stats.drop[y] + AmountOf(E \ {p})[y] + l
        <4> DEFINE xa == x.stats.adm[y]
                   xd == x.stats.drop[y]
                   aa == a.stats.adm[y]
                   ad == a.stats.drop[y]
                   v == AmountOf(E \ {p})[y]
                   u == Unit(p.size)[y]
        <4>1. /\ m \in Nat /\ r \in Nat /\ l \in Nat /\ xa \in Nat /\ xd \in Nat
              /\ aa \in Nat /\ ad \in Nat /\ v \in Nat /\ u \in Nat
          BY <3>3, <3>4, <3>7, <3>8
        <4>2. s = m + xa + r + xd + w + l /\ aa + ad = xa + xd + u /\ w = v + u
          BY <3>2, <3>5, <3>6
        <4> HIDE DEF xa, xd, aa, ad, v, u
        <4>3. s = m + aa + r + ad + v + l
          BY <4>1, <4>2
        <4> QED
          BY <4>3 DEF aa, ad, v
      <3> QED
        BY <3>1, <3>9 DEF s, a, m, r, l
    <2> QED
      BY <2>2, <2>3
  <1> QED
    BY <1>3, <1>4, <1>6, <1>9, <1>10 DEF Ledger

(* The link and the queues count the packet alike.                         *)
LEMMA PacketCounted ==
    ASSUME PathType, LinkCounts, NEW p, PacketStep(p),
           phase = "packets", phase' = "packets",
           use_pcie_link' = use_pcie_link, use_pcie_link,
           NEW x, x = pipeline[p.domain][QueueOf(p)],
           NEW a, a = pipeline'[p.domain][QueueOf(p)],
           NEW i \in Nat, NEW j \in Nat,
           a.stats.adm.pkts = x.stats.adm.pkts + i,
           a.stats.pcie_drop.pkts = x.stats.pcie_drop.pkts + j,
           stats'.accepted_pkts = stats.accepted_pkts + i,
           stats'.by_domain[p.domain] = stats.by_domain[p.domain] + j,
           \A d \in Domains : d # p.domain => stats'.by_domain[d] = stats.by_domain[d]
    PROVE  LinkCounts'
  <1> DEFINE e == p.domain
             q == QueueOf(p)
  <1>1. /\ e \in Domains /\ q \in Queues[e]
        /\ QueueType(e, a)
        /\ \A r \in Queues[e] : r # q => pipeline'[e][r] = pipeline[e][r]
        /\ \A d \in Domains : d # e => pipeline'[d] = pipeline[d]
        /\ x = pipeline[e][q] /\ a = pipeline'[e][q]
    BY DEF PacketStep, Handled
  <1>2. /\ stats.accepted_pkts = Both([d \in Domains |-> Counter(d, "adm")])
        /\ \A d \in Domains : stats.by_domain[d] = Counter(d, "pcie_drop")
    BY DEF LinkCounts
  <1>3. \A r \in Queues[e] : QueueType(e, pipeline[e][r]) /\ QueueType(e, pipeline'[e][r])
    BY <1>1 DEF PathType, DomainType
  <1>4. /\ \A r \in Queues[e] : /\ pipeline[e][r].stats["adm"] \in Amount
                                 /\ pipeline'[e][r].stats["adm"] \in Amount
        /\ \A r \in Queues[e] : /\ pipeline[e][r].stats["pcie_drop"] \in Amount
                                 /\ pipeline'[e][r].stats["pcie_drop"] \in Amount
    BY <1>3 DEF QueueType, StatsType
  <1>5. \A d \in Domains : Counter(d, "adm") \in Nat
    <2> SUFFICES ASSUME NEW d \in Domains PROVE Counter(d, "adm") \in Nat
      OBVIOUS
    <2> DEFINE f == [r \in Queues[d] |-> pipeline[d][r].stats["adm"]]
    <2>1. IsFiniteSet(Queues[d]) /\ \A r \in Queues[d] : f[r] \in Amount
      BY ShapeFields DEF PathType, DomainType, QueueType, StatsType
    <2>2. Counter(d, "adm") = Total(f, Queues[d]).pkts
      BY DEF Counter
    <2> HIDE DEF f
    <2>3. Total(f, Queues[d]) \in Amount
      BY <2>1, TotalType
    <2> QED
      BY <2>2, <2>3 DEF Amount
  <1>6. ASSUME NEW name \in {"adm", "pcie_drop"}
        PROVE  /\ Counter(e, name) \in Nat
               /\ Counter(e, name)' = Counter(e, name) + a.stats[name].pkts
                                        - x.stats[name].pkts
    <2>1. \A r \in Queues[e] : pipeline[e][r].stats[name] \in Amount
      BY <1>4
    <2>2. \A r \in Queues[e] : pipeline'[e][r].stats[name] \in Amount
      BY <1>4
    <2>3. \A r \in Queues[e] : r # q => pipeline'[e][r] = pipeline[e][r]
      BY <1>1
    <2>4. e \in Domains /\ q \in Queues[e] /\ x = pipeline[e][q] /\ a = pipeline'[e][q]
      BY <1>1
    <2> HIDE DEF e, q
    <2> QED
      BY <2>1, <2>2, <2>3, <2>4, CounterMoved
  <1>7. /\ a.stats.adm.pkts \in Nat /\ x.stats.adm.pkts \in Nat
        /\ a.stats.pcie_drop.pkts \in Nat /\ x.stats.pcie_drop.pkts \in Nat
    BY <1>1, <1>4 DEF Amount
  <1>8. \A d \in Domains : d # e => /\ Counter(d, "adm")' = Counter(d, "adm")
                                    /\ Counter(d, "pcie_drop")' = Counter(d, "pcie_drop")
    BY <1>1, CounterSame
  <1>9. Counter(e, "adm")' = Counter(e, "adm") + i
        /\ Counter(e, "pcie_drop")' = Counter(e, "pcie_drop") + j
    <2>1. /\ Counter(e, "adm")' = Counter(e, "adm") + a.stats.adm.pkts - x.stats.adm.pkts
          /\ Counter(e, "pcie_drop")' = Counter(e, "pcie_drop") + a.stats.pcie_drop.pkts
                                            - x.stats.pcie_drop.pkts
          /\ Counter(e, "adm") \in Nat /\ Counter(e, "pcie_drop") \in Nat
      BY <1>6
    <2> QED
      BY <1>7, <2>1
  <1> HIDE DEF e, q
  <1>10. \A d \in Domains : stats'.by_domain[d] = Counter(d, "pcie_drop")'
    <2>1. stats'.by_domain[e] = stats.by_domain[e] + j
          /\ \A d \in Domains : d # e => stats'.by_domain[d] = stats.by_domain[d]
      BY DEF e
    <2> QED
      BY <1>2, <1>8, <1>9, <2>1
  <1>11. stats'.accepted_pkts = Both([d \in Domains |-> Counter(d, "adm")'])
    <2> DEFINE F == [d \in Domains |-> Counter(d, "adm")]
               G == [d \in Domains |-> Counter(d, "adm")']
    <2>1. /\ F["stateless"] \in Nat /\ F["stateful"] \in Nat
          /\ G[e] = F[e] + i /\ \A d \in Domains : d # e => G[d] = F[d]
      BY <1>1, <1>5, <1>8, <1>9, TwoDomains
    <2>2. stats.accepted_pkts = Both(F)
      BY <1>2
    <2> HIDE DEF F, G
    <2>3. Both(G) = Both(F) + i
      <3>1. CASE e = "stateless"
        BY <2>1, <3>1, TwoDomains DEF Both
      <3>2. CASE e = "stateful"
        BY <2>1, <3>2, TwoDomains DEF Both
      <3> QED
        BY <1>1, <3>1, <3>2, TwoDomains
    <2> QED
      BY <2>2, <2>3 DEF G
  <1> QED
    BY <1>10, <1>11 DEF LinkCounts

-----------------------------------------------------------------------------
(* The link accepts a packet or drops it, and busy_until tells which.      *)
LEMMA LinkAccepts ==
    ASSUME TypeOK, NEW p, p.domain \in Domains, p.size \in Sizes, p.t \in Nat,
           try_transmit(p.t, p.size, p.domain), busy_until' > busy_until
    PROVE  /\ stats'.accepted_pkts = stats.accepted_pkts + 1
           /\ stats'.by_domain = stats.by_domain
  <1>1. accept(p.t, p.size)
    <2>1. CASE drop(p.t, p.domain)
      BY <2>1 DEF drop, TypeOK
    <2> QED
      BY <2>1 DEF try_transmit
  <1> QED
    BY <1>1 DEF accept, TypeOK

(* A refused packet leaves busy_until alone.                               *)
LEMMA LinkRefuses ==
    ASSUME TypeOK, NEW p, p.domain \in Domains, p.size \in Sizes, p.t \in Nat,
           try_transmit(p.t, p.size, p.domain), busy_until' = busy_until
    PROVE  /\ stats'.accepted_pkts = stats.accepted_pkts
           /\ stats'.by_domain[p.domain] = stats.by_domain[p.domain] + 1
           /\ \A d \in Domains : d # p.domain => stats'.by_domain[d] = stats.by_domain[d]
  <1>1. drop(p.t, p.domain)
    <2>1. CASE accept(p.t, p.size)
      <3>1. LinkTime(p.size) \in Nat /\ LinkTime(p.size) > 0
        BY LinkTimePositive
      <3>2. busy_until' = Later(p.t + Setup, busy_until) + LinkTime(p.size)
        BY <2>1 DEF accept
      <3>3. busy_until \in Nat /\ Setup \in Nat
        BY PCIeLinkAssumption DEF TypeOK
      <3>4. busy_until' > busy_until
        BY <3>1, <3>2, <3>3 DEF Later
      <3> QED
        BY <3>3, <3>4
    <2> QED
      BY <2>1 DEF try_transmit
  <1>2. /\ stats' = [stats EXCEPT !.dropped_pkts = @ + 1, !.by_domain[p.domain] = @ + 1]
        /\ stats \in [accepted_pkts : Nat, accepted : Nat, dropped_pkts : Nat,
                      by_domain : [Domains -> Nat], fifo_peak : Nat]
    BY <1>1 DEF drop, TypeOK
  <1> QED
    BY <1>2

(* Each way a packet can go, as a step of its queue and of the link.       *)
LEMMA PacketGoes ==
    ASSUME PathType, TypeOK, NEW p \in todo, p.size \in Sizes, p.t \in Nat,
           todo' = todo \ {p},
           CreditDrop(p) \/ LinkDrop(p) \/ AdmitOverLink(p) \/ AdmitWithoutLink(p)
    PROVE  /\ PacketStep(p)
           /\ use_pcie_link => \E i \in Nat, j \in Nat :
                 /\ pipeline'[p.domain][QueueOf(p)].stats.adm.pkts
                       = pipeline[p.domain][QueueOf(p)].stats.adm.pkts + i
                 /\ pipeline'[p.domain][QueueOf(p)].stats.pcie_drop.pkts
                       = pipeline[p.domain][QueueOf(p)].stats.pcie_drop.pkts + j
                 /\ stats'.accepted_pkts = stats.accepted_pkts + i
                 /\ stats'.by_domain[p.domain] = stats.by_domain[p.domain] + j
                 /\ \A d \in Domains : d # p.domain =>
                       stats'.by_domain[d] = stats.by_domain[d]
  <1> DEFINE d == p.domain
             x == pipeline[p.domain][QueueOf(p)]
             m == AtFpga(p)
             size == p.size
  <1>1. d \in Domains /\ QueueOf(p) \in Queues[d] /\ size \in Nat
    BY DEF PathType, DomainType, QueueOf
  <1>2. QueueType(d, x) /\ m = advanced(d, x, p.t)
    BY <1>1 DEF PathType, DomainType, AtFpga
  <1>3. /\ stats.accepted_pkts \in Nat /\ \A e \in Domains : stats.by_domain[e] \in Nat
    BY DEF TypeOK
  <1>4. /\ x.stats.adm \in Amount /\ x.stats.pcie_drop \in Amount
    BY <1>2 DEF QueueType, StatsType
  <1>5. /\ x.stats.adm.pkts \in Nat /\ x.stats.pcie_drop.pkts \in Nat
        /\ More(x.stats.adm, 1, size).pkts = x.stats.adm.pkts + 1
        /\ More(x.stats.pcie_drop, 1, size).pkts = x.stats.pcie_drop.pkts + 1
    <2>1. ASSUME NEW n \in Amount
          PROVE  n.pkts \in Nat /\ More(n, 1, size).pkts = n.pkts + 1
      BY <1>1, MoreFields DEF Amount
    <2> HIDE DEF x, size
    <2> QED
      BY <1>4, <2>1
  <1>6. CASE CreditDrop(p)
    <2> DEFINE a == dropped_for_credit(m, size)
    <2>1. PutQueue(p.domain, QueueOf(p), a) /\ UNCHANGED vars
      BY <1>6 DEF CreditDrop
    <2>2. Handled(d, x, a, size) /\ a.stats.adm = x.stats.adm
          /\ a.stats.pcie_drop = x.stats.pcie_drop
      BY <1>1, <1>2, HandledDropped
    <2>3. PacketStep(p) /\ pipeline'[p.domain][QueueOf(p)] = a
      BY <2>1, <2>2, PutQueueStep
    <2>4. stats' = stats
      BY <2>1 DEF vars
    <2> HIDE DEF a
    <2>5. /\ a.stats.adm.pkts = x.stats.adm.pkts + 0
          /\ a.stats.pcie_drop.pkts = x.stats.pcie_drop.pkts + 0
          /\ stats'.accepted_pkts = stats.accepted_pkts + 0
          /\ stats'.by_domain[d] = stats.by_domain[d] + 0
          /\ \A e \in Domains : e # d => stats'.by_domain[e] = stats.by_domain[e]
      BY <1>1, <1>3, <1>5, <2>2, <2>4
    <2>6. 0 \in Nat
      OBVIOUS
    <2> QED
      BY <2>3, <2>5, <2>6
  <1>7. CASE LinkDrop(p)
    <2> DEFINE a == dropped_by_link(m, size)
    <2>1. PutQueue(p.domain, QueueOf(p), a) /\ try_transmit(p.t, p.size, p.domain)
          /\ busy_until' = busy_until
      BY <1>7 DEF LinkDrop
    <2>2. Handled(d, x, a, size) /\ a.stats.adm = x.stats.adm
          /\ a.stats.pcie_drop = More(x.stats.pcie_drop, 1, size)
      BY <1>1, <1>2, HandledDropped
    <2>3. PacketStep(p) /\ pipeline'[p.domain][QueueOf(p)] = a
      BY <2>1, <2>2, PutQueueStep
    <2>4. /\ stats'.accepted_pkts = stats.accepted_pkts
          /\ stats'.by_domain[d] = stats.by_domain[d] + 1
          /\ \A e \in Domains : e # d => stats'.by_domain[e] = stats.by_domain[e]
      BY <1>1, <2>1, LinkRefuses
    <2> HIDE DEF a
    <2>5. /\ a.stats.adm.pkts = x.stats.adm.pkts + 0
          /\ a.stats.pcie_drop.pkts = x.stats.pcie_drop.pkts + 1
          /\ stats'.accepted_pkts = stats.accepted_pkts + 0
      BY <1>3, <1>5, <2>2, <2>4
    <2>6. 0 \in Nat /\ 1 \in Nat
      OBVIOUS
    <2> QED
      BY <2>3, <2>4, <2>5, <2>6
  <1>8. CASE AdmitOverLink(p)
    <2>1. PICK service \in ServiceTimes[d] :
             PutQueue(p.domain, QueueOf(p), try_admit(d, m, p.t, size, busy_until', service))
      BY <1>8 DEF AdmitOverLink
    <2>2. m.credits > 0 /\ try_transmit(p.t, p.size, p.domain) /\ busy_until' > busy_until
      BY <1>8 DEF AdmitOverLink
    <2> DEFINE a == try_admit(d, m, p.t, size, busy_until', service)
    <2>3. Handled(d, x, a, size) /\ a.stats.adm = More(x.stats.adm, 1, size)
          /\ a.stats.pcie_drop = x.stats.pcie_drop
      BY <1>1, <1>2, <2>2, HandledAdmitted
    <2>4. PacketStep(p) /\ pipeline'[p.domain][QueueOf(p)] = a
      BY <2>1, <2>3, PutQueueStep
    <2>5. stats'.accepted_pkts = stats.accepted_pkts + 1 /\ stats'.by_domain = stats.by_domain
      BY <1>1, <2>2, LinkAccepts
    <2> HIDE DEF a
    <2>6. /\ a.stats.adm.pkts = x.stats.adm.pkts + 1
          /\ a.stats.pcie_drop.pkts = x.stats.pcie_drop.pkts + 0
          /\ stats'.by_domain[d] = stats.by_domain[d] + 0
          /\ \A e \in Domains : e # d => stats'.by_domain[e] = stats.by_domain[e]
      BY <1>1, <1>3, <1>5, <2>3, <2>5
    <2>7. 0 \in Nat /\ 1 \in Nat
      OBVIOUS
    <2> QED
      BY <2>4, <2>5, <2>6, <2>7
  <1>9. CASE AdmitWithoutLink(p)
    <2>1. PICK service \in ServiceTimes[d] :
             PutQueue(p.domain, QueueOf(p),
                      try_admit(d, m, p.t, size, p.t + T_dma[size], service))
      BY <1>9 DEF AdmitWithoutLink
    <2>2. m.credits > 0 /\ ~use_pcie_link
      BY <1>9 DEF AdmitWithoutLink
    <2> DEFINE a == try_admit(d, m, p.t, size, p.t + T_dma[size], service)
    <2>3. Handled(d, x, a, size)
      BY <1>1, <1>2, <2>2, HandledAdmitted
    <2>4. PacketStep(p)
      BY <2>1, <2>3, PutQueueStep
    <2> QED
      BY <2>2, <2>4
  <1> QED
    BY <1>6, <1>7, <1>8, <1>9

(* One packet.                                                             *)
LEMMA PacketKeeps ==
    ASSUME PathInductive, TypeOK, Packet,
           \A p \in todo : p.size \in Sizes /\ p.t \in Nat
    PROVE  PathInductive'
  <1>1. /\ phase = "packets" /\ phase' = "packets"
        /\ use_pcie_link' = use_pcie_link /\ rss' = rss /\ telem' = telem
        /\ handoffs' = handoffs /\ finished' = finished /\ generated' = generated
        /\ lost' = lost /\ in_epoch' = in_epoch /\ epoch' = epoch
    BY DEF Packet
  <1>2. PICK p \in todo :
          /\ CreditDrop(p) \/ LinkDrop(p) \/ AdmitOverLink(p) \/ AdmitWithoutLink(p)
          /\ todo' = todo \ {p}
    BY DEF Packet
  <1>3. PathType /\ Progress /\ LinkCounts /\ \A d \in Domains : Ledger(d)
    BY DEF PathInductive
  <1>4. p.size \in Sizes /\ p.t \in Nat
    BY <1>2
  <1>5. PacketStep(p)
    BY <1>2, <1>3, <1>4, PacketGoes
  <1>6. \A d \in Domains : DomainType(d)' /\ Ledger(d)'
    BY <1>1, <1>3, <1>5, PacketDomains
  <1>7. PathType'
    <2>1. IsFiniteSet(todo') /\ todo' \subseteq todo
      BY <1>2, <1>3, FS_Subset DEF PathType
    <2>2. DOMAIN pipeline' = Domains
      BY <1>5 DEF PacketStep
    <2>3. \A r \in todo' : r.domain \in Domains /\ r.bucket \in Buckets[r.domain]
                           /\ r.size \in Nat
      BY <1>3, <2>1 DEF PathType
    <2> QED
      BY <1>1, <1>3, <1>6, <2>1, <2>2, <2>3 DEF PathType
  <1>8. Progress'
    BY <1>1, <1>3 DEF Progress
  <1>9. LinkCounts'
    <2>1. CASE use_pcie_link
      <3>1. PICK i \in Nat, j \in Nat :
                 /\ pipeline'[p.domain][QueueOf(p)].stats.adm.pkts
                       = pipeline[p.domain][QueueOf(p)].stats.adm.pkts + i
                 /\ pipeline'[p.domain][QueueOf(p)].stats.pcie_drop.pkts
                       = pipeline[p.domain][QueueOf(p)].stats.pcie_drop.pkts + j
                 /\ stats'.accepted_pkts = stats.accepted_pkts + i
                 /\ stats'.by_domain[p.domain] = stats.by_domain[p.domain] + j
                 /\ \A d \in Domains : d # p.domain =>
                       stats'.by_domain[d] = stats.by_domain[d]
        BY <1>2, <1>3, <1>4, <2>1, PacketGoes
      <3> QED
        BY <1>1, <1>3, <1>5, <2>1, <3>1, PacketCounted
    <2>2. CASE ~use_pcie_link
      BY <1>1, <2>2 DEF LinkCounts
    <2> QED
      BY <2>1, <2>2
  <1> QED
    BY <1>6, <1>7, <1>8, <1>9 DEF PathInductive

-----------------------------------------------------------------------------
(* What closes an epoch, read off the arrays of its telemetry.             *)
Returns(d, x, q) == [k \in 0..(EpochBins[d] - 1) |-> x.K[k][q]]

Admissions(d, x) == [q \in Queues[d] |-> EpochTotal(Shape(d), x.adm, q)]

(* Its columns are the sums of the arrays.                                 *)
LEMMA EpochFinalized ==
    ASSUME NEW d \in Domains, NEW x, NEW e, e = finalize_epoch(Shape(d), x),
           NEW q \in Queues[d]
    PROVE  /\ e.adm[q] = EpochTotal(Shape(d), x.adm, q)
           /\ e.adm = Admissions(d, x)
           /\ e.gen[q] = EpochTotal(Shape(d), x.gen, q)
           /\ e.drop[q] = EpochTotal(Shape(d), x.drop, q)
           /\ e.G_q[q] = (D_q[d] - x.V[EpochBins[d]][q]) - (D_q[d] - x.V[0][q])
           /\ e.K_q[q] = SumFunctionOnSet(Returns(d, x, q), 0..(EpochBins[d] - 1))
           /\ e.latency = _latency_stats(x)
  BY ShapeFields DEF finalize_epoch, Sum, Returns, Admissions

(* Its number of samples is that of the epoch.                             *)
LEMMA LatencySamples ==
    ASSUME NEW x
    PROVE  _latency_stats(x).n = Len(x.latency_samples)
  BY DEF _latency_stats

(* At a boundary every bin of the epoch is recorded, and only then.        *)
LEMMA ClosingLedger ==
    ASSUME PathInductive, NEW d \in Domains, Closing(d)
    PROVE  /\ phase # "packets" /\ TelemetryType(d, telem[d]) /\ lost[d] \in [Queues[d] -> Amount]
           /\ Connected(d, telem[d], EpochBins[d]) /\ Sampled(d, telem[d]) /\ Balanced(d)
  <1>1. phase = d /\ in_epoch[d] >= EpochBins[d] /\ Open(d)
    BY DEF Closing, AtBoundary, Open
  <1>2. phase # "packets"
    BY <1>1, TwoDomains
  <1>3. DomainType(d) /\ in_epoch[d] <= EpochBins[d] /\ Ledger(d)
    BY DEF PathInductive, PathType, Progress
  <1>4. in_epoch[d] = EpochBins[d]
    BY <1>1, <1>3, ShapeFields DEF DomainType
  <1> QED
    BY <1>1, <1>2, <1>3, <1>4 DEF Ledger, DomainType

(* Bin after bin, the free descriptors telescope.                          *)
LEMMA GrowthOfEpoch ==
    ASSUME NEW d \in Domains, NEW x, TelemetryType(d, x), Connected(d, x, EpochBins[d]),
           NEW q \in Queues[d], NEW e, e = finalize_epoch(Shape(d), x)
    PROVE  e.G_q[q] = e.adm[q].pkts - e.K_q[q]
  <1> DEFINE n == EpochBins[d]
             B == 0..(EpochBins[d] - 1)
             V == [k \in 0..n |-> x.V[k][q]]
             A == [k \in B |-> x.adm[k][q]]
             a == [k \in B |-> A[k]["pkts"]]
             K == Returns(d, x, q)
             f == [k \in B |-> V[k] - V[k + 1]]
  <1>1. n \in Nat /\ n > 0 /\ IsFiniteSet(B) /\ Bins(Shape(d)) = B
    BY ShapeFields
  <1>2. \A k \in 0..n : V[k] \in Int /\ V[k] = x.V[k][q]
    <2> SUFFICES ASSUME NEW k \in 0..n PROVE x.V[k][q] \in Int
      OBVIOUS
    <2>1. x.V \in [0..n -> [Queues[d] -> 0..D_q[d]]]
      BY DEF TelemetryType
    <2> HIDE DEF n, V
    <2>2. x.V[k][q] \in 0..D_q[d]
      BY <2>1
    <2> QED
      BY <2>2, RingDepth
  <1>3. \A k \in B : A[k] \in Amount /\ K[k] \in Int /\ K[k] = x.K[k][q]
    <2> SUFFICES ASSUME NEW k \in B
                 PROVE  x.adm[k][q] \in Amount /\ x.K[k][q] \in Int
      BY DEF Returns
    <2>1. x.adm \in Cells(d) /\ x.K \in [B -> [Queues[d] -> Nat]]
      BY DEF TelemetryType
    <2>2. x.adm \in [B -> [Queues[d] -> Amount]]
      BY <2>1 DEF Cells
    <2> HIDE DEF B
    <2>3. x.adm[k][q] \in Amount /\ x.K[k][q] \in Nat
      BY <2>1, <2>2
    <2> QED
      BY <2>3
  <1>4. \A k \in B : a[k] \in Int /\ a[k] = x.adm[k][q].pkts
    <2> SUFFICES ASSUME NEW k \in B PROVE a[k] \in Int /\ a[k] = x.adm[k][q].pkts
      OBVIOUS
    <2>1. A[k] \in Amount /\ a[k] = A[k].pkts /\ A[k] = x.adm[k][q]
      BY <1>3
    <2> HIDE DEF a, A, B
    <2> QED
      BY <2>1 DEF Amount
  <1>5. \A k \in B : k \in 0..n /\ k + 1 \in 0..n /\ k < n
    BY <1>1
  <1>6. \A k \in B : x.V[k + 1][q] = x.V[k][q] + x.K[k][q] - x.adm[k][q].pkts
    BY <1>5 DEF Connected
  <1>7. \A k \in B : f[k] \in Int /\ a[k] = f[k] + K[k]
    <2> SUFFICES ASSUME NEW k \in B PROVE f[k] \in Int /\ a[k] = f[k] + K[k]
      OBVIOUS
    <2>1. /\ f[k] = V[k] - V[k + 1] /\ V[k] \in Int /\ V[k + 1] \in Int
          /\ V[k] = x.V[k][q] /\ V[k + 1] = x.V[k + 1][q]
      BY <1>2, <1>5
    <2>2. /\ a[k] \in Int /\ K[k] \in Int /\ a[k] = x.adm[k][q].pkts /\ K[k] = x.K[k][q]
      BY <1>3, <1>4
    <2>3. x.V[k + 1][q] = x.V[k][q] + x.K[k][q] - x.adm[k][q].pkts
      BY <1>6
    <2> HIDE DEF f, V, a, K, B
    <2>4. V[k + 1] = V[k] + K[k] - a[k]
      BY <2>1, <2>2, <2>3
    <2> QED
      BY <2>1, <2>2, <2>4
  <1>8. \A k \in 0..(n - 1) : f[k] = V[k] - V[k + 1]
    OBVIOUS
  <1>9. /\ e.K_q[q] = SumFunctionOnSet(K, B)
        /\ e.G_q[q] = (D_q[d] - x.V[n][q]) - (D_q[d] - x.V[0][q])
        /\ e.adm[q] = EpochTotal(Shape(d), x.adm, q)
    BY EpochFinalized
  <1>10. EpochTotal(Shape(d), x.adm, q) = Total(A, B)
    BY <1>1 DEF EpochTotal
  <1>11. x.V[n][q] = V[n] /\ x.V[0][q] = V[0] /\ V[0] \in Int /\ V[n] \in Int
    <2>1. 0 \in 0..n /\ n \in 0..n
      BY <1>1
    <2> QED
      BY <1>2, <2>1
  <1>12. Total(A, B)["pkts"] = SumFunctionOnSet(a, B)
    BY TotalField DEF Fields
  <1>13. B = 0..(n - 1)
    OBVIOUS
  <1> HIDE DEF V, A, a, K, f
  <1>14. SumFunctionOnSet(f, 0..(n - 1)) = V[0] - V[n]
    <2> HIDE DEF n
    <2> QED
      BY <1>1, <1>2, <1>8, SumTelescopes
  <1> HIDE DEF B
  <1>15. SumFunctionOnSet(a, B) = SumFunctionOnSet(f, B) + SumFunctionOnSet(K, B)
    BY <1>1, <1>3, <1>7, SumPlus
  <1>16. SumFunctionOnSet(K, B) \in Int
    BY <1>1, <1>3, SumInteger
  <1>17. e.adm[q].pkts = V[0] - V[n] + e.K_q[q] /\ e.K_q[q] \in Int
    BY <1>9, <1>10, <1>12, <1>13, <1>14, <1>15, <1>16
  <1>18. e.G_q[q] = V[0] - V[n]
    <2>1. D_q[d] \in Nat
      BY ShapeFields
    <2> QED
      BY <1>9, <1>11, <2>1
  <1> QED
    BY <1>11, <1>17, <1>18

(* So the growth of a closing epoch matches.                               *)
LEMMA GrowthInductive == PathInductive => GrowthMatches
  <1> SUFFICES ASSUME PathInductive, NEW d \in Domains, Closing(d),
                      NEW q \in Queues[d], NEW e, e = finalize_epoch(Shape(d), telem[d])
               PROVE  e.G_q[q] = e.adm[q].pkts - e.K_q[q]
    BY DEF GrowthMatches
  <1> QED
    BY ClosingLedger, GrowthOfEpoch

(* And every packet is counted once.                                       *)
LEMMA OnceInductive == PathInductive => EachPacketOnce
  <1> SUFFICES ASSUME PathInductive PROVE EachPacketOnce
    OBVIOUS
  <1>1. ASSUME NEW d \in Domains, Closing(d), NEW e, e = finalize_epoch(Shape(d), telem[d])
        PROVE  /\ \A q \in Queues[d] :
                    /\ e.gen[q].pkts = e.adm[q].pkts + e.drop[q].pkts + lost[d][q].pkts
                    /\ e.gen[q].bytes = e.adm[q].bytes + e.drop[q].bytes + lost[d][q].bytes
               /\ e.latency.n = Total(e.adm, Queues[d]).pkts
    <2>1. phase # "packets" /\ Sampled(d, telem[d]) /\ Balanced(d)
      BY <1>1, ClosingLedger
    <2>2. ASSUME NEW q \in Queues[d], NEW y \in Fields
          PROVE  e.gen[q][y] = e.adm[q][y] + e.drop[q][y] + lost[d][q][y]
      <3>1. /\ e.gen[q][y] = Recorded(d, telem[d], "gen", q, y)
            /\ e.adm[q][y] = Recorded(d, telem[d], "adm", q, y)
            /\ e.drop[q][y] = Recorded(d, telem[d], "drop", q, y)
        BY <1>1, EpochFinalized DEF Recorded
      <3> QED
        BY <2>1, <3>1 DEF Balanced
    <2>3. "pkts" \in Fields /\ "bytes" \in Fields
      BY DEF Fields
    <2>4. \A q \in Queues[d] :
             /\ e.gen[q].pkts = e.adm[q].pkts + e.drop[q].pkts + lost[d][q].pkts
             /\ e.gen[q].bytes = e.adm[q].bytes + e.drop[q].bytes + lost[d][q].bytes
      BY <2>2, <2>3
    <2>5. e.latency = _latency_stats(telem[d]) /\ e.adm = Admissions(d, telem[d])
      BY <1>1, ShapeFields DEF finalize_epoch, Admissions
    <2>6. e.latency.n = Total(e.adm, Queues[d]).pkts
      BY <2>1, <2>5, LatencySamples DEF Sampled, Admissions
    <2> QED
      BY <2>4, <2>6
  <1>2. LinkCounts
    BY DEF PathInductive
  <1> QED
    BY <1>1, <1>2 DEF EachPacketOnce, LinkCounts

-----------------------------------------------------------------------------
(* A product grows with its factors.                                       *)
LEMMA ProductMonotone ==
    ASSUME NEW a \in Nat, NEW b \in Nat, NEW c \in Nat, a <= b
    PROVE  c * a <= c * b /\ a * c <= b * c /\ a * c \in Nat /\ c * a \in Nat
  <1>1. PICK j \in Nat : b = a + j
    <2>1. b - a \in Nat /\ b = a + (b - a)
      OBVIOUS
    <2> QED
      BY <2>1
  <1>2. c * b = c * a + c * j /\ b * c = a * c + j * c /\ c * j \in Nat /\ j * c \in Nat
        /\ c * a \in Nat /\ a * c \in Nat
    BY <1>1
  <1> QED
    BY <1>2

(* A weighted mean of shares, each at most 1.                              *)
LEMMA WeightedShares ==
    ASSUME NEW u \in Nat, NEW v \in Nat, NEW w \in Nat, NEW D \in Nat, NEW o \in Nat,
           NEW U \in Nat, NEW g \in Nat, NEW r \in Nat, U <= D, g <= D, r <= o
    PROVE  (u * U + v * g) * o + w * r * D \in 0..((u + v + w) * D * o)
  <1>1. u * U <= u * D /\ v * g <= v * D /\ u * U \in Nat /\ v * g \in Nat
    BY ProductMonotone
  <1> DEFINE a == u * U + v * g
             b == u * D + v * D
             x == w * r
             y == w * o
  <1>2. u * D \in Nat /\ v * D \in Nat
    OBVIOUS
  <1>3. a \in Nat /\ b \in Nat /\ a <= b
    BY <1>1, <1>2
  <1>4. x \in Nat /\ y \in Nat /\ x <= y
    BY ProductMonotone
  <1>5. b * o + y * D = (u + v + w) * D * o
    OBVIOUS
  <1> HIDE DEF a, b, x, y
  <1>6. a * o <= b * o /\ a * o \in Nat
    BY <1>3, ProductMonotone
  <1>7. x * D <= y * D /\ x * D \in Nat
    BY <1>4, ProductMonotone
  <1>8. b * o \in Nat /\ y * D \in Nat
    BY <1>3, <1>4
  <1> DEFINE s == a * o
             t == x * D
             p == b * o
             m == y * D
  <1>9. s \in Nat /\ t \in Nat /\ p \in Nat /\ m \in Nat /\ s <= p /\ t <= m
    BY <1>6, <1>7, <1>8
  <1> HIDE DEF s, t, p, m
  <1>10. s + t \in 0..(p + m)
    BY <1>9
  <1> QED
    BY <1>5, <1>10 DEF s, t, p, m, a, x

(* The pressure: drops are at most what was offered, the occupancy and its *)
(* growth at most the depth of the ring.                                   *)
LEMMA PressureInductive == PathInductive => PressureUnclipped
  <1> SUFFICES ASSUME PathInductive, NEW d \in Domains, Closing(d), NEW q \in Queues[d],
                      NEW P, P = Pressure(Shape(d), telem[d], q)
               PROVE  P.num \in 0..P.den
    BY DEF PressureUnclipped
  <1> DEFINE x == telem[d]
             D == D_q[d]
             U0 == D - x.V[0][q]
             U == D - x.V[EpochBins[d]][q]
             g == Max({0, U - U0})
             gen == EpochTotal(Shape(d), x.gen, q).bytes
             r == EpochTotal(Shape(d), x.drop, q).bytes
             o == gen + Weight.eps
  <1>1. /\ TelemetryType(d, x) /\ Balanced(d) /\ phase # "packets"
        /\ lost[d] \in [Queues[d] -> Amount]
    BY ClosingLedger
  <1>2. D \in Nat /\ EpochBins[d] \in Nat
    BY ShapeFields
  <1>3. Weight.w1 \in Nat /\ Weight.w2 \in Nat /\ Weight.w3 \in Nat /\ Weight.eps \in Nat
    BY DataPathAssumption
  <1>4. x.V[0][q] \in 0..D /\ x.V[EpochBins[d]][q] \in 0..D
    <2>1. 0 \in 0..EpochBins[d] /\ EpochBins[d] \in 0..EpochBins[d]
      BY <1>2
    <2>2. x.V \in [0..EpochBins[d] -> [Queues[d] -> 0..D]]
      BY <1>1 DEF TelemetryType
    <2> HIDE DEF x, D
    <2> QED
      BY <2>1, <2>2
  <1>5. U0 \in Nat /\ U \in Nat /\ U0 <= D /\ U <= D
    BY <1>2, <1>4
  <1>6. g \in Nat /\ g <= D
    <2> DEFINE i == U - U0
    <2>1. i \in Int /\ i <= D
      BY <1>2, <1>5
    <2> HIDE DEF i, D
    <2>2. Max({0, i}) \in {0, i} /\ Max({0, i}) >= 0
      <3>1. \E m \in {0, i} : \A n \in {0, i} : n <= m
        <4>1. CASE i <= 0
          BY <2>1, <4>1
        <4>2. CASE i >= 0
          BY <2>1, <4>2
        <4> QED
          BY <2>1, <4>1, <4>2
      <3> QED
        BY <2>1, <3>1 DEF Max
    <2> QED
      BY <1>2, <2>1, <2>2 DEF i
  <1>7. gen \in Nat /\ r \in Nat /\ r <= gen
    <2>1. "bytes" \in Fields
      BY DEF Fields
    <2>2. /\ Recorded(d, x, "gen", q, "bytes") \in Nat
          /\ Recorded(d, x, "adm", q, "bytes") \in Nat
          /\ Recorded(d, x, "drop", q, "bytes") \in Nat
      BY <1>1, <2>1, RecordedType
    <2>3. lost[d][q]["bytes"] \in Nat
      BY <1>1, <2>1, AmountFields
    <2>4. Recorded(d, x, "gen", q, "bytes")
             = Recorded(d, x, "adm", q, "bytes") + Recorded(d, x, "drop", q, "bytes")
               + lost[d][q]["bytes"]
      BY <1>1, <2>1 DEF Balanced
    <2>5. gen = Recorded(d, x, "gen", q, "bytes") /\ r = Recorded(d, x, "drop", q, "bytes")
      BY DEF Recorded
    <2> QED
      BY <2>2, <2>3, <2>4, <2>5
  <1>8. o \in Nat /\ r <= o
    BY <1>3, <1>7
  <1>9. /\ P.num = (Weight.w1 * U + Weight.w2 * g) * o + Weight.w3 * r * D
        /\ P.den = (Weight.w1 + Weight.w2 + Weight.w3) * D * o
    <2>1. /\ Shape(d).H = EpochBins[d] /\ Shape(d).D_q = D /\ Shape(d).eps = Weight.eps
          /\ Shape(d).w1 = Weight.w1 /\ Shape(d).w2 = Weight.w2 /\ Shape(d).w3 = Weight.w3
      BY DEF Shape
    <2> QED
      BY <2>1 DEF Pressure, Offered
  <1> DEFINE u == Weight.w1
             v == Weight.w2
             w == Weight.w3
  <1>10. /\ u \in Nat /\ v \in Nat /\ w \in Nat /\ D \in Nat /\ o \in Nat
         /\ U \in Nat /\ g \in Nat /\ r \in Nat /\ U <= D /\ g <= D /\ r <= o
    BY <1>2, <1>3, <1>5, <1>6, <1>7, <1>8
  <1>11. P.num = (u * U + v * g) * o + w * r * D /\ P.den = (u + v + w) * D * o
    BY <1>9
  <1> HIDE DEF x, D, U0, U, g, gen, r, o, u, v, w
  <1>12. (u * U + v * g) * o + w * r * D \in 0..((u + v + w) * D * o)
    BY <1>10, WeightedShares
  <1> QED
    BY <1>11, <1>12

-----------------------------------------------------------------------------
(* Every step keeps the ledger.                                            *)
LEMMA StepKeepsLedger ==
    ASSUME PathInductive, Inductive, Calls, [NextPath]_allVars
    PROVE  PathInductive'
  <1>1. TypeOK
    BY DEF Inductive
  <1>2. CASE Pull
    BY <1>2, PullKeeps
  <1>3. CASE Packet
    <2>1. \A p \in todo : p.size \in Sizes /\ p.t \in Nat
      BY DEF Calls
    <2> QED
      BY <1>1, <1>3, <2>1, PacketKeeps
  <1>4. CASE EndBin
    BY <1>4, EndBinKeeps
  <1>5. CASE _on_stateless_epoch_boundary
    BY <1>5, StatelessBoundaryKeeps
  <1>6. CASE NoStatelessBoundary
    BY <1>6, NoStatelessBoundaryKeeps
  <1>7. CASE _on_stateful_epoch_boundary
    BY <1>7, StatefulBoundaryKeeps
  <1>8. CASE Release
    BY <1>8, ReleaseKeeps
  <1>9. CASE CloseStateful
    BY <1>9, CloseStatefulKeeps
  <1>10. CASE NoStatefulBoundary
    BY <1>10, NoStatefulBoundaryKeeps
  <1>11. CASE Done \/ UNCHANGED allVars
    BY <1>11, StutterKeeps DEF Done
  <1> QED
    BY <1>2, <1>3, <1>4, <1>5, <1>6, <1>7, <1>8, <1>9, <1>10, <1>11 DEF NextPath

(* The ledger holds in every state of the data path.                       *)
THEOREM LedgerAlwaysKept == SpecPath => []PathInductive
  <1>1. SpecPath => []Inductive
    BY LinkUsedInOrder, InductiveHolds, PTL
  <1>2. InitPath => Calls /\ PathInductive
    BY InitCalls, InitPathInductive
  <1>3. Inductive /\ Calls /\ PathInductive /\ [NextPath]_allVars
           => Calls' /\ PathInductive'
    BY StepCalls, StepKeepsLedger
  <1> QED
    BY <1>1, <1>2, <1>3, PTL DEF SpecPath

(* Every packet of an epoch is counted once, by queue and by domain, every *)
(* admission has its sample, and queues and link agree on a bin: for all   *)
(* batches, tables, handoffs, service times and arbiters.                  *)
THEOREM PacketsAlwaysCountedOnce == SpecPath => []EachPacketOnce
  BY LedgerAlwaysKept, OnceInductive, PTL

(* The growth of an epoch is what it admitted beyond what it got back.     *)
THEOREM GrowthAlwaysMatches == SpecPath => []GrowthMatches
  BY LedgerAlwaysKept, GrowthInductive, PTL

(* The clip of the pressure never hides a ratio above 1.                   *)
THEOREM PressureNeverClipped == SpecPath => []PressureUnclipped
  BY LedgerAlwaysKept, PressureInductive, PTL

-----------------------------------------------------------------------------
(* Whole bins in the run.                                                  *)
LEMMA RunBinsType == RunBins \in Nat /\ EndOfRun \in Nat /\ EndOfRun = RunBins * BinNs
  <1> DEFINE m == Later(EpochBins["stateless"] * NumEpochs["stateless"],
                        EpochBins["stateful"] * NumEpochs["stateful"])
  <1>1. m \in Nat
    <2> DEFINE a == EpochBins["stateless"] * NumEpochs["stateless"]
               b == EpochBins["stateful"] * NumEpochs["stateful"]
    <2>1. a \in Nat /\ b \in Nat
      <3>1. /\ EpochBins["stateless"] \in Nat /\ NumEpochs["stateless"] \in Nat
            /\ EpochBins["stateful"] \in Nat /\ NumEpochs["stateful"] \in Nat
        BY DataPathAssumption DEF Egress
      <3> QED
        BY <3>1
    <2>2. m = Later(a, b)
      OBVIOUS
    <2> HIDE DEF a, b, m
    <2> QED
      BY <2>1, <2>2 DEF Later
  <1>2. BinNs \in Nat \ {0} /\ EndOfRun = BinNs * m
    BY DataPathAssumption DEF EndOfRun
  <1> HIDE DEF m
  <1>3. BinNs * m = m * BinNs /\ m * BinNs \in Nat /\ (m * BinNs) \div BinNs = m
    BY <1>1, <1>2, DivTimes
  <1> QED
    BY <1>1, <1>2, <1>3 DEF RunBins

(* The queue's own constants are those of QueuePipeline.                   *)
LEMMA PipelineAssumption ==
    ASSUME NEW d \in Domains, NEW q
    PROVE  Queue(d, q)!QueuePipelineAssumption
  <1>1. /\ D_q[d] \in Nat \ {0} /\ ServiceTimes[d] \subseteq Nat \ {0} /\ TWb \in Nat
        /\ BinNs \in Nat \ {0} /\ MaxPkts \in Nat /\ MaxTime \in Nat /\ Setup \in Nat
    BY DataPathAssumption, DataPathQueuesAssumption, PCIeLinkAssumption
  <1>2. Transits \subseteq Nat
    BY <1>1, FifoType DEF Transits
  <1>3. RunBins \in Nat
    BY RunBinsType
  <1> QED
    BY <1>1, <1>2, <1>3 DEF Queue!QueuePipelineAssumption

(* The instances count with the same operator.                             *)
LEMMA CardinalityAlike ==
    ASSUME NEW d, NEW q
    PROVE  \A S : Queue(d, q)!Cardinality(S) = Cardinality(S)
  BY DEF Queue!Cardinality, Cardinality

(* The queue of QueuePipeline sees the same credits, returns and counters. *)
LEMMA AdvancedAlike ==
    ASSUME NEW d \in Domains, NEW q, NEW x, x = pipeline[d][q], QueueType(d, x),
           NEW t, NEW a, a = advanced(d, x, t)
    PROVE  /\ a.credits = Queue(d, q)!CreditsAt(t) /\ a.heap = x.heap \ Queue(d, q)!Due(t)
           /\ InPackets(a.stats) = Queue(d, q)!StatsAt(t)
           /\ a.now = t /\ a.next_free = x.next_free
           /\ a.admitted = x.admitted /\ a.row = x.row
           /\ a.stats.u_max = x.stats.u_max
  <1> DEFINE due == {p \in x.heap : p.back <= t}
             c == Least(D_q[d], x.credits + Cardinality(due))
             n == x.credits + Cardinality(due)
             e == IF n <= D_q[d] THEN n ELSE D_q[d]
  <1>1. x.credits \in 0..D_q[d] /\ D_q[d] \in Nat /\ IsFiniteSet(x.heap)
    BY RingDepth DEF QueueType
  <1>2. IsFiniteSet(due)
    BY <1>1, FS_Subset
  <1>3. Cardinality(due) \in Nat
    BY <1>2, FS_CardinalityType
  <1>4. c = e
    BY <1>1, <1>3 DEF Least
  <1>5. a = [x EXCEPT !.credits = c, !.heap = @ \ due, !.now = t,
                      !.stats.returned = @ + (c - x.credits)]
    BY DEF advanced
  <1>6. DOMAIN x = {"credits", "heap", "next_free", "now", "stats", "row", "admitted"}
        /\ DOMAIN x.stats = {"adm", "drop", "credit_drop", "pcie_drop", "returned", "u_max",
                             "latency"}
    BY DEF QueueType, StatsType
  <1>7. Queue(d, q)!Due(t) = due /\ Queue(d, q)!CreditsAt(t) = e
    BY CardinalityAlike DEF Queue!Due, Queue!CreditsAt
  <1>8. Queue(d, q)!StatsAt(t) =
          [InPackets(x.stats) EXCEPT !.returned = @ + (e - x.credits)]
    BY <1>7 DEF Queue!StatsAt
  <1> HIDE DEF due, c, e
  <1>9. /\ a.credits = c /\ a.heap = x.heap \ due /\ a.now = t
        /\ a.next_free = x.next_free /\ a.admitted = x.admitted /\ a.row = x.row
        /\ a.stats = [x.stats EXCEPT !.returned = @ + (c - x.credits)]
    BY <1>5, <1>6
  <1>10. InPackets(a.stats) = [InPackets(x.stats) EXCEPT !.returned = @ + (c - x.credits)]
    BY <1>6, <1>9 DEF InPackets
  <1>11. a.stats.u_max = x.stats.u_max
    BY <1>6, <1>9
  <1> QED
    BY <1>4, <1>7, <1>8, <1>9, <1>10, <1>11

(* The counters in packets, as a record of six fields.                     *)
PacketFields == {"adm", "drop", "credit_drop", "pcie_drop", "returned", "u_max"}

LEMMA InPacketsFields ==
    ASSUME NEW c
    PROVE  /\ DOMAIN InPackets(c) = PacketFields
           /\ InPackets(c) = [f \in PacketFields |-> InPackets(c)[f]]
           /\ InPackets(c).adm = c.adm.pkts /\ InPackets(c).drop = c.drop.pkts
           /\ InPackets(c).credit_drop = c.credit_drop.pkts
           /\ InPackets(c).pcie_drop = c.pcie_drop.pkts
           /\ InPackets(c).returned = c.returned /\ InPackets(c).u_max = c.u_max
  BY DEF InPackets, PacketFields

(* One packet more in one or two counters.                                 *)
LEMMA InPacketsCounted ==
    ASSUME NEW c, NEW e, NEW k \in {"credit_drop", "pcie_drop"},
           e.drop.pkts = c.drop.pkts + 1, e[k].pkts = c[k].pkts + 1,
           \A f \in {"adm", "credit_drop", "pcie_drop", "returned", "u_max"} \ {k} :
              e[f] = c[f]
    PROVE  InPackets(e) = [InPackets(c) EXCEPT !.drop = @ + 1, ![k] = @ + 1]
  <1> DEFINE m == InPackets(c)
             r == [m EXCEPT !.drop = @ + 1, ![k] = @ + 1]
             n == InPackets(e)
  <1>1. /\ DOMAIN m = PacketFields
        /\ m.adm = c.adm.pkts /\ m.drop = c.drop.pkts
        /\ m.credit_drop = c.credit_drop.pkts /\ m.pcie_drop = c.pcie_drop.pkts
        /\ m.returned = c.returned /\ m.u_max = c.u_max
    BY InPacketsFields
  <1>2. /\ n = [f \in PacketFields |-> n[f]]
        /\ n.adm = e.adm.pkts /\ n.drop = e.drop.pkts
        /\ n.credit_drop = e.credit_drop.pkts /\ n.pcie_drop = e.pcie_drop.pkts
        /\ n.returned = e.returned /\ n.u_max = e.u_max
    BY InPacketsFields
  <1> HIDE DEF m, n
  <1>3. r = [f \in PacketFields |-> r[f]]
    BY <1>1
  <1>4. /\ r.adm = m.adm /\ r.drop = m.drop + 1 /\ r[k] = m[k] + 1
        /\ k # "credit_drop" => r.credit_drop = m.credit_drop
        /\ k # "pcie_drop" => r.pcie_drop = m.pcie_drop
        /\ r.returned = m.returned /\ r.u_max = m.u_max
    BY <1>1 DEF PacketFields
  <1> HIDE DEF r
  <1>5. \A f \in PacketFields : n[f] = r[f]
    BY <1>1, <1>2, <1>4 DEF PacketFields
  <1>6. n = r
    BY <1>2, <1>3, <1>5
  <1> QED
    BY <1>6 DEF n, r, m

(* A packet without a credit is the drop of QueuePipeline.                 *)
LEMMA CreditDropAlike ==
    ASSUME NEW d \in Domains, NEW q, NEW x, x = pipeline[d][q], QueueType(d, x),
           NEW t, NEW a, a = advanced(d, x, t), a.credits <= 0, NEW size \in Nat,
           pipeline'[d][q] = dropped_for_credit(a, size)
    PROVE  Queue(d, q)!credit_drop(t)
  <1> DEFINE y == pipeline'[d][q]
  <1>1. /\ a.credits = Queue(d, q)!CreditsAt(t) /\ a.heap = x.heap \ Queue(d, q)!Due(t)
        /\ InPackets(a.stats) = Queue(d, q)!StatsAt(t)
        /\ a.now = t /\ a.next_free = x.next_free
        /\ a.admitted = x.admitted /\ a.row = x.row
    BY AdvancedAlike
  <1>2. QueueType(d, a)
    BY Advanced
  <1>3. DOMAIN a = {"credits", "heap", "next_free", "now", "stats", "row", "admitted"}
        /\ DOMAIN a.stats = {"adm", "drop", "credit_drop", "pcie_drop", "returned", "u_max",
                             "latency"}
    BY <1>2 DEF QueueType, StatsType
  <1>4. y = [a EXCEPT !.stats.drop = More(@, 1, size), !.stats.credit_drop = More(@, 1, size)]
    BY DEF dropped_for_credit
  <1> HIDE DEF y
  <1>5. /\ y.credits = a.credits /\ y.heap = a.heap /\ y.now = a.now
        /\ y.next_free = a.next_free /\ y.admitted = a.admitted /\ y.row = a.row
        /\ y.stats = [a.stats EXCEPT !.drop = More(@, 1, size),
                                     !.credit_drop = More(@, 1, size)]
    BY <1>3, <1>4
  <1>6. InPackets(y.stats) = [InPackets(a.stats) EXCEPT !.drop = @ + 1, !.credit_drop = @ + 1]
    <2>1. /\ y.stats.drop.pkts = a.stats.drop.pkts + 1
          /\ y.stats.credit_drop.pkts = a.stats.credit_drop.pkts + 1
      BY <1>3, <1>5 DEF More
    <2>2. \A f \in {"adm", "credit_drop", "pcie_drop", "returned", "u_max"} \ {"credit_drop"} :
             y.stats[f] = a.stats[f]
      BY <1>3, <1>5
    <2> QED
      BY <2>1, <2>2, InPacketsCounted
  <1> QED
    BY <1>1, <1>5, <1>6 DEF Queue!credit_drop, y

(* A packet the link refuses is the other drop of QueuePipeline.           *)
LEMMA LinkDropAlike ==
    ASSUME NEW d \in Domains, NEW q, NEW x, x = pipeline[d][q], QueueType(d, x),
           NEW t, NEW a, a = advanced(d, x, t), a.credits > 0, NEW size \in Nat,
           pipeline'[d][q] = dropped_by_link(a, size)
    PROVE  Queue(d, q)!record_pcie_drop(t)
  <1> DEFINE y == pipeline'[d][q]
  <1>1. /\ a.credits = Queue(d, q)!CreditsAt(t) /\ a.heap = x.heap \ Queue(d, q)!Due(t)
        /\ InPackets(a.stats) = Queue(d, q)!StatsAt(t)
        /\ a.now = t /\ a.next_free = x.next_free
        /\ a.admitted = x.admitted /\ a.row = x.row
    BY AdvancedAlike
  <1>2. QueueType(d, a)
    BY Advanced
  <1>3. DOMAIN a = {"credits", "heap", "next_free", "now", "stats", "row", "admitted"}
        /\ DOMAIN a.stats = {"adm", "drop", "credit_drop", "pcie_drop", "returned", "u_max",
                             "latency"}
    BY <1>2 DEF QueueType, StatsType
  <1>4. y = [a EXCEPT !.stats.drop = More(@, 1, size), !.stats.pcie_drop = More(@, 1, size)]
    BY DEF dropped_by_link
  <1> HIDE DEF y
  <1>5. /\ y.credits = a.credits /\ y.heap = a.heap /\ y.now = a.now
        /\ y.next_free = a.next_free /\ y.admitted = a.admitted /\ y.row = a.row
        /\ y.stats = [a.stats EXCEPT !.drop = More(@, 1, size),
                                     !.pcie_drop = More(@, 1, size)]
    BY <1>3, <1>4
  <1>6. InPackets(y.stats) = [InPackets(a.stats) EXCEPT !.drop = @ + 1, !.pcie_drop = @ + 1]
    <2>1. /\ y.stats.drop.pkts = a.stats.drop.pkts + 1
          /\ y.stats.pcie_drop.pkts = a.stats.pcie_drop.pkts + 1
      BY <1>3, <1>5 DEF More
    <2>2. \A f \in {"adm", "credit_drop", "pcie_drop", "returned", "u_max"} \ {"pcie_drop"} :
             y.stats[f] = a.stats[f]
      BY <1>3, <1>5
    <2> QED
      BY <2>1, <2>2, InPacketsCounted
  <1> QED
    BY <1>1, <1>5, <1>6 DEF Queue!record_pcie_drop, y

(* An admission is the one of QueuePipeline.                               *)
LEMMA AdmitAlike ==
    ASSUME NEW d \in Domains, NEW q, NEW x, x = pipeline[d][q], QueueType(d, x),
           NEW t, NEW a, a = advanced(d, x, t), a.credits > 0, NEW size \in Nat,
           NEW arrive, NEW service,
           pipeline'[d][q] = taken(d, a, t, size, arrive, service)
    PROVE  Queue(d, q)!admit(t, arrive, service)
  <1> DEFINE y == pipeline'[d][q]
  <1>1. /\ a.credits = Queue(d, q)!CreditsAt(t) /\ a.heap = x.heap \ Queue(d, q)!Due(t)
        /\ InPackets(a.stats) = Queue(d, q)!StatsAt(t)
        /\ a.now = t /\ a.next_free = x.next_free
        /\ a.admitted = x.admitted /\ a.row = x.row
    BY AdvancedAlike, SMTT(60)
  <1>2. QueueType(d, a)
    BY Advanced
  <1>3. DOMAIN a = {"credits", "heap", "next_free", "now", "stats", "row", "admitted"}
        /\ DOMAIN a.stats = {"adm", "drop", "credit_drop", "pcie_drop", "returned", "u_max",
                             "latency"}
    BY <1>2 DEF QueueType, StatsType
  <1> DEFINE done == Later(arrive, a.next_free) + service
             most == Later(a.stats.u_max, D_q[d] - (a.credits - 1))
  <1>4. y = [a EXCEPT !.credits = @ - 1,
                  !.heap = @ \cup {[id |-> a.admitted, back |-> done + TWb]},
                  !.next_free = done,
                  !.admitted = @ + 1,
                  !.stats.adm = More(@, 1, size),
                  !.stats.u_max = most,
                  !.stats.latency = Append(@, done - t)]
    BY DEF taken
  <1>5. Queue(d, q)!ServiceEnd(arrive, service) = done
    BY <1>1 DEF Queue!ServiceEnd, Queue!Larger, Later
  <1> HIDE DEF y, done, most
  <1>6. /\ y.credits = a.credits - 1 /\ y.now = a.now
        /\ y.heap = a.heap \cup {[id |-> a.admitted, back |-> done + TWb]}
        /\ y.next_free = done /\ y.admitted = a.admitted + 1 /\ y.row = a.row
        /\ y.stats = [a.stats EXCEPT !.adm = More(@, 1, size),
                  !.u_max = most,
                  !.latency = Append(@, done - t)]
    BY <1>3, <1>4
  <1>7. /\ y.stats.adm.pkts = a.stats.adm.pkts + 1 /\ y.stats.u_max = most
        /\ y.stats.drop = a.stats.drop /\ y.stats.credit_drop = a.stats.credit_drop
        /\ y.stats.pcie_drop = a.stats.pcie_drop
        /\ y.stats.returned = a.stats.returned
    BY <1>3, <1>6 DEF More
  <1>8. \A v, w : Queue(d, q)!Larger(v, w) = Later(v, w)
    BY DEF Queue!Larger, Later
  <1> DEFINE left == a.credits - 1
             m == Queue(d, q)!StatsAt(t)
             r == [m EXCEPT !.adm = @ + 1, !.u_max = Queue(d, q)!Larger(@, D_q[d] - left)]
             n == InPackets(y.stats)
  <1>9. InPackets(y.stats) = r
    <2>1. /\ DOMAIN m = PacketFields
          /\ m.adm = a.stats.adm.pkts /\ m.drop = a.stats.drop.pkts
          /\ m.credit_drop = a.stats.credit_drop.pkts
          /\ m.pcie_drop = a.stats.pcie_drop.pkts
          /\ m.returned = a.stats.returned /\ m.u_max = a.stats.u_max
      BY <1>1, InPacketsFields
    <2>2. /\ n = [f \in PacketFields |-> n[f]]
          /\ n.adm = y.stats.adm.pkts /\ n.drop = y.stats.drop.pkts
          /\ n.credit_drop = y.stats.credit_drop.pkts
          /\ n.pcie_drop = y.stats.pcie_drop.pkts
          /\ n.returned = y.stats.returned /\ n.u_max = y.stats.u_max
      BY InPacketsFields
    <2>3. Queue(d, q)!Larger(m.u_max, D_q[d] - left) = most
      BY <1>8, <2>1 DEF most
    <2> HIDE DEF m, n
    <2>4. r = [f \in PacketFields |-> r[f]]
      BY <2>1
    <2>5. /\ r.adm = m.adm + 1 /\ r.drop = m.drop /\ r.u_max = most
          /\ r.credit_drop = m.credit_drop /\ r.pcie_drop = m.pcie_drop
          /\ r.returned = m.returned
      BY <2>1, <2>3 DEF PacketFields
    <2> HIDE DEF r
    <2>6. \A f \in PacketFields : n[f] = r[f]
      BY <1>7, <2>1, <2>2, <2>5 DEF PacketFields
    <2>7. n = r
      BY <2>2, <2>4, <2>6
    <2> QED
      BY <2>7 DEF n
  <1>10. /\ y.credits = Queue(d, q)!CreditsAt(t) - 1
         /\ y.heap = (x.heap \ Queue(d, q)!Due(t)) \cup {[id |-> x.admitted, back |-> done + TWb]}
         /\ y.next_free = done /\ y.now = t /\ y.admitted = x.admitted + 1
         /\ y.row = x.row /\ Queue(d, q)!CreditsAt(t) > 0
    BY <1>1, <1>6
  <1> QED
    BY <1>1, <1>5, <1>9, <1>10 DEF Queue!admit, y

(* Advancing twice to the same time is advancing once.                     *)
LEMMA AdvancedTwice ==
    ASSUME NEW d \in Domains, NEW x, QueueType(d, x), NEW t, NEW a, a = advanced(d, x, t)
    PROVE  advanced(d, a, t) = a
  <1>1. QueueType(d, a)
    BY Advanced
  <1>2. /\ DOMAIN a = {"credits", "heap", "next_free", "now", "stats", "row", "admitted"}
        /\ DOMAIN a.stats = {"adm", "drop", "credit_drop", "pcie_drop", "returned", "u_max",
                             "latency"}
        /\ a.credits \in 0..D_q[d] /\ D_q[d] \in Nat /\ a.stats.returned \in Nat
    BY <1>1, RingDepth DEF QueueType, StatsType
  <1>3. /\ DOMAIN x = {"credits", "heap", "next_free", "now", "stats", "row", "admitted"}
        /\ DOMAIN x.stats = {"adm", "drop", "credit_drop", "pcie_drop", "returned", "u_max",
                             "latency"}
    BY DEF QueueType, StatsType
  <1>4. /\ a = [f \in DOMAIN a |-> a[f]] /\ a.stats = [f \in DOMAIN a.stats |-> a.stats[f]]
        /\ a.heap = x.heap \ {p \in x.heap : p.back <= t} /\ a.now = t
    BY <1>3 DEF advanced
  <1> DEFINE due == {p \in a.heap : p.back <= t}
             c == Least(D_q[d], a.credits + Cardinality(due))
             s == [a.stats EXCEPT !.returned = @ + (c - a.credits)]
             b == [a EXCEPT !.credits = c, !.heap = @ \ due, !.now = t,
                            !.stats.returned = @ + (c - a.credits)]
  <1>5. due = {}
    BY <1>4
  <1>6. c = a.credits
    <2>1. Cardinality(due) = 0
      BY <1>5, FS_EmptySet
    <2> QED
      BY <1>2, <2>1 DEF Least
  <1>7. advanced(d, a, t) = b
    BY DEF advanced
  <1> HIDE DEF due, c
  <1>8. s = a.stats
    <2>1. s = [f \in DOMAIN a.stats |-> s[f]] /\ \A f \in DOMAIN a.stats : s[f] = a.stats[f]
      <3>1. s.returned = a.stats.returned
        BY <1>2, <1>6
      <3> QED
        BY <1>2, <3>1
    <2> QED
      BY <1>4, <2>1
  <1>9. /\ b = [f \in DOMAIN a |-> b[f]]
        /\ b.credits = a.credits /\ b.heap = a.heap /\ b.now = a.now /\ b.stats = s
        /\ b.next_free = a.next_free /\ b.row = a.row /\ b.admitted = a.admitted
    <2>1. /\ b = [f \in DOMAIN a |-> b[f]] /\ b.credits = c /\ b.heap = a.heap \ due
          /\ b.now = t /\ b.next_free = a.next_free
          /\ b.row = a.row /\ b.admitted = a.admitted
      BY <1>2
    <2>2. b.stats = s
      BY <1>2
    <2> HIDE DEF b, s
    <2> QED
      BY <1>4, <1>5, <1>6, <2>1, <2>2
  <1> HIDE DEF b, s
  <1>10. \A f \in DOMAIN a : b[f] = a[f]
    BY <1>2, <1>8, <1>9
  <1>11. b = a
    BY <1>4, <1>9, <1>10
  <1> QED
    BY <1>7, <1>11

(* So a packet that has been let past its queue is not turned away there.  *)
LEMMA TryAdmitOnce ==
    ASSUME NEW d \in Domains, NEW x, QueueType(d, x), NEW t, NEW a, a = advanced(d, x, t),
           NEW size, NEW arrive, NEW service
    PROVE  /\ try_admit(d, a, t, size, arrive, service)
                = try_admit(d, x, t, size, arrive, service)
           /\ a.credits > 0 => try_admit(d, a, t, size, arrive, service)
                                  = taken(d, a, t, size, arrive, service)
           /\ a.credits <= 0 => try_admit(d, a, t, size, arrive, service)
                                   = dropped_for_credit(a, size)
           /\ a.credits \in Nat
  <1>1. advanced(d, a, t) = a
    BY AdvancedTwice
  <1>2. a.credits \in 0..D_q[d] /\ D_q[d] \in Nat
    BY Advanced, RingDepth DEF QueueType
  <1>3. a.credits > 0 => ~(a.credits <= 0)
    BY <1>2
  <1> QED
    BY <1>1, <1>2, <1>3 DEF try_admit

(* None of them touches the record of the bin before; all move the clock.  *)
LEMMA CallKeeps ==
    ASSUME NEW d \in Domains, NEW x, QueueType(d, x), NEW t, NEW a, a = advanced(d, x, t),
           NEW size, NEW arrive, NEW service, NEW y,
           \/ y = dropped_for_credit(a, size)
           \/ y = dropped_by_link(a, size)
           \/ y = taken(d, a, t, size, arrive, service)
    PROVE  y.row = x.row /\ y.now = t
  <1>1. DOMAIN x = {"credits", "heap", "next_free", "now", "stats", "row", "admitted"}
    BY DEF QueueType
  <1>2. a.row = x.row /\ a.now = t /\ DOMAIN a = DOMAIN x
    BY <1>1 DEF advanced
  <1>3. y.row = a.row /\ y.now = a.now
    <2>1. CASE y = dropped_for_credit(a, size)
      BY <1>1, <1>2, <2>1 DEF dropped_for_credit
    <2>2. CASE y = dropped_by_link(a, size)
      BY <1>1, <1>2, <2>2 DEF dropped_by_link
    <2>3. CASE y = taken(d, a, t, size, arrive, service)
      BY <1>1, <1>2, <2>3 DEF taken
    <2> QED
      BY <2>1, <2>2, <2>3
  <1> QED
    BY <1>2, <1>3

(* A call of try_admit is an admission or a drop of QueuePipeline.         *)
LEMMA TryAdmitAlike ==
    ASSUME NEW d \in Domains, NEW q, NEW x, x = pipeline[d][q], QueueType(d, x),
           NEW t, NEW size \in Nat, NEW arrive, NEW service,
           pipeline'[d][q] = try_admit(d, x, t, size, arrive, service)
    PROVE  /\ \/ Queue(d, q)!credit_drop(t)
              \/ Queue(d, q)!admit(t, arrive, service)
           /\ advanced(d, x, t).credits > 0 => Queue(d, q)!admit(t, arrive, service)
           /\ pipeline'[d][q].row = x.row /\ pipeline'[d][q].now = t
           /\ Handled(d, x, pipeline'[d][q], size)
  <1> DEFINE a == advanced(d, x, t)
  <1>1. /\ try_admit(d, a, t, size, arrive, service)
                = try_admit(d, x, t, size, arrive, service)
        /\ a.credits > 0 => try_admit(d, a, t, size, arrive, service)
                               = taken(d, a, t, size, arrive, service)
        /\ a.credits <= 0 => try_admit(d, a, t, size, arrive, service)
                                = dropped_for_credit(a, size)
        /\ a.credits \in Nat
    BY TryAdmitOnce
  <1>4. a = advanced(d, x, t)
    OBVIOUS
  <1> HIDE DEF a
  <1>2. CASE a.credits > 0
    <2>1. pipeline'[d][q] = taken(d, a, t, size, arrive, service)
          /\ pipeline'[d][q] = try_admit(d, a, t, size, arrive, service)
      BY <1>1, <1>2
    <2>2. pipeline'[d][q] = taken(d, a, t, size, arrive, service)
      BY <2>1
    <2>4. Queue(d, q)!admit(t, arrive, service)
      BY <1>2, <1>4, <2>2, AdmitAlike
    <2>5. pipeline'[d][q].row = x.row /\ pipeline'[d][q].now = t
      BY <1>4, <2>2, CallKeeps
    <2>3. Handled(d, x, pipeline'[d][q], size)
      BY <1>2, <1>4, <2>1, HandledAdmitted
    <2> QED
      BY <2>3, <2>4, <2>5
  <1>3. CASE a.credits <= 0
    <2>1. pipeline'[d][q] = dropped_for_credit(a, size)
      BY <1>1, <1>3
    <2>2. Queue(d, q)!credit_drop(t)
      BY <1>3, <1>4, <2>1, CreditDropAlike
    <2>5. pipeline'[d][q].row = x.row /\ pipeline'[d][q].now = t
      BY <1>4, <2>1, CallKeeps
    <2>3. Handled(d, x, pipeline'[d][q], size)
      BY <1>4, <2>1, HandledDropped
    <2>4. ~(a.credits > 0)
      BY <1>1, <1>3
    <2> QED
      BY <1>4, <2>2, <2>3, <2>4, <2>5
  <1> QED
    BY <1>1, <1>2, <1>3

-----------------------------------------------------------------------------
(* What the queues need beyond the ledger.  The packets a queue has        *)
(* counted, and of those the ones released since the record of the bin.    *)
Served(c) == c.adm.pkts + c.drop.pkts

Since(x) == Served(x.stats) - Served(x.row)

(* A queue follows the clock, and has room for every packet still to come. *)
OnTime(d, q) ==
    LET x == pipeline[d][q]
    IN  /\ x.row.adm.pkts \in Nat /\ x.row.drop.pkts \in Nat
        /\ x.now \in Int
        /\ phase # "packets" => x.now <= t_start
        /\ \A p \in todo : x.now <= p.t
        /\ phase = "packets" => Served(x.stats) + Cardinality(todo) <= MaxPkts
        /\ phase # "packets" => Since(x) >= 0
        /\ phase \in {"stateless", "stateful"} => Since(x) = 0
        /\ phase = "pull" /\ t_start = 0 => x.stats = NoCounts

(* The packets that a bucket's handoff holds, pending or finished.         *)
LeftOf(b) ==
    IF \E h \in finished : h.bucket = b
    THEN (CHOOSE h \in finished : h.bucket = b).left ELSE 0

Buffered(b) == IF b \in DOMAIN handoffs THEN handoffs[b].buffer.pkts ELSE 0

Waiting ==
    SumFunctionOnSet([b \in Buckets["stateful"] |-> Buffered(b) + LeftOf(b)],
                     Buckets["stateful"])

Pulled == t_start \div BinNs + (IF phase = "packets" THEN 1 ELSE 0)

(* No more wait than came, and what was released came too.                 *)
Room ==
    /\ Waiting * RunBins <= Pulled * MaxPkts
    /\ phase = "release" => \A q \in Queues["stateful"] :
          (Waiting + Since(pipeline["stateful"][q])) * RunBins <= Pulled * MaxPkts

(* No buffer holds more than its capacity, so what is released is of a     *)
(* size with a transit time.                                               *)
Buffers ==
    /\ \A b \in DOMAIN handoffs : handoffs[b].buffer.bytes <= BufferCapacity
    /\ \A h \in finished : h.left > 0 => h.avg_size \in 1..LargestEntry
    /\ \A h, g \in finished : h.bucket = g.bucket => h = g
    /\ phase # "release" => finished = {}

Clock ==
    /\ t_start <= EndOfRun
    /\ \A p \in todo : t_start <= p.t
    /\ phase \notin {"pull", "packets"} => t_start > 0

Driven ==
    /\ Clock /\ Buffers /\ Room
    /\ \A d \in Domains : \A q \in Queues[d] : OnTime(d, q)

(* The bin of a queue, in QueuePipeline and in the data path.              *)
LEMMA BinOfQueue ==
    ASSUME Calls, Clock, NEW d, NEW q, NEW n, n = t_start \div BinNs
    PROVE  /\ t_start \in Nat /\ n \in Nat /\ t_start = n * BinNs /\ BinNs \in Nat \ {0}
           /\ ~Idle => Queue(d, q)!BinStart = t_start /\ Queue(d, q)!BinEnd = t_end
           /\ Idle => Queue(d, q)!BinEnd = t_start
           /\ t_start < EndOfRun => n < RunBins
           /\ n <= RunBins
           /\ t_start > 0 => n >= 1
           /\ t_end \div BinNs = n + 1
  <1>1. PICK k \in Nat : t_start = k * BinNs
    BY DEF Calls
  <1>2. BinNs \in Nat \ {0}
    BY DataPathAssumption
  <1>3. n = k /\ n \in Nat /\ t_start \in Nat /\ t_start = n * BinNs
    <2>1. (k * BinNs) \div BinNs = k
      BY <1>2, DivTimes
    <2>2. k * BinNs \in Nat
      BY <1>2, NatProducts
    <2> QED
      BY <1>1, <2>1, <2>2
  <1>4. (n + 1) * BinNs = n * BinNs + BinNs /\ ((n + 1) * BinNs) \div BinNs = n + 1
    <2>1. n + 1 \in Nat
      BY <1>3
    <2>2. ((n + 1) * BinNs) \div BinNs = n + 1
      BY <1>2, <2>1, DivTimes
    <2> QED
      BY <1>2, <1>3, <2>2
  <1>5. t_end = (n + 1) * BinNs
    BY <1>3, <1>4 DEF t_end
  <1>6. RunBins \in Nat /\ EndOfRun \in Nat /\ EndOfRun = RunBins * BinNs
    BY RunBinsType
  <1>7. t_start < EndOfRun <=> n < RunBins
    BY <1>2, <1>3, <1>6, DivBelow
  <1>8. n <= RunBins
    <2>1. CASE t_start < EndOfRun
      BY <1>3, <1>6, <1>7, <2>1
    <2>2. CASE t_start = EndOfRun
      <3>1. n = RunBins
        BY <2>2 DEF RunBins
      <3> QED
        BY <1>6, <3>1
    <2> QED
      BY <1>3, <1>6, <2>1, <2>2 DEF Clock
  <1>9. t_start > 0 => n >= 1
    <2>1. n = 0 => t_start = 0
      BY <1>2, <1>3
    <2> QED
      BY <1>3, <2>1
  <1>10. ~Idle => Queue(d, q)!BinStart = t_start /\ Queue(d, q)!BinEnd = t_end
    BY <1>3, <1>5 DEF Queue!BinStart, Queue!BinEnd
  <1>11. Idle => Queue(d, q)!BinEnd = t_start
    <2>1. n - 1 + 1 = n
      BY <1>3
    <2>2. Idle => Queue(d, q)!BinEnd = (n - 1 + 1) * BinNs
      BY DEF Queue!BinEnd
    <2> QED
      BY <1>3, <2>1, <2>2
  <1> QED
    BY <1>2, <1>3, <1>4, <1>5, <1>7, <1>8, <1>9, <1>10, <1>11

(* What a step of a queue sees of the data path.                           *)
Follows(d, q) == Queue(d, q)!Next \/ UNCHANGED Queue(d, q)!vars

(* A queue nobody calls, in a bin or between two.                          *)
LEMMA UntouchedFollows ==
    ASSUME NEW d, NEW q, pipeline'[d][q] = pipeline[d][q], t_start' = t_start,
           Idle' <=> Idle
    PROVE  Follows(d, q)
  BY DEF Follows, Queue!vars

(* The counters of a bin that starts are those of QueuePipeline.           *)
LEMMA NoCountsAlike == ASSUME NEW d, NEW q PROVE InPackets(NoCounts) = Queue(d, q)!NoStats
  BY DEF InPackets, NoCounts, Nothing, Queue!NoStats

(* The pull of a bin resets its counters, unless it is the first.          *)
LEMMA PullFollows ==
    ASSUME Calls, PathType, Driven, Pull, NEW d \in Domains, NEW q \in Queues[d]
    PROVE  Follows(d, q)
  <1> DEFINE x == pipeline[d][q]
             y == pipeline'[d][q]
             n == t_start \div BinNs
  <1>1. phase = "pull" /\ phase' = "packets" /\ t_start' = t_start
        /\ pipeline' = reset_bin_queues
    BY DEF Pull
  <1>2. QueueType(d, x)
    BY DEF PathType, DomainType
  <1>3. /\ DOMAIN x = {"credits", "heap", "next_free", "now", "stats", "row", "admitted"}
        /\ x.credits \in Int
    BY <1>2, RingDepth DEF QueueType
  <1>4. y = [x EXCEPT !.stats = NoCounts]
    BY <1>1 DEF reset_bin_queues
  <1>5. /\ y.credits = x.credits /\ y.heap = x.heap /\ y.next_free = x.next_free
        /\ y.now = x.now /\ y.row = x.row /\ y.admitted = x.admitted
        /\ y.stats = NoCounts
    BY <1>3, <1>4
  <1>6. n \in Nat /\ t_start \in Nat /\ n - 1 + 1 = n
    <2>1. n \in Nat /\ t_start \in Nat
      BY BinOfQueue DEF Driven
    <2> QED
      BY <2>1
  <1>7. ~Idle'
    BY <1>1 DEF Idle
  <1>8. NoCounts.returned = 0 /\ NoCounts.adm.pkts = 0
    BY DEF NoCounts, Nothing
  <1> HIDE DEF y
  <1>9. CASE t_start = 0
    <2>1. x.stats = NoCounts /\ ~Idle
      BY <1>1, <1>9 DEF Driven, OnTime, Idle
    <2>2. UNCHANGED Queue(d, q)!vars
      BY <1>1, <1>5, <1>7, <2>1 DEF Queue!vars, y
    <2> QED
      BY <2>2 DEF Follows
  <1>10. CASE t_start > 0
    <2>1. Idle
      BY <1>1, <1>10 DEF Idle
    <2>2. y.credits - y.stats.returned + y.stats.adm.pkts = x.credits
      BY <1>3, <1>5, <1>8
    <2>3. InPackets(y.stats) = Queue(d, q)!NoStats
      BY <1>5, NoCountsAlike
    <2>4. Queue(d, q)!reset_bin_stats
      BY <1>1, <1>5, <1>6, <1>7, <2>1, <2>2, <2>3 DEF Queue!reset_bin_stats, y
    <2> QED
      BY <2>4 DEF Follows, Queue!Next
  <1> QED
    BY <1>6, <1>9, <1>10

(* The sizes that enter a queue are positive and have a transit time.      *)
LEMMA SizesBounded ==
    /\ LargestEntry \in Nat \ {0}
    /\ \A s \in Sizes : s \in 1..LargestEntry
    /\ \A s \in 1..Later(1, BufferCapacity) : s \in 1..LargestEntry
    /\ \A s \in 1..LargestEntry : T_dma[s] \in Transits
  <1>1. LargestSize \in Sizes /\ \A s \in Sizes : s <= LargestSize
    BY DataPathQueuesAssumption DEF LargestSize
  <1>2. Sizes \subseteq Nat \ {0} /\ BufferCapacity \in Nat
    BY PCIeLinkAssumption, DataPathAssumption
  <1>3. /\ LargestEntry \in Nat \ {0} /\ LargestSize <= LargestEntry
        /\ Later(1, BufferCapacity) <= LargestEntry
    BY <1>1, <1>2 DEF LargestEntry, Later
  <1>4. \A s \in Sizes : s \in 1..LargestEntry
    BY <1>1, <1>2, <1>3
  <1>5. Later(1, BufferCapacity) \in Nat
    BY <1>2 DEF Later
  <1> QED
    BY <1>3, <1>4, <1>5, DataPathQueuesAssumption

(* What the link accepts is complete within its FIFO and one setup.        *)
LEMMA LinkTransit ==
    ASSUME TypeOK, NEW t \in Nat, NEW size \in Sizes, NEW domain,
           try_transmit(t, size, domain), busy_until' > busy_until
    PROVE  busy_until' - t \in Transits /\ busy_until' = t + (busy_until' - t)
  <1> DEFINE n == LinkTime(size)
             f == Fifo
  <1>1. /\ busy_until \in Nat /\ Setup \in Nat /\ MaxTime \in Nat
        /\ f \in Nat /\ n \in Nat
    <2>1. LinkTime(size) \in Nat
      BY LinkTimePositive
    <2> QED
      BY <2>1, FifoType, PCIeLinkAssumption DEF TypeOK
  <1>2. ~(pending(t) + n > f) /\ busy_until' = Later(t + Setup, busy_until) + n
    <2>1. ~drop(t, domain)
      <3> SUFFICES ASSUME drop(t, domain) PROVE FALSE
        OBVIOUS
      <3>1. busy_until' = busy_until
        BY DEF drop
      <3> QED
        BY <1>1, <3>1
    <2> QED
      BY <2>1 DEF try_transmit, accept
  <1> HIDE DEF n, f
  <1> DEFINE e == busy_until'
  <1>3. e \in Nat /\ t <= e /\ e <= t + f + Setup
    BY <1>1, <1>2 DEF pending, Later
  <1> HIDE DEF e
  <1>4. e - t \in 0..(MaxTime + f + Setup) /\ e = t + (e - t)
    BY <1>1, <1>3
  <1> QED
    BY <1>4 DEF Transits, f, e

(* A drop keeps the record of the bin before, and moves the clock.         *)
LEMMA DropKeeps ==
    ASSUME NEW d \in Domains, NEW x, QueueType(d, x), NEW t, NEW a, a = advanced(d, x, t),
           NEW size, NEW y, y \in {dropped_for_credit(a, size), dropped_by_link(a, size)}
    PROVE  y.row = x.row /\ y.now = t
  <1> DEFINE z == taken(d, a, t, size, 0, 0)
  <1>1. \/ y = dropped_for_credit(a, size) \/ y = dropped_by_link(a, size) \/ y = z
    OBVIOUS
  <1> QED
    BY <1>1, CallKeeps

(* What a packet does to its own queue.                                    *)
LEMMA PacketCallsQueue ==
    ASSUME PathType, TypeOK, NEW p \in todo, p.size \in Sizes, p.t \in Nat,
           todo' = todo \ {p},
           CreditDrop(p) \/ LinkDrop(p) \/ AdmitOverLink(p) \/ AdmitWithoutLink(p),
           NEW d, d = p.domain, NEW q, q = QueueOf(p)
    PROVE  /\ \/ Queue(d, q)!credit_drop(p.t)
              \/ Queue(d, q)!record_pcie_drop(p.t)
              \/ \E transit \in Transits, service \in ServiceTimes[d] :
                    Queue(d, q)!admit(p.t, p.t + transit, service)
           /\ pipeline'[d][q].row = pipeline[d][q].row
           /\ pipeline'[d][q].now = p.t
  <1> DEFINE x == pipeline[d][q]
             m == AtFpga(p)
             size == p.size
             t == p.t
  <1>1. PacketStep(p)
    BY PacketGoes
  <1>2. /\ d \in Domains /\ q \in Queues[d] /\ size \in Nat
        /\ DOMAIN pipeline = Domains /\ DOMAIN pipeline[d] = Queues[d]
    BY DEF PathType, DomainType, QueueOf
  <1>3. QueueType(d, x) /\ m = advanced(d, x, t)
    BY <1>2 DEF PathType, DomainType, AtFpga
  <1>4. ASSUME NEW new, PutQueue(p.domain, QueueOf(p), new)
        PROVE  pipeline'[d][q] = new
    BY <1>2, <1>4 DEF PutQueue
  <1>5. ASSUME NEW arrive, NEW service, m.credits > 0,
               PutQueue(p.domain, QueueOf(p), try_admit(p.domain, m, t, size, arrive, service))
        PROVE  /\ Queue(d, q)!admit(t, arrive, service)
               /\ pipeline'[d][q].row = x.row /\ pipeline'[d][q].now = t
    <2>1. pipeline'[d][q] = try_admit(d, m, t, size, arrive, service)
      BY <1>4, <1>5
    <2>2. try_admit(d, m, t, size, arrive, service) = taken(d, m, t, size, arrive, service)
      BY <1>2, <1>3, <1>5, TryAdmitOnce
    <2>3. pipeline'[d][q] = taken(d, m, t, size, arrive, service)
      BY <2>1, <2>2
    <2> HIDE DEF m
    <2>4. Queue(d, q)!admit(t, arrive, service)
      BY <1>2, <1>3, <1>5, <2>3, AdmitAlike
    <2>5. pipeline'[d][q].row = x.row /\ pipeline'[d][q].now = t
      BY <1>2, <1>3, <2>3, CallKeeps
    <2> QED
      BY <2>4, <2>5
  <1>6. CASE CreditDrop(p)
    <2>1. m.credits <= 0 /\ PutQueue(p.domain, QueueOf(p), dropped_for_credit(m, size))
      BY <1>6 DEF CreditDrop
    <2>2. pipeline'[d][q] = dropped_for_credit(m, size)
      BY <1>4, <2>1
    <2> HIDE DEF m
    <2>3. Queue(d, q)!credit_drop(t)
      <3>1. m.credits <= 0 /\ x = pipeline[d][q] /\ t = p.t /\ size \in Nat
        BY <1>2, <2>1
      <3> HIDE DEF x, size
      <3> QED
        BY <1>2, <1>3, <2>2, <3>1, CreditDropAlike
    <2>4. pipeline'[d][q].row = x.row /\ pipeline'[d][q].now = t
      <3>1. pipeline'[d][q] \in {dropped_for_credit(m, size), dropped_by_link(m, size)}
        BY <2>2
      <3> HIDE DEF x, size
      <3> QED
        BY <1>2, <1>3, <3>1, DropKeeps
    <2> QED
      BY <2>3, <2>4
  <1>7. CASE LinkDrop(p)
    <2>1. m.credits > 0 /\ PutQueue(p.domain, QueueOf(p), dropped_by_link(m, size))
      BY <1>7 DEF LinkDrop
    <2>2. pipeline'[d][q] = dropped_by_link(m, size)
      BY <1>4, <2>1
    <2> HIDE DEF m
    <2>3. Queue(d, q)!record_pcie_drop(t)
      BY <1>2, <1>3, <2>1, <2>2, LinkDropAlike
    <2>4. pipeline'[d][q].row = x.row /\ pipeline'[d][q].now = t
      <3>1. pipeline'[d][q] \in {dropped_for_credit(m, size), dropped_by_link(m, size)}
        BY <2>2
      <3> HIDE DEF x, size
      <3> QED
        BY <1>2, <1>3, <3>1, DropKeeps
    <2> QED
      BY <2>3, <2>4
  <1>8. CASE AdmitOverLink(p)
    <2>1. PICK service \in ServiceTimes[p.domain] :
             PutQueue(p.domain, QueueOf(p),
                      try_admit(p.domain, m, t, size, busy_until', service))
      BY <1>8 DEF AdmitOverLink
    <2>2. m.credits > 0 /\ try_transmit(p.t, p.size, p.domain) /\ busy_until' > busy_until
      BY <1>8 DEF AdmitOverLink
    <2>3. busy_until' - t \in Transits /\ busy_until' = t + (busy_until' - t)
      BY <2>2, LinkTransit
    <2> HIDE DEF m
    <2>4. /\ Queue(d, q)!admit(t, busy_until', service)
          /\ pipeline'[d][q].row = x.row /\ pipeline'[d][q].now = t
      BY <1>5, <2>1, <2>2
    <2>5. \E transit \in Transits : Queue(d, q)!admit(t, t + transit, service)
      BY <2>3, <2>4, Zenon
    <2> QED
      BY <2>1, <2>4, <2>5
  <1>9. CASE AdmitWithoutLink(p)
    <2>1. PICK service \in ServiceTimes[p.domain] :
             PutQueue(p.domain, QueueOf(p),
                      try_admit(p.domain, m, t, size, t + T_dma[size], service))
      BY <1>9 DEF AdmitWithoutLink
    <2>2. m.credits > 0
      BY <1>9 DEF AdmitWithoutLink
    <2>3. T_dma[size] \in Transits
      <3>1. size \in 1..LargestEntry
        BY SizesBounded
      <3> QED
        BY <3>1, DataPathQueuesAssumption
    <2> HIDE DEF m
    <2>4. /\ Queue(d, q)!admit(t, t + T_dma[size], service)
          /\ pipeline'[d][q].row = x.row /\ pipeline'[d][q].now = t
      BY <1>5, <2>1, <2>2
    <2> QED
      BY <2>1, <2>3, <2>4
  <1> QED
    BY <1>6, <1>7, <1>8, <1>9

(* What the queue has counted, as numbers.                                 *)
LEMMA CountersType ==
    ASSUME NEW d \in Domains, NEW x, QueueType(d, x)
    PROVE  /\ x.credits \in Int /\ x.stats.returned \in Int
           /\ x.stats.adm.pkts \in Nat /\ x.stats.drop.pkts \in Nat
           /\ Served(x.stats) \in Nat
  <1>1. x.credits \in Int /\ x.stats.returned \in Int
    BY RingDepth DEF QueueType, StatsType
  <1>2. x.stats.adm.pkts \in Nat /\ x.stats.drop.pkts \in Nat
    BY DEF QueueType, StatsType, Amount
  <1> QED
    BY <1>1, <1>2 DEF Served

(* A packet is counted once, and its descriptor balances.                  *)
LEMMA HandledServed ==
    ASSUME NEW d \in Domains, NEW x, QueueType(d, x), NEW size \in Nat, NEW y,
           Handled(d, x, y, size)
    PROVE  /\ Served(y.stats) = Served(x.stats) + 1
           /\ y.credits - y.stats.returned + y.stats.adm.pkts
                 = x.credits - x.stats.returned + x.stats.adm.pkts
  <1>1. QueueType(d, y) /\ Counts(x, y, size)
    BY DEF Handled
  <1>2. /\ x.credits \in Int /\ x.stats.returned \in Int /\ x.stats.adm.pkts \in Nat
        /\ y.credits \in Int /\ y.stats.returned \in Int /\ y.stats.adm.pkts \in Nat
        /\ x.stats.drop.pkts \in Nat /\ y.stats.drop.pkts \in Nat
    BY <1>1, CountersType
  <1>3. y.stats.adm.pkts + y.stats.drop.pkts = x.stats.adm.pkts + x.stats.drop.pkts + 1
    <2>1. "pkts" \in Fields /\ Unit(size)["pkts"] = 1
      BY DEF Fields, Unit
    <2> QED
      BY <1>1, <2>1, CountsOnce
  <1>4. y.credits = x.credits + y.stats.returned - x.stats.returned
                      - (y.stats.adm.pkts - x.stats.adm.pkts)
    BY DEF Handled
  <1> QED
    BY <1>2, <1>3, <1>4 DEF Served

(* One packet is a packet of its queue, and of no other.                   *)
LEMMA PacketFollows ==
    ASSUME Calls, TypeOK, PathType, Driven, Packet, NEW d \in Domains, NEW q \in Queues[d]
    PROVE  Follows(d, q)
  <1> DEFINE n == t_start \div BinNs
             x == pipeline[d][q]
             y == pipeline'[d][q]
  <1>1. /\ phase = "packets" /\ phase' = phase /\ t_start' = t_start
    BY DEF Packet
  <1>2. PICK p \in todo :
          /\ CreditDrop(p) \/ LinkDrop(p) \/ AdmitOverLink(p) \/ AdmitWithoutLink(p)
          /\ todo' = todo \ {p}
    BY DEF Packet
  <1>3. p.size \in Sizes /\ p.t \in Nat /\ t_start <= p.t /\ p.t < t_end
    BY DEF Calls, Driven, Clock
  <1>4. PacketStep(p)
    BY <1>2, <1>3, PacketGoes
  <1>5. ~Idle /\ ~Idle'
    BY <1>1 DEF Idle
  <1>6. CASE d = p.domain /\ q = QueueOf(p)
    <2>1. /\ \/ Queue(d, q)!credit_drop(p.t)
             \/ Queue(d, q)!record_pcie_drop(p.t)
             \/ \E transit \in Transits, service \in ServiceTimes[d] :
                   Queue(d, q)!admit(p.t, p.t + transit, service)
          /\ y.row = x.row
      BY <1>2, <1>3, <1>6, PacketCallsQueue
    <2>2. QueueType(d, x) /\ Handled(d, x, y, p.size) /\ p.size \in Nat
      BY <1>4, <1>6 DEF PacketStep, PathType, DomainType
    <2>3. /\ Queue(d, q)!BinStart = t_start /\ Queue(d, q)!BinEnd = t_end
          /\ n < RunBins /\ t_start \in Nat /\ t_end \in Nat
      <3>1. t_start < EndOfRun
        BY <1>1 DEF Calls
      <3> QED
        BY <1>1, <1>5, <3>1, BinOfQueue, EndOfBin DEF Driven
    <2>4. p.t \in t_start..(t_end - 1)
      BY <1>3, <2>3
    <2>5. x.stats.adm.pkts + x.stats.drop.pkts < MaxPkts
      <3>1. Served(x.stats) + Cardinality(todo) <= MaxPkts /\ Served(x.stats) \in Nat
        BY <1>1, <2>2, CountersType DEF Driven, OnTime
      <3>2. Cardinality(todo) \in Nat /\ Cardinality(todo) # 0
        <4>1. IsFiniteSet(todo) /\ todo # {}
          BY DEF PathType
        <4> QED
          BY <4>1, FS_CardinalityType, FS_EmptySet
      <3> QED
        BY <3>1, <3>2, PCIeLinkAssumption DEF Served
    <2>6. x.now <= p.t
      BY DEF Driven, OnTime
    <2>7. y.credits - y.stats.returned + y.stats.adm.pkts
                 = x.credits - x.stats.returned + x.stats.adm.pkts
      BY <2>2, HandledServed
    <2>8. /\ InPackets(x.stats).adm = x.stats.adm.pkts
          /\ InPackets(x.stats).drop = x.stats.drop.pkts
      BY InPacketsFields
    <2>9. Queue(d, q)!BinStart = t_start /\ p.t \in Queue(d, q)!BinStart..(Queue(d, q)!BinEnd - 1)
      BY <2>3, <2>4
    <2> HIDE DEF y
    <2>10. Queue(d, q)!Packet
      <3>1. /\ p.t >= x.now
            /\ \/ Queue(d, q)!credit_drop(p.t)
               \/ Queue(d, q)!record_pcie_drop(p.t)
               \/ \E transit \in Transits, service \in ServiceTimes[d] :
                     Queue(d, q)!admit(p.t, p.t + transit, service)
        <4>1. x.now \in Int
          BY DEF Driven, OnTime
        <4> QED
          BY <1>3, <2>1, <2>6, <4>1
      <3>2. n < RunBins /\ InPackets(x.stats).adm + InPackets(x.stats).drop < MaxPkts
        BY <2>3, <2>5, <2>8
      <3> QED
        BY <1>1, <1>5, <2>1, <2>7, <2>9, <3>1, <3>2 DEF Queue!Packet, y
    <2> QED
      BY <2>10 DEF Follows, Queue!Next
  <1>7. CASE ~(d = p.domain /\ q = QueueOf(p))
    <2>1. y = x
      BY <1>4, <1>7 DEF PacketStep
    <2> QED
      BY <1>1, <1>5, <2>1, UntouchedFollows
  <1> QED
    BY <1>6, <1>7

(* The end of a bin is the end of the bin of every queue.                  *)
LEMMA EndBinFollows ==
    ASSUME Calls, PathType, Driven, EndBin, NEW d \in Domains, NEW q \in Queues[d]
    PROVE  Follows(d, q)
  <1> DEFINE n == t_start \div BinNs
             x == pipeline[d][q]
             a == advanced(d, x, t_end)
             y == pipeline'[d][q]
  <1>1. /\ phase = "packets" /\ phase' = "stateless" /\ t_start' = t_end
        /\ y = [a EXCEPT !.row = a.stats]
    BY DEF EndBin
  <1>2. QueueType(d, x)
    BY DEF PathType, DomainType
  <1>3. /\ a.credits = Queue(d, q)!CreditsAt(t_end)
        /\ a.heap = x.heap \ Queue(d, q)!Due(t_end)
        /\ InPackets(a.stats) = Queue(d, q)!StatsAt(t_end)
        /\ a.now = t_end /\ a.next_free = x.next_free /\ a.admitted = x.admitted
    BY <1>2, AdvancedAlike
  <1>4. /\ QueueType(d, a) /\ a.stats.adm = x.stats.adm
        /\ a.credits = x.credits + a.stats.returned - x.stats.returned
    BY <1>2, Advanced
  <1>5. /\ x.credits \in Int /\ x.stats.returned \in Int /\ x.stats.adm.pkts \in Nat
        /\ a.credits \in Int /\ a.stats.returned \in Int
        /\ a.stats.adm.pkts \in Nat /\ a.stats.drop.pkts \in Nat
    BY <1>2, <1>4, CountersType
  <1>6. DOMAIN a = {"credits", "heap", "next_free", "now", "stats", "row", "admitted"}
    BY <1>4 DEF QueueType
  <1> HIDE DEF a
  <1>7. /\ y.credits = a.credits /\ y.heap = a.heap /\ y.now = a.now
        /\ y.next_free = a.next_free /\ y.admitted = a.admitted
        /\ y.stats = a.stats /\ y.row = a.stats
    BY <1>1, <1>6
  <1>8. /\ Queue(d, q)!BinEnd = t_end /\ n < RunBins /\ n \in Nat
        /\ t_end \div BinNs = n + 1 /\ t_end \in Nat /\ t_end > 0
    <2>1. t_start < EndOfRun /\ ~Idle
      BY <1>1 DEF Calls, Idle
    <2>2. /\ Queue(d, q)!BinEnd = t_end /\ n < RunBins /\ n \in Nat
          /\ t_end \div BinNs = n + 1 /\ t_start \in Nat /\ BinNs \in Nat \ {0}
      BY <2>1, BinOfQueue DEF Driven
    <2>3. t_end \in Nat /\ t_end > 0
      BY <2>2 DEF t_end
    <2> QED
      BY <2>2, <2>3
  <1>9. ~Idle /\ Idle' /\ n + 1 - 1 = n
    BY <1>1, <1>8 DEF Idle
  <1>10. /\ y.credits - y.stats.returned + y.stats.adm.pkts
              = x.credits - x.stats.returned + x.stats.adm.pkts
         /\ y.stats.adm.pkts + y.stats.drop.pkts - y.row.adm.pkts - y.row.drop.pkts = 0
    BY <1>4, <1>5, <1>7
  <1> HIDE DEF y
  <1>11. Queue(d, q)!advance_to(t_end)
    BY <1>3, <1>7 DEF Queue!advance_to, y
  <1>12. Queue(d, q)!EndBin
    BY <1>1, <1>3, <1>7, <1>8, <1>9, <1>10, <1>11 DEF Queue!EndBin, y
  <1> QED
    BY <1>12 DEF Follows, Queue!Next

(* What a bucket's handoff holds is counted, and part of what waits.       *)
LEMMA WaitingType ==
    ASSUME PathType, Buffers
    PROVE  /\ IsFiniteSet(Buckets["stateful"])
           /\ \A b \in Buckets["stateful"] : Buffered(b) \in Nat /\ LeftOf(b) \in Nat
           /\ Waiting \in Nat
           /\ \A h \in finished : /\ h.bucket \in Buckets["stateful"] /\ h.left \in Nat
                                  /\ LeftOf(h.bucket) = h.left /\ h.left <= Waiting
  <1> DEFINE B == Buckets["stateful"]
             f == [b \in B |-> Buffered(b) + LeftOf(b)]
  <1>1. IsFiniteSet(B)
    BY TwoDomains, DataPathAssumption
  <1>2. ASSUME NEW b \in B PROVE Buffered(b) \in Nat
    <2>1. CASE b \in DOMAIN handoffs
      BY <2>1 DEF PathType, PendingHandoff, Amount, Buffered
    <2>2. CASE b \notin DOMAIN handoffs
      BY <2>2 DEF Buffered
    <2> QED
      BY <2>1, <2>2
  <1>3. ASSUME NEW h \in finished
        PROVE  h.bucket \in B /\ h.left \in Nat /\ LeftOf(h.bucket) = h.left
    <2>1. h \in FinishedHandoff
      BY DEF PathType
    <2>2. LeftOf(h.bucket) = (CHOOSE g \in finished : g.bucket = h.bucket).left
      BY DEF LeftOf
    <2>3. (CHOOSE g \in finished : g.bucket = h.bucket) = h
      BY DEF Buffers
    <2> QED
      BY <2>1, <2>2, <2>3 DEF FinishedHandoff
  <1>4. ASSUME NEW b \in B PROVE LeftOf(b) \in Nat
    <2>1. CASE \E h \in finished : h.bucket = b
      BY <1>3, <2>1
    <2>2. CASE ~\E h \in finished : h.bucket = b
      BY <2>2 DEF LeftOf
    <2> QED
      BY <2>1, <2>2
  <1>5. \A b \in B : f[b] \in Nat /\ f[b] = Buffered(b) + LeftOf(b)
    BY <1>2, <1>4
  <1>6. Waiting = SumFunctionOnSet(f, B)
    BY DEF Waiting
  <1> HIDE DEF f, B
  <1>7. SumFunctionOnSet(f, B) \in Nat
    BY <1>1, <1>5, SumNatural
  <1>8. ASSUME NEW h \in finished PROVE h.left <= SumFunctionOnSet(f, B)
    <2> DEFINE b == h.bucket
               R == B \ {b}
    <2>1. b \in B /\ h.left \in Nat /\ f[b] = Buffered(b) + h.left /\ Buffered(b) \in Nat
      BY <1>2, <1>3, <1>5
    <2>2. IsFiniteSet(R) /\ \A x \in R : f[x] \in Nat
      BY <1>1, <1>5, FS_Subset
    <2> HIDE DEF R
    <2>3. SumFunctionOnSet(f, R) \in Nat
      BY <2>2, SumNatural
    <2>4. SumFunctionOnSet(f, B) = f[b] + SumFunctionOnSet(f, R)
      <3>1. \A x \in B : f[x] \in Int
        BY <1>5
      <3>2. b \in B
        BY <2>1
      <3> HIDE DEF b
      <3> QED
        BY <1>1, <3>1, <3>2, SumRemove DEF R
    <2> QED
      BY <2>1, <2>3, <2>4
  <1> QED
    BY <1>1, <1>2, <1>3, <1>4, <1>6, <1>7, <1>8 DEF B

(* A share of the bins that have been pulled, of what comes in all.        *)
LEMMA WithinRun ==
    ASSUME NEW a \in Nat, NEW r \in Nat, NEW k \in Nat, NEW m \in Nat,
           a * r <= k * m, k <= r, r > 0
    PROVE  a <= m
  <1> SUFFICES ASSUME m < a PROVE FALSE
    OBVIOUS
  <1>1. k * m <= r * m
    BY Monotone
  <1>2. m * r < a * r /\ m * r = r * m
    BY StrictlyMonotone
  <1>3. k * m \in Nat /\ r * m \in Nat /\ a * r \in Nat
    OBVIOUS
  <1> QED
    BY <1>1, <1>2, <1>3

(* At the boundary a queue has room for what is still to be released.      *)
LEMMA ReleaseRoom ==
    ASSUME Calls, PathType, Driven, phase = "release", NEW q \in Queues["stateful"]
    PROVE  /\ t_start > 0
           /\ Since(pipeline["stateful"][q]) \in Nat
           /\ Waiting + Since(pipeline["stateful"][q]) <= MaxPkts
  <1> DEFINE n == t_start \div BinNs
             x == pipeline["stateful"][q]
  <1>1. t_start > 0
    BY DEF Driven, Clock
  <1>2. n \in Nat /\ n <= RunBins /\ n >= 1 /\ RunBins \in Nat
    BY <1>1, BinOfQueue, RunBinsType DEF Driven
  <1>3. Waiting \in Nat
    BY WaitingType DEF Driven
  <1>4. Since(x) \in Nat
    <2>1. QueueType("stateful", x) /\ "stateful" \in Domains
      BY TwoDomains DEF PathType, DomainType
    <2>2. Served(x.stats) \in Nat
      BY <2>1, CountersType
    <2>3. x.row.adm.pkts \in Nat /\ x.row.drop.pkts \in Nat /\ Since(x) >= 0
      BY <2>1 DEF Driven, OnTime
    <2>4. Since(x) \in Int
      BY <2>2, <2>3 DEF Since, Served
    <2> QED
      BY <2>3, <2>4
  <1>5. (Waiting + Since(x)) * RunBins <= n * MaxPkts
    <2>1. Pulled = n
      BY <1>2 DEF Pulled
    <2> QED
      BY <2>1 DEF Driven, Room
  <1> HIDE DEF x, n
  <1>6. Waiting + Since(x) <= MaxPkts
    <2> DEFINE s == Waiting + Since(x)
    <2>1. s \in Nat /\ MaxPkts \in Nat /\ RunBins > 0
      BY <1>2, <1>3, <1>4, PCIeLinkAssumption
    <2>2. s * RunBins <= n * MaxPkts
      BY <1>5
    <2> HIDE DEF s
    <2>3. s <= MaxPkts
      BY <1>2, <2>1, <2>2, WithinRun
    <2> QED
      BY <2>3 DEF s
  <1> QED
    BY <1>1, <1>4, <1>6 DEF x

(* What a release does to the queue of the handoff.                        *)
LEMMA ReleaseFollows ==
    ASSUME Calls, PathType, Driven, Release, NEW d \in Domains, NEW q \in Queues[d]
    PROVE  Follows(d, q)
  <1>1. /\ phase = "release" /\ phase' = "release" /\ t_start' = t_start
    BY DEF Release
  <1>2. PICK h \in finished, service \in ServiceTimes["stateful"] :
           /\ h.left > 0
           /\ PutQueue("stateful", h.q_dst,
                    try_admit("stateful", pipeline["stateful"][h.q_dst],
                              t_start - 1, h.avg_size,
                              t_start - 1 + T_dma[h.avg_size], service))
    BY DEF Release
  <1> DEFINE x == pipeline[d][q]
             y == pipeline'[d][q]
             size == h.avg_size
             arrive == t_start - 1 + T_dma[size]
             n == t_start \div BinNs
  <1>3. /\ h \in FinishedHandoff /\ DOMAIN pipeline = Domains
        /\ \A e \in Domains : DOMAIN pipeline[e] = Queues[e]
    BY DEF PathType, DomainType
  <1>4. Idle /\ Idle'
    <2>1. t_start > 0
      BY DEF Driven, Clock, Release
    <2> QED
      BY <1>1, <2>1 DEF Idle
  <1>5. pipeline' = [pipeline EXCEPT !["stateful"][h.q_dst] =
                        try_admit("stateful", pipeline["stateful"][h.q_dst],
                                  t_start - 1, size, arrive, service)]
    BY <1>2 DEF PutQueue
  <1>6. CASE d = "stateful" /\ q = h.q_dst
    <2>1. QueueType(d, x)
      BY DEF PathType, DomainType
    <2>2. size \in Nat /\ size \in 1..LargestEntry
      BY <1>2, <1>3 DEF FinishedHandoff, Driven, Buffers
    <2>3. y = try_admit(d, x, t_start - 1, size, arrive, service)
      BY <1>3, <1>5, <1>6
    <2>4. /\ \/ Queue(d, q)!credit_drop(t_start - 1)
             \/ Queue(d, q)!admit(t_start - 1, arrive, service)
          /\ y.row = x.row
          /\ Handled(d, x, y, size)
      <3> DEFINE t == t_start - 1
      <3>1. x = pipeline[d][q] /\ pipeline'[d][q] = try_admit(d, x, t, size, arrive, service)
        BY <2>3
      <3>2. QueueType(d, x) /\ size \in Nat
        BY <2>1, <2>2
      <3> HIDE DEF arrive, size, x, t, y, n
      <3>3. /\ \/ Queue(d, q)!credit_drop(t)
               \/ Queue(d, q)!admit(t, arrive, service)
            /\ pipeline'[d][q].row = x.row /\ pipeline'[d][q].now = t
            /\ Handled(d, x, pipeline'[d][q], size)
        BY <3>1, <3>2, TryAdmitAlike
      <3> QED
        BY <3>3 DEF t, y
    <2>5. /\ Served(y.stats) = Served(x.stats) + 1
          /\ y.credits - y.stats.returned + y.stats.adm.pkts
                = x.credits - x.stats.returned + x.stats.adm.pkts
      BY <2>1, <2>2, <2>4, HandledServed
    <2>6. Since(x) \in Nat /\ Since(x) < MaxPkts
      <3>1. /\ Since(x) \in Nat /\ Waiting + Since(x) <= MaxPkts
        BY <1>1, <1>6, ReleaseRoom
      <3>2. Waiting \in Nat /\ h.left <= Waiting /\ h.left \in Nat
        BY WaitingType DEF Driven
      <3> QED
        BY <1>2, <3>1, <3>2, PCIeLinkAssumption
    <2>7. /\ x.stats.adm.pkts \in Nat /\ x.stats.drop.pkts \in Nat
          /\ y.stats.adm.pkts \in Nat /\ y.stats.drop.pkts \in Nat
          /\ x.row.adm.pkts \in Nat /\ x.row.drop.pkts \in Nat
      <3>1. QueueType(d, y)
        BY <2>4 DEF Handled
      <3> QED
        BY <2>1, <3>1, CountersType DEF Driven, OnTime
    <2>8. /\ x.stats.adm.pkts + x.stats.drop.pkts - x.row.adm.pkts - x.row.drop.pkts < MaxPkts
          /\ y.stats.adm.pkts + y.stats.drop.pkts - y.row.adm.pkts - y.row.drop.pkts
               = x.stats.adm.pkts + x.stats.drop.pkts - x.row.adm.pkts - x.row.drop.pkts + 1
      <3>1. x.stats.adm.pkts + x.stats.drop.pkts - x.row.adm.pkts - x.row.drop.pkts
              = Since(x)
        BY <2>7 DEF Since, Served
      <3>2. y.stats.adm.pkts + y.stats.drop.pkts = x.stats.adm.pkts + x.stats.drop.pkts + 1
        BY <2>5 DEF Served
      <3>3. y.row = x.row
        BY <2>4
      <3> HIDE DEF x, y
      <3> QED
        BY <2>6, <2>7, <3>1, <3>2, <3>3, PCIeLinkAssumption
    <2>9. Queue(d, q)!BinEnd = t_start /\ t_start \in Nat
      BY <1>4, BinOfQueue DEF Driven
    <2>10. \/ Queue(d, q)!credit_drop(Queue(d, q)!BinEnd - 1)
           \/ \E transit \in Transits, s \in ServiceTimes[d] :
                 Queue(d, q)!admit(Queue(d, q)!BinEnd - 1,
                                   Queue(d, q)!BinEnd - 1 + transit, s)
      <3>1. T_dma[size] \in Transits
        BY <2>2, DataPathQueuesAssumption
      <3> DEFINE transit == T_dma[size]
      <3>2. CASE Queue(d, q)!credit_drop(t_start - 1)
        BY <2>9, <3>2
      <3>3. CASE Queue(d, q)!admit(t_start - 1, arrive, service)
        BY <1>6, <2>9, <3>1, <3>3
      <3> QED
        BY <2>4, <3>2, <3>3
    <2> HIDE DEF y
    <2>11. Queue(d, q)!Release
      BY <1>1, <1>4, <2>4, <2>5, <2>8, <2>10 DEF Queue!Release, y
    <2> QED
      BY <2>11 DEF Follows, Queue!Next
  <1>7. CASE ~(d = "stateful" /\ q = h.q_dst)
    <2>1. y = x
      BY <1>3, <1>5, <1>7
    <2> QED
      BY <1>1, <1>4, <2>1, UntouchedFollows
  <1> QED
    BY <1>6, <1>7

(* Every step is a step of every queue, or none of its own.                *)
LEMMA StepFollows ==
    ASSUME Calls, TypeOK, PathType, Driven, [NextPath]_allVars,
           NEW d \in Domains, NEW q \in Queues[d]
    PROVE  Follows(d, q)
  <1>1. CASE Pull
    BY <1>1, PullFollows
  <1>2. CASE Packet
    BY <1>2, PacketFollows
  <1>3. CASE EndBin
    BY <1>3, EndBinFollows
  <1>4. CASE Release
    BY <1>4, ReleaseFollows
  <1>5. CASE \/ _on_stateless_epoch_boundary \/ NoStatelessBoundary
             \/ _on_stateful_epoch_boundary \/ CloseStateful \/ NoStatefulBoundary
    <2>1. pipeline' = pipeline /\ t_start' = t_start
          /\ phase # "packets" /\ phase' # "packets"
      BY <1>5 DEF _on_stateless_epoch_boundary, NoStatelessBoundary,
                  _on_stateful_epoch_boundary, CloseStateful, NoStatefulBoundary
    <2> QED
      BY <2>1, UntouchedFollows DEF Idle
  <1>6. CASE Done \/ UNCHANGED allVars
    <2>1. pipeline' = pipeline /\ t_start' = t_start /\ phase' = phase
      BY <1>6 DEF Done, allVars, pathVars
    <2> QED
      BY <2>1, UntouchedFollows DEF Idle
  <1> QED
    BY <1>1, <1>2, <1>3, <1>4, <1>5, <1>6 DEF NextPath

-----------------------------------------------------------------------------
(* The start of the run.                                                   *)
LEMMA InitDriven == ASSUME InitPath PROVE Driven
  <1>1. /\ t_start = 0 /\ todo = {} /\ phase = "pull" /\ finished = {}
        /\ DOMAIN handoffs = {}
        /\ pipeline = [d \in Domains |-> [q \in Queues[d] |-> NewQueue(d)]]
    BY DEF InitPath
  <1>2. RunBins \in Nat /\ EndOfRun \in Nat /\ BinNs \in Nat \ {0} /\ MaxPkts \in Nat
    BY RunBinsType, DataPathAssumption, PCIeLinkAssumption
  <1>3. Clock
    BY <1>1, <1>2 DEF Clock
  <1>4. Buffers
    BY <1>1 DEF Buffers
  <1>5. Room
    <2> DEFINE B == Buckets["stateful"]
               f == [b \in B |-> Buffered(b) + LeftOf(b)]
    <2>1. IsFiniteSet(B)
      BY TwoDomains, DataPathAssumption
    <2>2. \A b \in B : f[b] = 0
      BY <1>1 DEF Buffered, LeftOf
    <2>3. Waiting = SumFunctionOnSet(f, B)
      BY DEF Waiting
    <2> HIDE DEF f, B
    <2>4. Waiting = 0
      BY <2>1, <2>2, <2>3, SumZero
    <2>5. 0 * BinNs = 0 /\ 0 \in Nat
      BY <1>2
    <2>6. 0 \div BinNs = 0
      BY <1>2, <2>5, DivTimes
    <2>7. Pulled = 0
      BY <1>1, <2>6 DEF Pulled
    <2> QED
      BY <1>1, <1>2, <2>4, <2>7 DEF Room
  <1>6. ASSUME NEW d \in Domains, NEW q \in Queues[d] PROVE OnTime(d, q)
    <2> DEFINE x == pipeline[d][q]
    <2>1. x = NewQueue(d)
      BY <1>1
    <2>2. /\ x.row.adm.pkts = 0 /\ x.row.drop.pkts = 0 /\ x.now = 0
          /\ x.stats = NoCounts /\ x.stats.adm.pkts = 0 /\ x.stats.drop.pkts = 0
      BY <2>1 DEF NewQueue, NoCounts, Nothing
    <2> HIDE DEF x
    <2> QED
      BY <1>1, <2>2 DEF OnTime, Since, Served, x
  <1> QED
    BY <1>3, <1>4, <1>5, <1>6 DEF Driven

(* A queue nobody calls stays on time, in the same bin.                    *)
LEMMA OnTimeKept ==
    ASSUME NEW d \in Domains, NEW q \in Queues[d], OnTime(d, q),
           pipeline'[d][q] = pipeline[d][q], todo' = todo, t_start' = t_start,
           \/ phase' = phase
           \/ /\ phase # "packets" /\ phase' # "packets"
              /\ t_start # 0
              /\ phase' \in {"stateless", "stateful"} => phase \in {"stateless", "stateful"}
    PROVE  OnTime(d, q)'
  BY DEF OnTime

(* What is buffered waits as before, in the same bin.                      *)
LEMMA WaitingKept ==
    ASSUME PathType, Buffers,
           \A b \in Buckets["stateful"] : Buffered(b)' + LeftOf(b)' = Buffered(b) + LeftOf(b)
    PROVE  Waiting' = Waiting
  <1> DEFINE B == Buckets["stateful"]
             f == [b \in B |-> Buffered(b) + LeftOf(b)]
             g == [b \in B |-> Buffered(b)' + LeftOf(b)']
  <1>1. IsFiniteSet(B) /\ \A b \in B : Buffered(b) \in Nat /\ LeftOf(b) \in Nat
    BY WaitingType
  <1>2. \A b \in B : f[b] \in Int /\ g[b] = f[b]
    BY <1>1
  <1>3. Waiting = SumFunctionOnSet(f, B) /\ Waiting' = SumFunctionOnSet(g, B)
    BY DEF Waiting
  <1> HIDE DEF f, g, B
  <1> QED
    BY <1>1, <1>2, <1>3, SumSame

(* A packet moves its own queue; the others wait for those still to come.  *)
LEMMA PacketDriven ==
    ASSUME Calls, TypeOK, PathType, Driven, Packet
    PROVE  Driven'
  <1>1. /\ phase = "packets" /\ phase' = phase /\ t_start' = t_start
        /\ handoffs' = handoffs /\ finished' = finished
    BY DEF Packet
  <1>2. PICK p \in todo :
          /\ Earliest(p)
          /\ CreditDrop(p) \/ LinkDrop(p) \/ AdmitOverLink(p) \/ AdmitWithoutLink(p)
          /\ todo' = todo \ {p}
    BY DEF Packet
  <1>3. p.size \in Sizes /\ p.t \in Nat
    BY DEF Calls
  <1>4. PacketStep(p)
    BY <1>2, <1>3, PacketGoes
  <1>5. \A r \in todo' : r \in todo /\ p.t <= r.t
    BY <1>2, <1>3 DEF Earliest, Before, Calls
  <1>6. Cardinality(todo) \in Nat /\ Cardinality(todo') = Cardinality(todo) - 1
    <2>1. IsFiniteSet(todo)
      BY DEF PathType
    <2> QED
      BY <1>2, <2>1, FS_CardinalityType, FS_RemoveElement
  <1>7. Clock' /\ Buffers'
    <2>1. EndOfRun' = EndOfRun /\ LargestEntry' = LargestEntry
      BY DEF EndOfRun, LargestEntry, LargestSize
    <2>2. Clock'
      BY <1>1, <1>5, <2>1 DEF Driven, Clock
    <2>3. Buffers'
      BY <1>1, <2>1 DEF Driven, Buffers
    <2> QED
      BY <2>2, <2>3
  <1>8. Room'
    <2>1. Waiting' = Waiting
      <3>1. \A b : Buffered(b)' = Buffered(b) /\ LeftOf(b)' = LeftOf(b)
        BY <1>1 DEF Buffered, LeftOf
      <3> QED
        BY <3>1, WaitingKept DEF Driven
    <2>2. Pulled' = Pulled
      BY <1>1 DEF Pulled
    <2>3. RunBins' = RunBins
      BY DEF RunBins, EndOfRun
    <2> QED
      BY <1>1, <2>1, <2>2, <2>3 DEF Driven, Room
  <1>9. ASSUME NEW d \in Domains, NEW q \in Queues[d] PROVE OnTime(d, q)'
    <2> DEFINE x == pipeline[d][q]
               y == pipeline'[d][q]
    <2>1. OnTime(d, q) /\ QueueType(d, x)
      BY DEF Driven, PathType, DomainType
    <2>2. Served(x.stats) \in Nat /\ Served(x.stats) + Cardinality(todo) <= MaxPkts
      BY <1>1, <2>1, CountersType DEF OnTime
    <2>3. x.row.adm.pkts \in Nat /\ x.row.drop.pkts \in Nat /\ x.now \in Int
          /\ \A r \in todo : x.now <= r.t
      BY <2>1 DEF OnTime
    <2>4. /\ y.row = x.row /\ y.now \in Int /\ \A r \in todo' : y.now <= r.t
          /\ Served(y.stats) + Cardinality(todo') <= MaxPkts
      <3>1. CASE d = p.domain /\ q = QueueOf(p)
        <4>1. y.row = x.row /\ y.now = p.t
          BY <1>2, <1>3, <3>1, PacketCallsQueue
        <4>2. Handled(d, x, y, p.size) /\ p.size \in Nat
          BY <1>4, <3>1 DEF PacketStep
        <4>3. Served(y.stats) = Served(x.stats) + 1
          BY <2>1, <4>2, HandledServed
        <4> HIDE DEF x, y
        <4>4. Served(y.stats) + Cardinality(todo') <= MaxPkts
          BY <1>6, <2>2, <4>3
        <4> QED
          BY <1>3, <1>5, <4>1, <4>4
      <3>2. CASE ~(d = p.domain /\ q = QueueOf(p))
        <4>1. y = x
          BY <1>4, <3>2 DEF PacketStep
        <4> HIDE DEF x, y
        <4>2. Served(x.stats) + Cardinality(todo') <= MaxPkts
          BY <1>6, <2>2, PCIeLinkAssumption
        <4> QED
          BY <1>5, <2>3, <4>1, <4>2
      <3> QED
        BY <3>1, <3>2
    <2> QED
      BY <1>1, <2>3, <2>4 DEF OnTime
  <1> QED
    BY <1>7, <1>8, <1>9 DEF Driven

(* The end of a bin records what every queue has counted.                  *)
LEMMA EndBinDriven ==
    ASSUME Calls, PathType, Driven, EndBin
    PROVE  Driven'
  <1> DEFINE n == t_start \div BinNs
  <1>1. /\ phase = "packets" /\ phase' = "stateless" /\ t_start' = t_end
        /\ todo = {} /\ todo' = todo /\ handoffs' = handoffs /\ finished' = finished
    BY DEF EndBin
  <1>2. /\ n \in Nat /\ n < RunBins /\ t_start = n * BinNs /\ t_start \in Nat
        /\ BinNs \in Nat \ {0} /\ t_end \div BinNs = n + 1
    <2>1. t_start < EndOfRun
      BY <1>1 DEF Calls
    <2> QED
      BY <2>1, BinOfQueue DEF Driven
  <1>3. RunBins \in Nat /\ EndOfRun \in Nat /\ EndOfRun = RunBins * BinNs
    BY RunBinsType
  <1>4. t_end \in Nat /\ t_end > 0 /\ t_end <= EndOfRun
    <2>1. n + 1 \in Nat /\ n + 1 <= RunBins
      BY <1>2, <1>3
    <2>2. (n + 1) * BinNs <= RunBins * BinNs
      BY <1>2, <1>3, <2>1, Monotone
    <2>3. (n + 1) * BinNs = n * BinNs + BinNs
      BY <1>2
    <2>4. t_end = (n + 1) * BinNs /\ t_end \in Nat /\ t_end > 0
      BY <1>2, <2>3 DEF t_end
    <2> QED
      BY <1>3, <2>2, <2>4
  <1>5. Clock' /\ Buffers'
    <2>1. EndOfRun' = EndOfRun /\ LargestEntry' = LargestEntry
      BY DEF EndOfRun, LargestEntry, LargestSize
    <2>2. Clock'
      BY <1>1, <1>4, <2>1 DEF Clock
    <2>3. Buffers'
      BY <1>1, <2>1 DEF Driven, Buffers
    <2> QED
      BY <2>2, <2>3
  <1>6. Room'
    <2>1. Waiting' = Waiting
      <3>1. \A b : Buffered(b)' = Buffered(b) /\ LeftOf(b)' = LeftOf(b)
        BY <1>1 DEF Buffered, LeftOf
      <3> QED
        BY <3>1, WaitingKept DEF Driven
    <2>2. Pulled' = Pulled
      <3>1. Pulled = n + 1 /\ Pulled' = t_end \div BinNs + 0
        BY <1>1 DEF Pulled
      <3> QED
        BY <1>2, <3>1
    <2>3. RunBins' = RunBins
      BY DEF RunBins, EndOfRun
    <2> QED
      BY <1>1, <2>1, <2>2, <2>3 DEF Driven, Room
  <1>7. ASSUME NEW d \in Domains, NEW q \in Queues[d] PROVE OnTime(d, q)'
    <2> DEFINE x == pipeline[d][q]
               a == advanced(d, x, t_end)
               y == pipeline'[d][q]
    <2>1. QueueType(d, x)
      BY DEF PathType, DomainType
    <2>2. QueueType(d, a) /\ a.now = t_end
      <3>1. QueueType(d, a)
        BY <2>1, Advanced
      <3>2. a.now = t_end
        BY <2>1 DEF advanced, QueueType
      <3> QED
        BY <3>1, <3>2
    <2>3. /\ y = [a EXCEPT !.row = a.stats]
          /\ DOMAIN a = {"credits", "heap", "next_free", "now", "stats", "row", "admitted"}
      BY <2>2 DEF EndBin, QueueType
    <2>4. y.stats = a.stats /\ y.row = a.stats /\ y.now = a.now
      <3> HIDE DEF a
      <3> QED
        BY <2>3
    <2>5. Served(a.stats) \in Nat /\ a.stats.adm.pkts \in Nat /\ a.stats.drop.pkts \in Nat
      BY <2>2, CountersType
    <2> HIDE DEF a, y
    <2>6. Since(y) = 0
      BY <2>4, <2>5 DEF Since
    <2> QED
      BY <1>1, <1>4, <2>2, <2>4, <2>5, <2>6 DEF OnTime, y
  <1> QED
    BY <1>5, <1>6, <1>7 DEF Driven

(* The size a handoff releases with is no more than what it buffered.      *)
LEMMA AverageSize ==
    ASSUME NEW p \in Nat, NEW n \in Nat, NEW c \in Nat, n <= c
    PROVE  Later(1, n \div Later(1, p)) \in 1..Later(1, c)
  <1> DEFINE w == Later(1, p)
             a == n \div w
  <1>1. w \in Nat \ {0}
    BY DEF Later
  <1> HIDE DEF w
  <1>2. n = w * a + (n % w) /\ n % w \in 0..(w - 1) /\ a \in Nat
    BY <1>1, DivMod
  <1> HIDE DEF a
  <1>3. 1 * a <= w * a /\ w * a \in Nat /\ 1 * a = a
    BY <1>1, <1>2, Monotone
  <1>4. a <= n
    BY <1>1, <1>2, <1>3
  <1>5. Later(1, a) \in 1..Later(1, c)
    BY <1>2, <1>4 DEF Later
  <1> QED
    BY <1>5 DEF a, w

(* What is buffered is handed over whole: it waits on.                     *)
LEMMA StatefulBoundaryDriven ==
    ASSUME Calls, PathType, Driven, _on_stateful_epoch_boundary
    PROVE  Driven'
  <1>1. /\ phase = "stateful" /\ phase' = "release" /\ t_start' = t_start
        /\ todo' = todo /\ pipeline' = pipeline
    BY DEF _on_stateful_epoch_boundary
  <1> DEFINE Average(b) == Later(1, handoffs[b].buffer.bytes \div
                                      Later(1, handoffs[b].buffer.pkts))
             Done_(b) == [bucket |-> b, q_dst |-> handoffs[b].q_dst,
                          left |-> handoffs[b].buffer.pkts, avg_size |-> Average(b)]
  <1>2. PICK ended \in SUBSET DOMAIN handoffs :
          /\ Issue(Remaining(ended), Committed(ended))
          /\ finished' = {Done_(b) : b \in ended}
    BY DEF _on_stateful_epoch_boundary
  <1>3. /\ DOMAIN handoffs \subseteq Buckets["stateful"] /\ finished = {}
        /\ \A b \in DOMAIN handoffs :
              /\ handoffs[b].buffer.pkts \in Nat /\ handoffs[b].buffer.bytes \in Nat
              /\ handoffs[b].buffer.bytes <= BufferCapacity
    BY <1>1 DEF PathType, PendingHandoff, Amount, Driven, Buffers
  <1> DEFINE left == Remaining(ended)
  <1>4. /\ DOMAIN left = DOMAIN handoffs \ ended
        /\ \A b \in DOMAIN left : left[b] = handoffs[b]
    BY DEF Remaining
  <1>5. /\ \A b \in DOMAIN left : b \in DOMAIN handoffs' /\ handoffs'[b] = handoffs[b]
        /\ \A b \in DOMAIN handoffs' : b \notin DOMAIN left => handoffs'[b].buffer = Nothing
    <2>1. /\ DOMAIN left \subseteq DOMAIN handoffs'
          /\ \A b \in DOMAIN left : handoffs'[b] = left[b]
          /\ \A b \in DOMAIN handoffs' \ DOMAIN left :
                \E q \in Queues["stateful"] : handoffs'[b] = [q_dst |-> q, buffer |-> Nothing]
      BY <1>2, IssueShape
    <2> HIDE DEF left
    <2> QED
      BY <1>4, <2>1
  <1>6. LargestEntry' = LargestEntry
        /\ EndOfRun' = EndOfRun /\ RunBins' = RunBins
    BY SizesBounded DEF LargestEntry, LargestSize, EndOfRun, RunBins
  <1>7. /\ \A b \in ended : Done_(b) \in finished'
        /\ \A h \in finished' : h.bucket \in ended /\ h = Done_(h.bucket)
                                /\ h.left = handoffs[h.bucket].buffer.pkts
                                /\ h.avg_size = Average(h.bucket)
    BY <1>2
  <1> HIDE DEF left, Average, Done_
  <1>8. Buffers'
    <2>1. ASSUME NEW b \in DOMAIN handoffs'
          PROVE  handoffs'[b].buffer.bytes <= BufferCapacity
      <3>1. CASE b \in DOMAIN left
        BY <1>3, <1>4, <1>5, <3>1
      <3>2. CASE b \notin DOMAIN left
        <4>1. handoffs'[b].buffer.bytes = 0
          BY <1>5, <3>2 DEF Nothing
        <4> QED
          BY <4>1, DataPathAssumption
      <3> QED
        BY <3>1, <3>2
    <2>2. ASSUME NEW h \in finished', h.left > 0 PROVE h.avg_size \in 1..LargestEntry
      <3> DEFINE b == h.bucket
                 m == handoffs[b].buffer.pkts
                 n == handoffs[b].buffer.bytes
      <3>1. b \in DOMAIN handoffs /\ h.left = m /\ h.avg_size = Later(1, n \div Later(1, m))
        BY <1>7 DEF Average
      <3>2. m \in Nat /\ n \in Nat /\ n <= BufferCapacity /\ BufferCapacity \in Nat
        BY <1>3, <3>1, DataPathAssumption
      <3> HIDE DEF b, m, n
      <3>3. Later(1, n \div Later(1, m)) \in 1..Later(1, BufferCapacity)
        BY <3>2, AverageSize
      <3> QED
        BY <3>1, <3>3, SizesBounded
    <2>3. \A h, g \in finished' : h.bucket = g.bucket => h = g
      BY <1>7
    <2> QED
      BY <1>1, <1>6, <2>1, <2>2, <2>3 DEF Buffers
  <1>9. ASSUME NEW b \in Buckets["stateful"]
        PROVE  Buffered(b)' + LeftOf(b)' = Buffered(b) + LeftOf(b)
    <2>1. LeftOf(b) = 0
      BY <1>3 DEF LeftOf
    <2>2. CASE b \in ended
      <3>1. Buffered(b) = handoffs[b].buffer.pkts /\ Buffered(b) \in Nat
        BY <1>3, <2>2 DEF Buffered
      <3>2. Buffered(b)' = 0
        <4>1. b \notin DOMAIN left
          BY <1>4, <2>2
        <4>2. b \in DOMAIN handoffs' => handoffs'[b].buffer.pkts = 0
          BY <1>5, <4>1 DEF Nothing
        <4> QED
          BY <4>2 DEF Buffered
      <3>3. LeftOf(b)' = handoffs[b].buffer.pkts
        <4>1. Done_(b) \in finished' /\ Done_(b).bucket = b
              /\ \A h \in finished' : h.bucket = b => h.left = handoffs[b].buffer.pkts
          BY <1>7, <2>2 DEF Done_
        <4>2. LeftOf(b)' = (CHOOSE h \in finished' : h.bucket = b).left
          BY <4>1 DEF LeftOf
        <4>3. (CHOOSE h \in finished' : h.bucket = b) \in finished'
              /\ (CHOOSE h \in finished' : h.bucket = b).bucket = b
          BY <4>1
        <4> QED
          BY <4>1, <4>2, <4>3
      <3> QED
        BY <2>1, <3>1, <3>2, <3>3
    <2>3. CASE b \notin ended
      <3>1. LeftOf(b)' = 0
        BY <1>7, <2>3 DEF LeftOf
      <3>2. Buffered(b)' = Buffered(b)
        <4>1. CASE b \in DOMAIN left
          BY <1>4, <1>5, <4>1 DEF Buffered
        <4>2. CASE b \notin DOMAIN left
          <5>1. b \notin DOMAIN handoffs
            BY <1>4, <2>3, <4>2
          <5>2. b \in DOMAIN handoffs' => handoffs'[b].buffer.pkts = 0
            BY <1>5, <4>2 DEF Nothing
          <5> QED
            BY <5>1, <5>2 DEF Buffered
        <4> QED
          BY <4>1, <4>2
      <3> QED
        BY <2>1, <3>1, <3>2
    <2> QED
      BY <2>2, <2>3
  <1>10. Waiting' = Waiting /\ Waiting \in Nat
    BY <1>9, WaitingKept, WaitingType DEF Driven
  <1>11. Room'
    <2>1. Pulled' = Pulled /\ Waiting * RunBins <= Pulled * MaxPkts
      BY <1>1 DEF Pulled, Driven, Room
    <2>2. ASSUME NEW q \in Queues["stateful"] PROVE Since(pipeline["stateful"][q]) = 0
      BY <1>1, TwoDomains DEF Driven, OnTime
    <2>3. ASSUME NEW q \in Queues["stateful"]
          PROVE  (Waiting' + Since(pipeline'["stateful"][q])) * RunBins <= Pulled * MaxPkts
      <3>1. Waiting' + Since(pipeline'["stateful"][q]) = Waiting
        BY <1>1, <1>10, <2>2
      <3> QED
        BY <2>1, <3>1
    <2> QED
      BY <1>6, <1>10, <2>1, <2>3 DEF Room, Since, Served
  <1>12. Clock'
    BY <1>1, <1>6 DEF Driven, Clock
  <1>13. ASSUME NEW d \in Domains, NEW q \in Queues[d] PROVE OnTime(d, q)'
    <2>1. OnTime(d, q) /\ t_start # 0
      BY <1>1 DEF Driven, Clock
    <2>2. pipeline'[d][q] = pipeline[d][q]
      BY <1>1
    <2> QED
      BY <1>1, <2>1, <2>2, OnTimeKept
  <1> QED
    BY <1>8, <1>11, <1>12, <1>13 DEF Driven

(* A release moves one packet from what waits into its queue.              *)
LEMMA ReleaseDriven ==
    ASSUME Calls, PathType, Driven, Release
    PROVE  Driven'
  <1>1. /\ phase = "release" /\ phase' = "release" /\ t_start' = t_start
        /\ handoffs' = handoffs /\ todo' = todo
    BY DEF Release
  <1>2. PICK h \in finished, service \in ServiceTimes["stateful"] :
           /\ h.left > 0
           /\ PutQueue("stateful", h.q_dst,
                    try_admit("stateful", pipeline["stateful"][h.q_dst],
                              t_start - 1, h.avg_size,
                              t_start - 1 + T_dma[h.avg_size], service))
           /\ finished' = (finished \ {h}) \cup {[h EXCEPT !.left = @ - 1]}
    BY DEF Release
  <1>3. /\ h \in FinishedHandoff /\ DOMAIN pipeline = Domains
        /\ \A e \in Domains : DOMAIN pipeline[e] = Queues[e]
        /\ h.left \in Nat /\ h.bucket \in Buckets["stateful"]
    BY DEF PathType, DomainType, FinishedHandoff
  <1> DEFINE g == [h EXCEPT !.left = @ - 1]
  <1>4. /\ g.bucket = h.bucket /\ g.avg_size = h.avg_size /\ g.left = h.left - 1
    BY <1>3 DEF FinishedHandoff
  <1>5. /\ LargestEntry' = LargestEntry /\ EndOfRun' = EndOfRun /\ RunBins' = RunBins
    BY DEF LargestEntry, LargestSize, EndOfRun, RunBins
  <1> HIDE DEF g
  <1>6. finished' = (finished \ {h}) \cup {g}
    BY <1>2 DEF g
  <1>7. Buffers /\ \A k, l \in finished : k.bucket = l.bucket => k = l
    BY DEF Driven, Buffers
  <1>8. Buffers'
    <2>1. \A k \in finished' : k.left > 0 => k.avg_size \in 1..LargestEntry
      BY <1>2, <1>3, <1>4, <1>6, <1>7 DEF Buffers
    <2>2. \A k, l \in finished' : k.bucket = l.bucket => k = l
      BY <1>4, <1>6, <1>7
    <2> QED
      BY <1>1, <1>5, <1>7, <2>1, <2>2 DEF Buffers
  <1>9. LeftOf(h.bucket)' = LeftOf(h.bucket) - 1 /\ LeftOf(h.bucket) \in Nat
    <2>1. LeftOf(h.bucket) = h.left
      BY <1>7, WaitingType
    <2>2. g \in finished' /\ \A k \in finished' : k.bucket = h.bucket => k = g
      BY <1>4, <1>6, <1>7
    <2>3. LeftOf(h.bucket)' = (CHOOSE k \in finished' : k.bucket = h.bucket).left
      BY <1>4, <2>2 DEF LeftOf
    <2>4. (CHOOSE k \in finished' : k.bucket = h.bucket) = g
      BY <1>4, <2>2
    <2> QED
      BY <1>3, <1>4, <2>1, <2>3, <2>4
  <1>10. ASSUME NEW b \in Buckets["stateful"], b # h.bucket PROVE LeftOf(b)' = LeftOf(b)
    <2>1. \A k : k \in finished' /\ k.bucket = b <=> k \in finished /\ k.bucket = b
      BY <1>4, <1>6, <1>10
    <2>2. (\E k \in finished' : k.bucket = b) <=> (\E k \in finished : k.bucket = b)
      BY <2>1
    <2>3. CASE \E k \in finished : k.bucket = b
      <3>1. PICK k \in finished : k.bucket = b
        BY <2>3
      <3>2. k \in finished' /\ \A l \in finished' : l.bucket = b => l = k
        BY <1>7, <2>1, <3>1
      <3>3. (CHOOSE l \in finished' : l.bucket = b) = k
        BY <3>1, <3>2
      <3>4. (CHOOSE l \in finished : l.bucket = b) = k
        BY <1>7, <3>1
      <3> QED
        BY <2>2, <2>3, <3>3, <3>4 DEF LeftOf
    <2>4. CASE ~\E k \in finished : k.bucket = b
      BY <2>2, <2>4 DEF LeftOf
    <2> QED
      BY <2>3, <2>4
  <1>11. Waiting' = Waiting - 1 /\ Waiting \in Nat
    <2> DEFINE B == Buckets["stateful"]
               f == [b \in B |-> Buffered(b) + LeftOf(b)]
               e == [b \in B |-> Buffered(b)' + LeftOf(b)']
               c == h.bucket
    <2>1. IsFiniteSet(B) /\ (\A b \in B : Buffered(b) \in Nat /\ LeftOf(b) \in Nat)
          /\ Waiting \in Nat
      BY <1>7, WaitingType
    <2>2. \A b \in B : Buffered(b)' = Buffered(b)
      BY <1>1 DEF Buffered
    <2>3. c \in B /\ \A b \in B \ {c} : e[b] = f[b]
      BY <1>3, <1>10, <2>2
    <2>4. e[c] = f[c] - 1 /\ f[c] \in Int
      BY <1>3, <1>9, <2>1, <2>2
    <2>5. \A b \in B : f[b] \in Int
      BY <2>1
    <2>6. Waiting = SumFunctionOnSet(f, B) /\ Waiting' = SumFunctionOnSet(e, B)
      BY DEF Waiting
    <2> HIDE DEF f, e, c, B
    <2>7. \A b \in B : f[b] \in Int /\ e[b] \in Int
      BY <2>3, <2>4, <2>5
    <2>8. SumFunctionOnSet(e, B) = SumFunctionOnSet(f, B) + e[c] - f[c]
      BY <2>1, <2>3, <2>7, SumChanged
    <2> QED
      BY <2>1, <2>4, <2>6, <2>8
  <1> DEFINE r == h.q_dst
             x == pipeline["stateful"][r]
             y == pipeline'["stateful"][r]
             size == h.avg_size
             arrive == t_start - 1 + T_dma[size]
  <1>12. /\ r \in Queues["stateful"] /\ "stateful" \in Domains /\ size \in Nat
         /\ QueueType("stateful", x)
    BY <1>3, TwoDomains DEF FinishedHandoff, PathType, DomainType
  <1>13. /\ y = try_admit("stateful", x, t_start - 1, size, arrive, service)
         /\ \A d \in Domains : \A q \in Queues[d] :
               ~(d = "stateful" /\ q = r) => pipeline'[d][q] = pipeline[d][q]
    BY <1>2, <1>3, <1>12 DEF PutQueue
  <1>14. y.row = x.row /\ y.now = t_start - 1 /\ Handled("stateful", x, y, size)
    <2> DEFINE t == t_start - 1
    <2>1. PICK d \in Domains : d = "stateful"
      BY <1>12
    <2>2. x = pipeline[d][r] /\ y = pipeline'[d][r] /\ QueueType(d, x)
      BY <1>12, <2>1
    <2> HIDE DEF arrive, size, x, t, r, y
    <2>3. pipeline'[d][r] = try_admit(d, x, t, size, arrive, service)
      BY <1>13, <2>1, <2>2 DEF t
    <2>4. /\ \/ Queue(d, r)!credit_drop(t)
             \/ Queue(d, r)!admit(t, arrive, service)
          /\ pipeline'[d][r].row = x.row /\ pipeline'[d][r].now = t
          /\ Handled(d, x, pipeline'[d][r], size)
      BY <1>12, <2>2, <2>3, TryAdmitAlike
    <2> QED
      BY <2>1, <2>2, <2>4 DEF t
  <1>15. /\ Since(y) = Since(x) + 1 /\ Since(x) \in Nat
    <2>1. Served(y.stats) = Served(x.stats) + 1 /\ Served(x.stats) \in Nat
      BY <1>12, <1>14, HandledServed, CountersType
    <2>2. x.row.adm.pkts \in Nat /\ x.row.drop.pkts \in Nat /\ Since(x) >= 0
      BY <1>1, <1>12 DEF Driven, OnTime
    <2>3. Served(x.row) \in Nat /\ y.row = x.row
      BY <1>14, <2>2 DEF Served
    <2> HIDE DEF x, y
    <2> QED
      BY <2>1, <2>2, <2>3 DEF Since
  <1>16. Clock'
    BY <1>1, <1>5 DEF Driven, Clock
  <1>17. Room'
    <2>1. Pulled' = Pulled /\ Pulled \in Nat /\ RunBins \in Nat /\ MaxPkts \in Nat
      <3>1. t_start \div BinNs \in Nat
        BY BinOfQueue DEF Driven
      <3>2. Pulled' = Pulled
        BY <1>1 DEF Pulled
      <3>3. Pulled \in Nat
        BY <3>1 DEF Pulled
      <3> QED
        BY <3>2, <3>3, RunBinsType, PCIeLinkAssumption
    <2>2. ASSUME NEW i \in Nat, NEW j \in Nat, i <= j, j * RunBins <= Pulled * MaxPkts
          PROVE  i * RunBins <= Pulled * MaxPkts
      <3>1. i * RunBins <= j * RunBins
        BY <2>1, <2>2, Monotone
      <3>2. i * RunBins \in Nat /\ j * RunBins \in Nat /\ Pulled * MaxPkts \in Nat
        BY <2>1, <2>2, NatProducts
      <3> QED
        BY <2>2, <3>1, <3>2
    <2>3. Waiting' \in Nat /\ Waiting' <= Waiting
      BY <1>2, <1>3, <1>7, <1>11, WaitingType
    <2>4. Waiting' * RunBins <= Pulled * MaxPkts
      BY <1>11, <2>2, <2>3 DEF Driven, Room
    <2>5. ASSUME NEW q \in Queues["stateful"]
          PROVE  (Waiting' + Since(pipeline'["stateful"][q])) * RunBins <= Pulled * MaxPkts
      <3> DEFINE s == Since(pipeline["stateful"][q])
                 u == Since(pipeline'["stateful"][q])
      <3>1. (Waiting + s) * RunBins <= Pulled * MaxPkts
        BY <1>1 DEF Driven, Room
      <3>2. s \in Nat
        BY <1>1, ReleaseRoom
      <3>3. u \in {s, s + 1}
        <4>1. CASE q = r
          BY <1>15, <4>1
        <4>2. CASE q # r
          BY <1>12, <1>13, <4>2
        <4> QED
          BY <4>1, <4>2
      <3> HIDE DEF s, u
      <3>4. Waiting' + u \in Nat /\ Waiting + s \in Nat /\ Waiting' + u <= Waiting + s
        BY <1>11, <2>3, <3>2, <3>3
      <3>5. (Waiting' + u) * RunBins <= Pulled * MaxPkts
        BY <2>2, <3>1, <3>4
      <3> QED
        BY <3>5 DEF u
    <2> QED
      BY <1>1, <1>5, <2>1, <2>4, <2>5 DEF Room, Since, Served
  <1>18. ASSUME NEW d \in Domains, NEW q \in Queues[d] PROVE OnTime(d, q)'
    <2>1. OnTime(d, q)
      BY DEF Driven
    <2>2. CASE d = "stateful" /\ q = r
      <3>1. /\ x.row.adm.pkts \in Nat /\ x.row.drop.pkts \in Nat
            /\ x.now \in Int /\ t_start \in Nat /\ \A p \in todo : t_start <= p.t /\ p.t \in Nat
        <4>1. t_start \in Nat /\ \A p \in todo : t_start <= p.t /\ p.t \in Nat
          BY BinOfQueue DEF Driven, Clock, Calls
        <4> QED
          BY <2>1, <2>2, <4>1 DEF OnTime
      <3>2. y.now \in Int /\ y.now <= t_start /\ \A p \in todo : y.now <= p.t
        BY <1>14, <3>1
      <3>3. Since(y) >= 0 /\ y.row = x.row
        BY <1>14, <1>15
      <3> HIDE DEF x
      <3> QED
        BY <1>1, <2>2, <3>1, <3>2, <3>3 DEF OnTime
    <2>3. CASE ~(d = "stateful" /\ q = r)
      <3>1. pipeline'[d][q] = pipeline[d][q]
        BY <1>13, <2>3
      <3> QED
        BY <1>1, <2>1, <3>1, OnTimeKept
    <2> QED
      BY <2>2, <2>3
  <1> QED
    BY <1>8, <1>16, <1>17, <1>18 DEF Driven

(* The other boundaries call no queue, and leave nothing behind.           *)
LEMMA BoundaryDriven ==
    ASSUME Calls, PathType, Driven,
           \/ _on_stateless_epoch_boundary \/ NoStatelessBoundary
           \/ CloseStateful \/ NoStatefulBoundary
    PROVE  Driven'
  <1>1. /\ t_start' = t_start /\ todo' = todo /\ pipeline' = pipeline
        /\ handoffs' = handoffs
        /\ \/ phase = "stateless" /\ phase' = "stateful"
           \/ phase \in {"stateful", "release"} /\ phase' = "pull"
        /\ \/ finished' = finished /\ phase # "release"
           \/ finished' = {} /\ \A h \in finished : h.left = 0
    BY DEF _on_stateless_epoch_boundary, NoStatelessBoundary, CloseStateful,
           NoStatefulBoundary
  <1>2. /\ LargestEntry' = LargestEntry /\ EndOfRun' = EndOfRun /\ RunBins' = RunBins
    BY DEF LargestEntry, LargestSize, EndOfRun, RunBins
  <1>3. Clock'
    BY <1>1, <1>2 DEF Driven, Clock
  <1>4. Buffers'
    <2>1. finished' \in {finished, {}} /\ (phase # "release" => finished' = {})
          /\ (phase = "release" => finished' = {})
      BY <1>1 DEF Driven, Buffers
    <2> QED
      BY <1>1, <1>2, <2>1 DEF Driven, Buffers
  <1>5. Room'
    <2>1. ASSUME NEW b \in Buckets["stateful"]
          PROVE  Buffered(b)' + LeftOf(b)' = Buffered(b) + LeftOf(b)
      <3>1. Buffered(b)' = Buffered(b)
        BY <1>1 DEF Buffered
      <3>2. CASE finished' = finished
        BY <3>1, <3>2 DEF LeftOf
      <3>3. CASE finished' = {} /\ \A h \in finished : h.left = 0
        <4>1. LeftOf(b)' = 0
          BY <3>3 DEF LeftOf
        <4>2. LeftOf(b) = 0
          BY <3>3 DEF LeftOf
        <4> QED
          BY <3>1, <4>1, <4>2
      <3> QED
        BY <1>1, <3>2, <3>3
    <2>2. Waiting' = Waiting
      BY <2>1, WaitingKept DEF Driven
    <2>3. Pulled' = Pulled
      BY <1>1 DEF Pulled
    <2> QED
      BY <1>1, <1>2, <2>2, <2>3 DEF Driven, Room
  <1>6. ASSUME NEW d \in Domains, NEW q \in Queues[d] PROVE OnTime(d, q)'
    <2>1. OnTime(d, q) /\ t_start # 0
      BY <1>1 DEF Driven, Clock
    <2>2. pipeline'[d][q] = pipeline[d][q]
      BY <1>1
    <2> QED
      BY <1>1, <2>1, <2>2, OnTimeKept
  <1> QED
    BY <1>3, <1>4, <1>5, <1>6 DEF Driven

(* What a bin brings: no more packets than both batches hold, none before  *)
(* the bin, and what a handoff holds back is from the stateful batch.      *)
LEMMA PullStreams ==
    ASSUME Calls, Pull
    PROVE  \E sl \in Streams("stateless"), sf \in Streams("stateful") :
              /\ IsFiniteSet(todo') /\ Cardinality(todo') <= Len(sl) + Len(sf)
              /\ \A p \in todo' : p.t \in Nat /\ t_start <= p.t
              /\ DOMAIN handoffs' = DOMAIN handoffs
              /\ \E S \in SUBSET DOMAIN sf : \A b \in DOMAIN handoffs :
                    LET more == Fitting(handoffs[b].buffer, OfBucket(sf, S, b))
                    IN  handoffs'[b] = [handoffs[b] EXCEPT !.buffer =
                                          More(@, more.pkts, more.bytes)]
  <1>1. PICK sl \in Streams("stateless"), sf \in Streams("stateful") :
          \E bytes, sh :
          \E k_sl \in KeptOf(sh, "stateless", sl, bytes),
             k_sf \in KeptOf(sh, "stateful", sf, bytes) :
             Distribute(Pair(sl, sf), Pair(k_sl, k_sf))
    BY Zenon DEF Pull
  <1>2. PICK k_sl, k_sf :
          /\ k_sl \subseteq DOMAIN sl /\ k_sf \subseteq DOMAIN sf
          /\ Distribute(Pair(sl, sf), Pair(k_sl, k_sf))
    BY <1>1, KeptOfBatch, Zenon
  <1> DEFINE stream == Pair(sl, sf)
             kept == Pair(k_sl, k_sf)
             held == [d \in Domains |-> Withheld(d, stream[d], kept[d])]
             passed == [d \in Domains |-> kept[d] \ held[d]]
             S == held["stateful"]
             Left == {Entry("stateless", sl, 0, i) : i \in passed["stateless"]}
             Right == {Entry("stateful", sf, Len(sl), i) : i \in passed["stateful"]}
  <1>3. /\ handoffs' = [b \in DOMAIN handoffs |->
              LET more == Fitting(handoffs[b].buffer,
                              OfBucket(stream["stateful"], held["stateful"], b))
              IN  [handoffs[b] EXCEPT !.buffer = More(@, more.pkts, more.bytes)]]
        /\ todo' = Merged(stream, passed)
    BY <1>2, Zenon DEF Distribute
  <1>4. "stateless" \in Domains /\ "stateful" \in Domains
    BY TwoDomains
  <1>5. /\ stream["stateless"] = sl /\ stream["stateful"] = sf
        /\ kept["stateless"] = k_sl /\ kept["stateful"] = k_sf
    BY DEF Pair
  <1>6. /\ passed["stateless"] \subseteq DOMAIN sl /\ passed["stateful"] \subseteq DOMAIN sf
        /\ S \subseteq DOMAIN sf
    BY <1>2, <1>4, <1>5 DEF Withheld
  <1>7. todo' = Left \cup Right
    BY <1>3, <1>5 DEF Merged
  <1>8. ASSUME NEW d \in Domains, NEW batch \in Streams(d), NEW n, NEW T \in SUBSET DOMAIN batch
        PROVE  LET E == {Entry(d, batch, n, i) : i \in T}
               IN  IsFiniteSet(E) /\ Cardinality(E) <= Len(batch) /\ Len(batch) \in Nat
    <2> DEFINE E == {Entry(d, batch, n, i) : i \in T}
    <2>1. /\ IsFiniteSet(DOMAIN batch) /\ DOMAIN batch = 1..Len(batch) /\ Len(batch) \in Nat
      BY BatchType, BatchPackets DEF Sized
    <2>2. IsFiniteSet(T) /\ Cardinality(T) <= Cardinality(DOMAIN batch)
          /\ Cardinality(DOMAIN batch) \in Nat
      BY <2>1, FS_Subset, FS_CardinalityType
    <2>3. Cardinality(DOMAIN batch) = Len(batch)
      <3> DEFINE m == Len(batch)
      <3>1. DOMAIN batch = 1..m /\ m \in Nat
        BY <2>1
      <3> HIDE DEF m
      <3>2. Cardinality(1..m) = m
        BY <3>1, FS_Interval
      <3> QED
        BY <3>1, <3>2 DEF m
    <2> DEFINE f == [i \in T |-> Entry(d, batch, n, i)]
    <2>4. f \in Surjection(T, E)
      BY DEF Surjection
    <2> HIDE DEF f, E
    <2>5. IsFiniteSet(E) /\ Cardinality(E) <= Cardinality(T)
      BY <2>2, <2>4, FS_Surjection
    <2>6. Cardinality(E) \in Nat /\ Cardinality(T) \in Nat
      BY <2>2, <2>5, FS_CardinalityType
    <2>7. IsFiniteSet(E) /\ Cardinality(E) <= Len(batch) /\ Len(batch) \in Nat
      BY <2>1, <2>2, <2>3, <2>5, <2>6
    <2> QED
      BY <2>7 DEF E
  <1>9. /\ IsFiniteSet(Left) /\ Cardinality(Left) <= Len(sl) /\ Len(sl) \in Nat
        /\ IsFiniteSet(Right) /\ Cardinality(Right) <= Len(sf) /\ Len(sf) \in Nat
    <2> HIDE DEF passed
    <2> QED
      BY <1>4, <1>6, <1>8
  <1>10. IsFiniteSet(todo') /\ Cardinality(todo') <= Len(sl) + Len(sf)
    <2> HIDE DEF Left, Right
    <2>1. IsFiniteSet(Left \cup Right) /\ IsFiniteSet(Left \cap Right)
          /\ Cardinality(Left \cup Right)
                = Cardinality(Left) + Cardinality(Right) - Cardinality(Left \cap Right)
      BY <1>9, FS_Union, FS_Intersection
    <2>2. Cardinality(Left) \in Nat /\ Cardinality(Right) \in Nat
          /\ Cardinality(Left \cap Right) \in Nat
      BY <1>9, <2>1, FS_CardinalityType
    <2> QED
      BY <1>7, <1>9, <2>1, <2>2
  <1>11. ASSUME NEW d \in Domains, NEW batch \in Streams(d), NEW n, NEW i \in DOMAIN batch
         PROVE  Entry(d, batch, n, i).t \in Nat /\ t_start <= Entry(d, batch, n, i).t
    <2>1. batch[i].at \in Nat
      BY BatchType
    <2>2. t_start \in Nat
      <3>1. BinNs \in Nat /\ \E k \in Nat : t_start = k * BinNs
        BY DataPathAssumption DEF Calls
      <3> QED
        BY <3>1, NatProducts
    <2> QED
      BY <2>1, <2>2 DEF Entry
  <1>12. \A p \in todo' : p.t \in Nat /\ t_start <= p.t
    <2>1. \A p \in Left : p.t \in Nat /\ t_start <= p.t
      <3> HIDE DEF passed
      <3> QED
        BY <1>4, <1>6, <1>11
    <2>2. \A p \in Right : p.t \in Nat /\ t_start <= p.t
      <3> HIDE DEF passed
      <3> QED
        BY <1>4, <1>6, <1>11
    <2> QED
      BY <1>7, <2>1, <2>2
  <1>13. DOMAIN handoffs' = DOMAIN handoffs /\ S \in SUBSET DOMAIN sf
         /\ \A b \in DOMAIN handoffs :
               LET more == Fitting(handoffs[b].buffer, OfBucket(sf, S, b))
               IN  handoffs'[b] = [handoffs[b] EXCEPT !.buffer =
                                     More(@, more.pkts, more.bytes)]
    <2> HIDE DEF held, stream
    <2> QED
      BY <1>3, <1>5, <1>6
  <1> HIDE DEF S
  <1> QED
    BY <1>10, <1>12, <1>13

(* A set of packets of a batch is no more than the batch.                  *)
LEMMA CountedBounds ==
    ASSUME NEW d \in Domains, NEW batch \in Streams(d), NEW S \in SUBSET DOMAIN batch
    PROVE  /\ Counted(batch, S).pkts \in Nat /\ Counted(batch, S).bytes \in Nat
           /\ Counted(batch, S).pkts <= Len(batch) /\ Len(batch) \in Nat
  <1>1. /\ Sized(batch, DOMAIN batch) /\ DOMAIN batch = 1..Len(batch) /\ Len(batch) \in Nat
        /\ \A i \in DOMAIN batch : batch[i].size \in Sizes
    BY BatchType, BatchPackets
  <1>2. Sized(batch, S)
    BY <1>1, SizedSubset
  <1>3. Counted(batch, S) \in Amount
    BY <1>2, CountedType
  <1>4. Cardinality(S) <= Len(batch)
    <2> DEFINE m == Len(batch)
    <2>1. DOMAIN batch = 1..m /\ m \in Nat
      BY <1>1
    <2> HIDE DEF m
    <2>2. Cardinality(1..m) = m /\ IsFiniteSet(1..m)
      BY <2>1, FS_Interval
    <2>3. Cardinality(S) <= Cardinality(1..m)
      BY <2>1, <2>2, FS_Subset
    <2> QED
      BY <2>2, <2>3 DEF m
  <1>5. Counted(batch, S)["pkts"] = Cardinality(S)
    BY CountedFields
  <1> QED
    BY <1>1, <1>3, <1>4, <1>5 DEF Amount

(* What waits grows by no more than what the stateful domain brings.       *)
LEMMA WaitingGrows ==
    ASSUME PathType, Buffers, finished' = finished,
           NEW batch \in Streams("stateful"), NEW S \in SUBSET DOMAIN batch,
           \A b \in Buckets["stateful"] :
              /\ Buffered(b)' \in Nat
              /\ Buffered(b)' <= Buffered(b) + OfBucket(batch, S, b).pkts
    PROVE  Waiting' \in Nat /\ Waiting' <= Waiting + Len(batch) /\ Len(batch) \in Nat
  <1> DEFINE B == Buckets["stateful"]
             f == [b \in B |-> Buffered(b) + LeftOf(b)]
             e == [b \in B |-> Buffered(b)' + LeftOf(b)']
             o == [b \in B |-> OfBucket(batch, S, b)]
             g == [b \in B |-> o[b]["pkts"]]
             h == [b \in B |-> f[b] + g[b]]
  <1>1. "stateful" \in Domains /\ "pkts" \in Fields
    BY TwoDomains DEF Fields
  <1>2. IsFiniteSet(B) /\ (\A b \in B : Buffered(b) \in Nat /\ LeftOf(b) \in Nat)
        /\ Waiting \in Nat
    BY WaitingType
  <1>3. \A b \in B : LeftOf(b)' = LeftOf(b)
    BY DEF LeftOf
  <1>4. ASSUME NEW b \in B PROVE o[b]["pkts"] \in Nat
    <2> DEFINE T == {i \in S : batch[i].bucket = b}
    <2>1. o[b] = Counted(batch, T) /\ T \in SUBSET DOMAIN batch
      BY DEF OfBucket
    <2> HIDE DEF T, o
    <2>2. Counted(batch, T).pkts \in Nat
      BY <1>1, <2>1, CountedBounds
    <2> QED
      BY <2>1, <2>2
  <1>5. /\ \A b \in B : f[b] \in Int /\ g[b] \in Int /\ h[b] = f[b] + g[b]
        /\ \A b \in B : e[b] \in Nat /\ e[b] \in Int /\ h[b] \in Int /\ e[b] <= h[b]
    <2>1. \A b \in B : o[b]["pkts"] = OfBucket(batch, S, b).pkts
      OBVIOUS
    <2> HIDE DEF o
    <2> QED
      BY <1>2, <1>3, <1>4, <2>1
  <1>6. Waiting = SumFunctionOnSet(f, B) /\ Waiting' = SumFunctionOnSet(e, B)
    BY DEF Waiting
  <1>7. SumFunctionOnSet(g, B) <= Len(batch) /\ SumFunctionOnSet(g, B) \in Nat
        /\ Len(batch) \in Nat
    <2> DEFINE T == OfBuckets(batch, S, B)
    <2>1. Total(o, B)["pkts"] = SumFunctionOnSet(g, B)
      BY <1>1, TotalField
    <2>2. Sized(batch, S)
      BY <1>1, BatchType, SizedSubset
    <2>3. \A b \in B : o[b] = OfBucket(batch, S, b)
      OBVIOUS
    <2> HIDE DEF o, g, B
    <2>4. Total(o, B)["pkts"] = Counted(batch, T)["pkts"]
      BY <1>1, <1>2, <2>2, <2>3, CountedByBucket
    <2>5. T \in SUBSET DOMAIN batch
      BY DEF OfBuckets
    <2> HIDE DEF T
    <2>6. Counted(batch, T).pkts \in Nat /\ Counted(batch, T).pkts <= Len(batch)
          /\ Len(batch) \in Nat
      BY <1>1, <2>5, CountedBounds
    <2> QED
      BY <2>1, <2>4, <2>6
  <1> HIDE DEF f, e, g, h, o, B
  <1>8. SumFunctionOnSet(h, B) = SumFunctionOnSet(f, B) + SumFunctionOnSet(g, B)
    BY <1>2, <1>5, SumPlus
  <1>9. SumFunctionOnSet(e, B) <= SumFunctionOnSet(h, B)
    BY <1>2, <1>5, SumMonotone
  <1>10. SumFunctionOnSet(e, B) \in Nat
    BY <1>2, <1>5, SumNatural
  <1> QED
    BY <1>2, <1>6, <1>7, <1>8, <1>9, <1>10

(* A bin starts: the counters are reset, and there is room for what comes. *)
LEMMA PullDriven ==
    ASSUME Calls, PathType, Driven, Pull
    PROVE  Driven'
  <1> DEFINE n == t_start \div BinNs
  <1>1. /\ phase = "pull" /\ phase' = "packets" /\ t_start' = t_start
        /\ t_start < EndOfRun /\ finished' = finished
        /\ pipeline' = reset_bin_queues
    BY DEF Pull
  <1>2. PICK sl \in Streams("stateless"), sf \in Streams("stateful") :
              /\ IsFiniteSet(todo') /\ Cardinality(todo') <= Len(sl) + Len(sf)
              /\ \A p \in todo' : p.t \in Nat /\ t_start <= p.t
              /\ DOMAIN handoffs' = DOMAIN handoffs
              /\ \E S \in SUBSET DOMAIN sf : \A b \in DOMAIN handoffs :
                    LET more == Fitting(handoffs[b].buffer, OfBucket(sf, S, b))
                    IN  handoffs'[b] = [handoffs[b] EXCEPT !.buffer =
                                          More(@, more.pkts, more.bytes)]
    BY PullStreams
  <1>3. PICK S \in SUBSET DOMAIN sf : \A b \in DOMAIN handoffs :
           handoffs'[b] = [handoffs[b] EXCEPT !.buffer =
              More(@, Fitting(handoffs[b].buffer, OfBucket(sf, S, b)).pkts,
                      Fitting(handoffs[b].buffer, OfBucket(sf, S, b)).bytes)]
    BY <1>2
  <1>4. /\ n \in Nat /\ n < RunBins /\ t_start \in Nat
    BY <1>1, BinOfQueue DEF Driven
  <1>5. /\ LargestEntry' = LargestEntry /\ EndOfRun' = EndOfRun /\ RunBins' = RunBins
        /\ RunBins \in Nat /\ MaxPkts \in Nat
    BY RunBinsType, PCIeLinkAssumption DEF LargestEntry, LargestSize, EndOfRun, RunBins
  <1>6. /\ Len(sl) \in Nat /\ Len(sf) \in Nat
        /\ (Len(sl) + Len(sf)) * RunBins <= MaxPkts
        /\ Len(sl) + Len(sf) <= MaxPkts /\ Len(sf) * RunBins <= MaxPkts
    <2>1. Len(sl) \in Nat /\ Len(sf) \in Nat
      BY TwoDomains, BatchType
    <2>2. sl \in Batches["stateless"] \cup {<< >>} /\ sf \in Batches["stateful"] \cup {<< >>}
      BY DEF Streams
    <2>3. (Len(sl) + Len(sf)) * RunBins <= MaxPkts
      BY <2>2, DataPathQueuesAssumption
    <2> DEFINE a == Len(sl)
               c == Len(sf)
    <2> HIDE DEF a, c
    <2>4. a \in Nat /\ c \in Nat /\ (a + c) * RunBins <= MaxPkts
      BY <2>1, <2>3 DEF a, c
    <2>5. (a + c) * 1 <= (a + c) * RunBins /\ c * RunBins <= (a + c) * RunBins
      BY <1>4, <1>5, <2>4, Times, Monotone
    <2>6. c * RunBins \in Nat /\ (a + c) * RunBins \in Nat
      BY <1>5, <2>4
    <2>7. a + c <= MaxPkts /\ c * RunBins <= MaxPkts
      BY <1>5, <2>4, <2>5, <2>6
    <2> QED
      BY <2>1, <2>3, <2>7 DEF a, c
  <1>7. ASSUME NEW b \in Buckets["stateful"]
        PROVE  OfBucket(sf, S, b) \in Amount /\ OfBucket(sf, S, b).pkts \in Nat
    <2> DEFINE T == {i \in S : sf[i].bucket = b}
    <2>1. OfBucket(sf, S, b) = Counted(sf, T) /\ T \in SUBSET DOMAIN sf
      BY DEF OfBucket
    <2> HIDE DEF T
    <2>2. Sized(sf, T)
      BY <2>1, TwoDomains, BatchType, SizedSubset
    <2> QED
      BY <2>1, <2>2, CountedType DEF Amount
  <1>8. ASSUME NEW b \in DOMAIN handoffs
        PROVE  /\ handoffs[b].buffer.pkts \in Nat /\ handoffs'[b].buffer.pkts \in Nat
               /\ handoffs'[b].buffer.pkts
                     <= handoffs[b].buffer.pkts + OfBucket(sf, S, b).pkts
               /\ handoffs'[b].buffer.bytes <= BufferCapacity
    <2> DEFINE load == OfBucket(sf, S, b)
               buffer == handoffs[b].buffer
               more == Fitting(buffer, load)
    <2>1. b \in Buckets["stateful"] /\ handoffs[b] \in [q_dst : Queues["stateful"], buffer : Amount]
      BY DEF PathType, PendingHandoff
    <2>2. buffer \in Amount /\ load \in Amount /\ buffer.bytes <= BufferCapacity
      BY <1>7, <2>1 DEF Driven, Buffers
    <2>3. handoffs'[b] = [handoffs[b] EXCEPT !.buffer = More(@, more.pkts, more.bytes)]
      BY <1>3
    <2> HIDE DEF load, more
    <2>4. handoffs'[b].buffer = More(buffer, more.pkts, more.bytes)
      BY <2>1, <2>3
    <2> HIDE DEF buffer
    <2>5. /\ more \in Amount /\ more.pkts <= load.pkts
          /\ buffer.bytes + more.bytes <= BufferCapacity
      BY <2>2, FittingBounds DEF more
    <2>6. /\ more.pkts \in Nat /\ more.bytes \in Nat /\ load.pkts \in Nat
          /\ buffer.pkts \in Nat
      BY <2>2, <2>5 DEF Amount
    <2>7. /\ More(buffer, more.pkts, more.bytes).pkts = buffer.pkts + more.pkts
          /\ More(buffer, more.pkts, more.bytes).bytes = buffer.bytes + more.bytes
      BY <2>2, <2>6, MoreFields
    <2>8. /\ handoffs'[b].buffer.pkts = buffer.pkts + more.pkts
          /\ handoffs'[b].buffer.bytes = buffer.bytes + more.bytes
      BY <2>4, <2>7
    <2>9. /\ handoffs'[b].buffer.pkts \in Nat
          /\ handoffs'[b].buffer.pkts <= buffer.pkts + load.pkts
          /\ handoffs'[b].buffer.bytes <= BufferCapacity
      BY <2>5, <2>6, <2>8
    <2> QED
      BY <2>6, <2>9 DEF buffer, load
  <1>9. Clock'
    BY <1>1, <1>2, <1>5 DEF Driven, Clock
  <1>10. Buffers'
    <2>1. \A b \in DOMAIN handoffs : handoffs'[b].buffer.bytes <= BufferCapacity
      BY <1>8
    <2>2. finished = {}
      BY <1>1 DEF Driven, Buffers
    <2> QED
      BY <1>1, <1>2, <1>5, <2>1, <2>2 DEF Buffers
  <1>11. Room'
    <2>1. Waiting' \in Nat /\ Waiting' <= Waiting + Len(sf)
      <3>1. ASSUME NEW b \in Buckets["stateful"]
            PROVE  /\ Buffered(b)' \in Nat
                   /\ Buffered(b)' <= Buffered(b) + OfBucket(sf, S, b).pkts
        <4>1. CASE b \in DOMAIN handoffs
          <5>1. Buffered(b)' = handoffs'[b].buffer.pkts
                /\ Buffered(b) = handoffs[b].buffer.pkts
            BY <1>2, <4>1 DEF Buffered
          <5> QED
            BY <1>7, <1>8, <4>1, <5>1
        <4>2. CASE b \notin DOMAIN handoffs
          <5>1. Buffered(b)' = 0 /\ Buffered(b) = 0
            BY <1>2, <4>2 DEF Buffered
          <5> QED
            BY <1>7, <5>1
        <4> QED
          BY <4>1, <4>2
      <3> QED
        BY <1>1, <3>1, WaitingGrows DEF Driven
    <2>2. Pulled = n /\ Pulled' = n + 1
      BY <1>1, <1>4 DEF Pulled
    <2>3. Waiting \in Nat /\ Waiting * RunBins <= n * MaxPkts
      BY <1>1, <2>2, WaitingType DEF Driven, Room
    <2> DEFINE a == Waiting
               b == Waiting'
               c == Len(sf)
    <2>4. /\ a \in Nat /\ b \in Nat /\ c \in Nat /\ b <= a + c
          /\ a * RunBins <= n * MaxPkts /\ c * RunBins <= MaxPkts
      BY <1>6, <2>1, <2>3
    <2> HIDE DEF a, b, c, n
    <2>5. b * RunBins <= (a + c) * RunBins
      BY <1>5, <2>4, Monotone
    <2>6. (a + c) * RunBins = a * RunBins + c * RunBins /\ (n + 1) * MaxPkts = n * MaxPkts + MaxPkts
          /\ a * RunBins \in Nat /\ c * RunBins \in Nat /\ n * MaxPkts \in Nat
          /\ b * RunBins \in Nat
      BY <1>4, <1>5, <2>4
    <2>7. b * RunBins <= (n + 1) * MaxPkts
      BY <1>5, <2>4, <2>5, <2>6
    <2> QED
      BY <1>1, <1>5, <2>2, <2>7 DEF Room, b
  <1>12. ASSUME NEW d \in Domains, NEW q \in Queues[d] PROVE OnTime(d, q)'
    <2> DEFINE x == pipeline[d][q]
               y == pipeline'[d][q]
    <2>1. DOMAIN x = {"credits", "heap", "next_free", "now", "stats", "row", "admitted"}
      BY DEF PathType, DomainType, QueueType
    <2>2. y = [x EXCEPT !.stats = NoCounts]
      BY <1>1 DEF reset_bin_queues
    <2>3. /\ x.row.adm.pkts \in Nat /\ x.row.drop.pkts \in Nat /\ x.now \in Int
          /\ x.now <= t_start
      BY <1>1 DEF Driven, OnTime
    <2> HIDE DEF x, y
    <2>4. y.stats = NoCounts /\ y.row = x.row /\ y.now = x.now
      BY <2>1, <2>2
    <2>5. Served(y.stats) = 0
      BY <2>4 DEF Served, NoCounts, Nothing
    <2>6. \A p \in todo' : y.now <= p.t
      BY <1>2, <1>4, <2>3, <2>4
    <2>7. Served(y.stats) + Cardinality(todo') <= MaxPkts
      <3>1. Cardinality(todo') \in Nat
        BY <1>2, FS_CardinalityType
      <3> QED
        BY <1>2, <1>5, <1>6, <2>5, <3>1
    <2> QED
      BY <1>1, <2>3, <2>4, <2>6, <2>7 DEF OnTime, y
  <1> QED
    BY <1>9, <1>10, <1>11, <1>12 DEF Driven

(* Nothing happens.                                                        *)
LEMMA StutterDriven == ASSUME Driven, UNCHANGED allVars PROVE Driven'
  <1>1. /\ t_start' = t_start /\ phase' = phase /\ todo' = todo /\ pipeline' = pipeline
        /\ handoffs' = handoffs /\ finished' = finished
    BY DEF allVars, pathVars
  <1>2. /\ LargestEntry' = LargestEntry /\ EndOfRun' = EndOfRun /\ RunBins' = RunBins
    BY DEF LargestEntry, LargestSize, EndOfRun, RunBins
  <1>3. Waiting' = Waiting /\ Pulled' = Pulled
    BY <1>1 DEF Waiting, Buffered, LeftOf, Pulled
  <1>4. Clock' /\ Buffers' /\ Room'
    BY <1>1, <1>2, <1>3 DEF Driven, Clock, Buffers, Room
  <1>5. \A d \in Domains : \A q \in Queues[d] : OnTime(d, q)'
    BY <1>1 DEF Driven, OnTime
  <1> QED
    BY <1>4, <1>5 DEF Driven

(* Every step of the data path keeps every queue driven.                   *)
LEMMA StepDriven ==
    ASSUME Calls, TypeOK, PathType, Driven, [NextPath]_allVars
    PROVE  Driven'
  <1>1. CASE Pull
    BY <1>1, PullDriven
  <1>2. CASE Packet
    BY <1>2, PacketDriven
  <1>3. CASE EndBin
    BY <1>3, EndBinDriven
  <1>4. CASE _on_stateful_epoch_boundary
    BY <1>4, StatefulBoundaryDriven
  <1>5. CASE Release
    BY <1>5, ReleaseDriven
  <1>6. CASE \/ _on_stateless_epoch_boundary \/ NoStatelessBoundary
             \/ CloseStateful \/ NoStatefulBoundary
    BY <1>6, BoundaryDriven
  <1>7. CASE Done \/ UNCHANGED allVars
    BY <1>7, StutterDriven DEF Done
  <1> QED
    BY <1>1, <1>2, <1>3, <1>4, <1>5, <1>6, <1>7 DEF NextPath

-----------------------------------------------------------------------------
(* Every queue follows the clock, and the handoffs hold no more than came. *)
THEOREM QueuesAlwaysDriven ==
    SpecPath => [](Driven /\ Calls /\ PathType /\ TypeOK)
  <1>1. SpecPath => []Inductive
    BY LinkUsedInOrder, InductiveHolds, PTL
  <1>2. InitPath => Calls /\ Driven
    BY InitCalls, InitDriven
  <1>3. Inductive /\ PathInductive /\ Calls /\ Driven /\ [NextPath]_allVars
           => Calls' /\ Driven'
    <2> SUFFICES ASSUME Inductive, PathInductive, Calls, Driven, [NextPath]_allVars
                 PROVE  Calls' /\ Driven'
      OBVIOUS
    <2>1. TypeOK /\ PathType
      BY DEF Inductive, PathInductive
    <2> QED
      BY <2>1, StepCalls, StepDriven
  <1>4. Inductive /\ PathInductive => TypeOK /\ PathType
    BY DEF Inductive, PathInductive
  <1> QED
    BY <1>1, <1>2, <1>3, <1>4, LedgerAlwaysKept, PTL DEF SpecPath

(* Each step of the data path is a step of every queue, or none of its     *)
(* own.                                                                    *)
QueuesFollow == \A d \in Domains : \A q \in Queues[d] : Follows(d, q)

(* Whatever a bin does to a queue, among the packets of all others and of  *)
(* both domains, is what QueuePipeline says of one queue alone: for all    *)
(* batches, tables, handoffs, service times and arbiters.                  *)
THEOREM QueuesAlwaysPipelines == SpecPath => QueuesArePipelines
  <1>1. Driven /\ Calls /\ PathType /\ TypeOK /\ [NextPath]_allVars => QueuesFollow
    BY StepFollows DEF QueuesFollow
  <1>2. QueuesFollow <=>
           \A d \in Domains : \A q \in Queues[d] :
              Queue(d, q)!Next \/ UNCHANGED Queue(d, q)!vars
    BY DEF QueuesFollow, Follows
  <1>3. SpecPath => [][QueuesFollow]_allVars
    BY <1>1, QueuesAlwaysDriven, PTL DEF SpecPath
  <1> QED
    BY <1>2, <1>3, PTL DEF QueuesArePipelines

(* A new queue of the data path is a new queue of QueuePipeline.           *)
LEMMA QueueStarts ==
    ASSUME InitPath, NEW d \in Domains, NEW q \in Queues[d]
    PROVE  Queue(d, q)!Init
  <1> DEFINE x == pipeline[d][q]
  <1>1. /\ t_start = 0 /\ phase = "pull"
        /\ x = NewQueue(d)
    BY DEF InitPath
  <1>2. BinNs \in Nat \ {0} /\ D_q[d] \in Nat
    BY DataPathAssumption
  <1>3. t_start \div BinNs = 0
    BY <1>1, <1>2
  <1>4. /\ x.credits = D_q[d] /\ x.heap = {} /\ x.next_free = 0 /\ x.now = 0
        /\ x.stats = NoCounts /\ x.row = NoCounts /\ x.admitted = 0
        /\ x.stats.returned = 0 /\ x.stats.adm.pkts = 0
    BY <1>1 DEF NewQueue, NoCounts, Nothing
  <1>5. ~Idle
    BY <1>1 DEF Idle
  <1> HIDE DEF x
  <1>6. x.credits - x.stats.returned + x.stats.adm.pkts = D_q[d]
    BY <1>2, <1>4
  <1> QED
    BY <1>3, <1>4, <1>5, <1>6, NoCountsAlike DEF Queue!Init, x

(* So each queue of the data path, seen alone, behaves as QueuePipeline.   *)
THEOREM EachQueueImplements ==
    ASSUME NEW d \in Domains, NEW q \in Queues[d]
    PROVE  SpecPath => Queue(d, q)!Spec
  <1>1. InitPath => Queue(d, q)!Init
    BY QueueStarts
  <1>2. Driven /\ Calls /\ PathType /\ TypeOK /\ [NextPath]_allVars
           => [Queue(d, q)!Next]_(Queue(d, q)!vars)
    BY StepFollows DEF Follows
  <1> QED
    BY <1>1, <1>2, QueuesAlwaysDriven, PTL DEF SpecPath, Queue!Spec
-----------------------------------------------------------------------------
(* A finite set is listed without repetition.                              *)
LEMMA Listed ==
    ASSUME NEW S, IsFiniteSet(S), NEW n, n = Cardinality(S), NEW pi, pi = SetToSeq(S)
    PROVE  /\ n \in Nat /\ DOMAIN pi = 1..n
           /\ \A k \in 1..n : pi[k] \in S
           /\ \A k, m \in 1..n : pi[k] = pi[m] => k = m
           /\ \A s \in S : \E k \in 1..n : pi[k] = s
  <1>1. n \in Nat /\ ExistsBijection(1..n, S)
    BY FS_CardinalityType
  <1>2. PICK g \in [1..n -> S] : IsInjective(g)
    BY <1>1 DEF ExistsBijection, Bijection, Injection
  <1>3. pi \in [1..n -> S] /\ IsInjective(pi)
    BY <1>2 DEF SetToSeq
  <1>4. IsFiniteSet(1..n) /\ Cardinality(1..n) = n
    BY <1>1, FS_Interval, 1 \in Int, n \in Int
  <1>5. pi \in Surjection(1..n, S)
    <2>1. pi \in Injection(1..n, S) /\ Cardinality(S) = Cardinality(1..n)
      BY <1>3, <1>4 DEF Injection
    <2> QED
      BY <1>4, <2>1, FS_Injection
  <1>6. \A s \in S : \E k \in 1..n : pi[k] = s
    BY <1>5 DEF Surjection
  <1> QED
    BY <1>1, <1>3, <1>6 DEF IsInjective

(* The index of an epoch's bytes is their Gini coefficient.                *)
LEMMA ImbalanceIsGini ==
    ASSUME NEW S, IsFiniteSet(S), NEW x, \A i \in S : x[i] \in Nat,
           NEW r, r = imbalance(x, S)
    PROVE  /\ r.num * (2 * Cardinality(S) * Sum(x, S)) = r.den * MeanDifference(x, S)
           /\ Cardinality(S) # 0 /\ Sum(x, S) # 0 =>
                 /\ r.num \in Int /\ MeanDifference(x, S) = 2 * r.num
                 /\ r.den = Cardinality(S) * Sum(x, S)
           /\ Cardinality(S) = 0 \/ Sum(x, S) = 0 => r.num = 0 /\ r.den = 1
  <1> DEFINE n == Cardinality(S)
             K == 1..n
             pi == SetToSeq(S)
             y == [i \in K |-> x[pi[i]]]
             s == Sum(x, S)
             W == SumFunctionOnSet([k \in K |-> k * Sorted(y)[k]], K)
             D == [i \in K |-> SumFunctionOnSet([j \in K |-> Apart(y[i], y[j])], K)]
             E == [p \in S |-> SumFunctionOnSet([q \in S |-> Distance(x[p], x[q])], S)]
             M == MeanDifference(x, S)
  <1>1. /\ n \in Nat /\ DOMAIN pi = K
        /\ \A k \in K : pi[k] \in S
        /\ \A k, m \in K : pi[k] = pi[m] => k = m
        /\ \A p \in S : \E k \in K : pi[k] = p
    BY Listed
  <1>2. IsFiniteSet(K)
    BY <1>1, FS_Interval, 1 \in Int, n \in Int
  <1>3. \A i \in S : x[i] \in Int
    OBVIOUS
  <1> HIDE DEF pi
  <1>4. DOMAIN y = K /\ \A i \in K : y[i] = x[pi[i]] /\ y[i] \in Int
    BY <1>1
  <1>5. s = SumFunctionOnSet(y, K) /\ s \in Int
    <2>1. \A t \in K : pi[t] \in S /\ x[pi[t]] \in Int /\ y[t] = x[pi[t]]
      BY <1>1
    <2> HIDE DEF y, K
    <2>2. SumFunctionOnSet(x, S) = SumFunctionOnSet(y, K)
      BY <1>1, <1>2, <2>1, SumRenamed
    <2> QED
      BY <1>3, <2>2, SumInteger DEF Sum
  <1>6. W \in Int /\ SumFunctionOnSet(D, K) = 2 * (2 * W - (n + 1) * s)
        /\ \A i \in K : D[i] \in Int
    <2>1. /\ W \in Int /\ SumFunctionOnSet(y, K) \in Int
          /\ \A i \in K : D[i] \in Int
          /\ SumFunctionOnSet(D, K) = 2 * (2 * W - (n + 1) * SumFunctionOnSet(y, K))
      <3> HIDE DEF y, n
      <3>1. \A i \in 1..n : y[i] \in Int
        BY <1>4
      <3> QED
        BY <1>1, <1>4, <3>1, GiniFromRanks
    <2> HIDE DEF W, D, y, n, s
    <2> QED
      BY <1>5, <2>1
  <1>7. \A p, q \in S : Distance(x[p], x[q]) = Apart(x[p], x[q]) /\ Distance(x[p], x[q]) \in Int
    BY <1>3 DEF Distance, Apart
  <1>8. \A i \in K : /\ pi[i] \in S /\ E[pi[i]] \in Int /\ D[i] = E[pi[i]]
    <2> SUFFICES ASSUME NEW i \in K PROVE E[pi[i]] \in Int /\ D[i] = E[pi[i]]
      BY <1>1
    <2> DEFINE f == [q \in S |-> Distance(x[pi[i]], x[q])]
               g == [j \in K |-> Apart(y[i], y[j])]
    <2>1. pi[i] \in S
      BY <1>1
    <2>2. \A t \in K : pi[t] \in S /\ f[pi[t]] \in Int /\ g[t] = f[pi[t]]
      BY <1>1, <1>7, <2>1
    <2>3. D[i] = SumFunctionOnSet(g, K) /\ E[pi[i]] = SumFunctionOnSet(f, S)
      BY <2>1
    <2>4. \A q \in S : f[q] \in Int
      BY <1>7, <2>1
    <2> HIDE DEF f, g, K, D, E
    <2>5. SumFunctionOnSet(f, S) = SumFunctionOnSet(g, K)
      BY <1>1, <1>2, <2>2, SumRenamed
    <2> QED
      BY <2>3, <2>4, <2>5, SumInteger
  <1>9. M = SumFunctionOnSet(E, S)
    BY DEF MeanDifference, Sum
  <1>10. M = SumFunctionOnSet(D, K)
    <2> HIDE DEF D, E, K, M
    <2>1. SumFunctionOnSet(E, S) = SumFunctionOnSet(D, K)
      BY <1>1, <1>2, <1>8, SumRenamed
    <2> QED
      BY <1>9, <2>1
  <1>11. M = 2 * (2 * W - (n + 1) * s)
    BY <1>6, <1>10
  <1>12. CASE n = 0 \/ s = 0
    <2>1. r.num = 0 /\ r.den = 1
      <3>1. r = Zero
        BY <1>12 DEF imbalance
      <3> QED
        BY <3>1 DEF Zero
    <2>2. M = 0
      <3>1. \A p \in S : E[p] = 0
        <4>1. CASE n = 0
          BY <1>1, <4>1, FS_EmptySet
        <4>2. CASE s = 0
          <5>1. \A p \in S : x[p] = 0
            BY <4>2, JainBounds DEF Sum
          <5>2. SUFFICES ASSUME NEW p \in S PROVE E[p] = 0
            OBVIOUS
          <5> DEFINE f == [q \in S |-> Distance(x[p], x[q])]
          <5>3. \A q \in S : f[q] = 0
            BY <5>1 DEF Distance
          <5>4. E[p] = SumFunctionOnSet(f, S)
            OBVIOUS
          <5> HIDE DEF f, E
          <5> QED
            BY <5>3, <5>4, SumZero
        <4> QED
          BY <1>12, <4>1, <4>2
      <3> HIDE DEF E
      <3> QED
        BY <1>9, <3>1, SumZero
    <2>3. 2 * n * s \in Int
      BY <1>1, <1>5
    <2> HIDE DEF M, n, s
    <2>4. r.num * (2 * n * s) = r.den * M
      BY <2>1, <2>2, <2>3
    <2> QED
      BY <1>12, <2>1, <2>4 DEF n, s, M
  <1>13. CASE ~(n = 0 \/ s = 0)
    <2>1. r.num = 2 * W - (n + 1) * s /\ r.den = n * s
      <3>1. DOMAIN Sorted(y) = K
        BY DEF Sorted
      <3>2. Weighted(Sorted(y)) = W
        <4>1. Weighted(Sorted(y)) = SumFunctionOnSet([i \in DOMAIN Sorted(y) |-> i * Sorted(y)[i]],
                                                     DOMAIN Sorted(y))
          BY DEF Weighted, Sum
        <4> HIDE DEF y
        <4> QED
          BY <3>1, <4>1
      <3>3. r = [num |-> 2 * Weighted(Sorted(y)) - (n + 1) * s, den |-> n * s]
        BY <1>13 DEF imbalance, pi
      <3> QED
        BY <3>2, <3>3
    <2> DEFINE A == 2 * W - (n + 1) * s
    <2>2. n * s \in Int /\ A \in Int /\ 2 * n * s = 2 * (n * s)
      BY <1>1, <1>5, <1>6
    <2> DEFINE B == n * s
    <2>3. r.num = A /\ r.den = B /\ M = 2 * A /\ 2 * n * s = 2 * B
      BY <1>11, <2>1, <2>2
    <2>4. A \in Int /\ B \in Int
      BY <2>2
    <2> HIDE DEF A, B
    <2>5. A * (2 * B) = B * (2 * A)
      BY <2>4
    <2> HIDE DEF M, n, s
    <2>6. r.num * (2 * n * s) = r.den * M
      BY <2>3, <2>5
    <2>7. r.num \in Int /\ M = 2 * r.num /\ r.den = n * s
      BY <2>1, <2>3, <2>4
    <2> QED
      BY <1>13, <2>6, <2>7 DEF M, n, s
  <1> QED
    BY <1>12, <1>13

(* The imbalance: 0 for equal loads only, and at most (n - 1) / n, which it *)
(* reaches when one queue has everything.                                  *)
LEMMA ImbalanceInBounds ==
    ASSUME NEW S, IsFiniteSet(S), S # {}, NEW x, \A i \in S : x[i] \in Nat,
           NEW r, r = imbalance(x, S)
    PROVE  LET n == Cardinality(S)
           IN  /\ r.num = 0 <=> \A q, t \in S : x[q] = x[t]
               /\ r.num * n <= r.den * (n - 1)
               /\ Sum(x, S) > 0 =>
                     (r.num * n = r.den * (n - 1)
                        <=> \E q \in S : \A t \in S \ {q} : x[t] = 0)
  <1> DEFINE n == Cardinality(S)
             s == Sum(x, S)
             E == [p \in S |-> SumFunctionOnSet([q \in S |-> Distance(x[p], x[q])], S)]
             M == MeanDifference(x, S)
             N == r.num
             most == (n - 1) * s
  <1>1. n \in Nat /\ n > 0 /\ s \in Nat
    BY FS_CardinalityType, FS_EmptySet, SumNatural DEF Sum
  <1>2. M = SumFunctionOnSet(E, S)
    BY DEF MeanDifference, Sum
  <1>3. \A p \in S : E[p] = ApartFrom(x, S, p)
    BY DEF Distance, Apart, ApartFrom
  <1>4. /\ s = 0 => N = 0 /\ r.den = 1
        /\ s # 0 => N \in Int /\ M = 2 * N /\ r.den = n * s
    BY <1>1, ImbalanceIsGini
  <1> HIDE DEF E, M, N
  <1>5. LET w == 2 * ((Cardinality(S) - 1) * SumFunctionOnSet(x, S))
        IN  /\ SumFunctionOnSet(E, S) \in Nat /\ w \in Int
            /\ SumFunctionOnSet(E, S) <= w
            /\ SumFunctionOnSet(E, S) = w
                  <=> \A p, i \in S : p = i \/ x[p] = 0 \/ x[i] = 0
            /\ SumFunctionOnSet(E, S) = 0 <=> \A p, i \in S : x[i] = x[p]
    <2> HIDE DEF n, s, most
    <2> QED
      BY <1>3, ApartFromAll
  <1>6. /\ M \in Nat /\ M <= 2 * most
        /\ M = 2 * most <=> \A p, i \in S : p = i \/ x[p] = 0 \/ x[i] = 0
        /\ M = 0 <=> \A p, i \in S : x[i] = x[p]
    BY <1>2, <1>5 DEF Sum
  <1>7. (\A p, i \in S : p = i \/ x[p] = 0 \/ x[i] = 0)
           <=> \E q \in S : \A t \in S \ {q} : x[t] = 0
    OBVIOUS
  <1> HIDE DEF n, s
  <1>8. most \in Int
    BY <1>1
  <1>9. CASE s = 0
    <2>1. \A p \in S : x[p] = 0
      BY <1>9, JainBounds DEF s, Sum
    <2>2. N * n <= r.den * (n - 1) /\ N = 0
      BY <1>1, <1>4, <1>9
    <2> QED
      BY <1>9, <2>1, <2>2 DEF n, s, N
  <1>10. CASE s # 0
    <2>1. N \in Int /\ M = 2 * N /\ r.den = n * s
      BY <1>4, <1>10
    <2>2. N <= most /\ (M = 2 * most <=> N = most) /\ (M = 0 <=> N = 0)
      <3> HIDE DEF most
      <3> QED
        BY <1>6, <1>8, <2>1
    <2>3. r.den * (n - 1) = most * n
      <3>1. (n * s) * (n - 1) = ((n - 1) * s) * n
        BY <1>1
      <3> QED
        BY <2>1, <3>1
    <2> HIDE DEF most
    <2>4. N * n <= most * n /\ (N * n = most * n <=> N = most)
      <3>1. N * n <= most * n
        BY <1>1, <1>8, <2>1, <2>2, TimesInt
      <3>2. ASSUME N # most PROVE N * n # most * n
        <4>1. N + 1 <= most /\ N + 1 \in Int
          BY <1>8, <2>1, <2>2, <3>2
        <4>2. (N + 1) * n <= most * n
          BY <1>1, <1>8, <4>1, TimesInt
        <4>3. (N + 1) * n = N * n + n /\ N * n \in Int /\ most * n \in Int
          BY <1>1, <1>8, <2>1
        <4> QED
          BY <1>1, <4>2, <4>3
      <3> QED
        BY <3>1, <3>2
    <2> QED
      BY <1>6, <1>7, <2>2, <2>3, <2>4 DEF n, s, N
  <1> QED
    BY <1>9, <1>10

(* Fairness lies between 1/n and 1.                                        *)
LEMMA FairnessInBounds ==
    ASSUME NEW S, IsFiniteSet(S), S # {}, NEW x, \A i \in S : x[i] \in Nat,
           NEW r, r = fairness(x, S)
    PROVE  /\ r.num <= r.den /\ r.den <= Cardinality(S) * r.num
           /\ r.num = r.den <=> \A i, j \in S : x[i] = x[j]
  <1> DEFINE n == Cardinality(S)
             s == SumFunctionOnSet(x, S)
             q == SquareSum(x, S)
  <1>1. /\ n \in Nat /\ s \in Nat /\ q \in Nat
        /\ s * s <= n * q /\ q <= s * s
        /\ s * s = n * q <=> \A i, j \in S : x[i] = x[j]
        /\ s = 0 => \A i \in S : x[i] = 0
        /\ q = 0 <=> s = 0
    BY JainBounds
  <1>2. n # 0
    BY <1>1, FS_EmptySet
  <1>3. Sum(x, S) = s /\ Sum([i \in S |-> x[i] * x[i]], S) = q
    BY DEF Sum, SquareSum
  <1>4. r = IF s <= 0 \/ q <= 0 THEN One ELSE [num |-> s * s, den |-> n * q]
    BY <1>3 DEF fairness
  <1> HIDE DEF n, s, q
  <1>5. CASE s = 0
    <2>1. r.num = 1 /\ r.den = 1
      BY <1>4, <1>5 DEF One
    <2>2. \A i, j \in S : x[i] = x[j]
      BY <1>1, <1>5
    <2>3. 1 <= n * 1
      BY <1>1, <1>2
    <2> QED
      BY <2>1, <2>2, <2>3 DEF n
  <1>6. CASE s # 0
    <2>1. r.num = s * s /\ r.den = n * q
      BY <1>1, <1>4, <1>6
    <2>2. n * q <= n * (s * s)
      <3>1. s * s \in Nat
        BY <1>1
      <3> QED
        BY <1>1, <3>1, Monotone
    <2> QED
      BY <1>1, <2>1, <2>2 DEF n
  <1> QED
    BY <1>5, <1>6

-----------------------------------------------------------------------------
(* Numbers in order.                                                       *)
Rising(s, n) ==
    /\ Len(s) = n
    /\ \A k \in 1..n : s[k] \in Int
    /\ \A k, m \in 1..n : k <= m => s[k] <= s[m]

(* A quantile v lies between two neighbours a and b, r thousandths of the  *)
(* way.                                                                    *)
Interpolated(s, n, p, v, i, r, a, b) ==
    /\ i \in Nat /\ i < n /\ r \in Nat /\ r < 1000
    /\ (n - 1) * p = 1000 * i + r
    /\ a \in Int /\ b \in Int /\ v \in Int
    /\ a = s[i + 1] /\ b = s[IF i + 2 <= n THEN i + 2 ELSE n]
    /\ a <= b /\ b <= s[n]
    /\ v = 1000 * a + r * (b - a)
    /\ 1000 * a <= v /\ v <= 1000 * b

(* A quantile of the code lies between two neighbours of the list.         *)
LEMMA QuantileBetween ==
    ASSUME NEW n, n \in Nat \ {0}, NEW s, Rising(s, n), NEW p, p \in 0..1000,
           NEW v, v = Quantile(s, p)
    PROVE  \E i, r, a, b : Interpolated(s, n, p, v, i, r, a, b)
  <1> DEFINE pos == (n - 1) * p
             i == pos \div 1000
             r == pos % 1000
             j == IF i + 2 <= n THEN i + 2 ELSE n
             a == s[i + 1]
             b == s[j]
  <1>1. n - 1 \in Nat /\ p \in Nat /\ 1000 \in Nat \ {0} /\ p <= 1000
    OBVIOUS
  <1>2. pos \in Nat /\ pos <= (n - 1) * 1000
    BY <1>1, Times
  <1> HIDE DEF pos
  <1>3. pos = 1000 * i + r /\ r \in 0..999 /\ i \in Nat
    BY <1>1, <1>2, DivMod
  <1> HIDE DEF i, r
  <1>4. i \in 0..(n - 1)
    BY <1>1, <1>2, <1>3
  <1>5. i + 1 \in 1..n /\ j \in 1..n /\ i + 1 <= j /\ n \in 1..n /\ j <= n
    BY <1>4
  <1>6. a \in Int /\ b \in Int /\ a <= b /\ b <= s[n]
    BY <1>5 DEF Rising
  <1>7. v = a * (1000 - r) + b * r
    BY DEF Quantile, Rising, i, r, pos
  <1>8. a = s[i + 1] /\ b = s[IF i + 2 <= n THEN i + 2 ELSE n]
    OBVIOUS
  <1> HIDE DEF a, b
  <1>9. PICK e \in Nat : b = a + e
    <2>1. b - a \in Nat /\ b = a + (b - a)
      BY <1>6
    <2> QED
      BY <2>1
  <1>10. r \in Nat /\ r <= 1000 /\ 1000 \in Nat
    BY <1>3
  <1>11. r * e \in Nat /\ r * e <= 1000 * e
    BY <1>10, Monotone
  <1>12. v = 1000 * a + r * e
    <2>1. b * r = a * r + r * e /\ a * (1000 - r) = 1000 * a - a * r /\ a * r \in Int
      BY <1>6, <1>9, <1>10
    <2> QED
      BY <1>6, <1>7, <1>11, <2>1
  <1>13. v \in Int /\ 1000 * a <= v /\ v <= 1000 * b
    BY <1>6, <1>9, <1>11, <1>12
  <1>14. b - a = e
    BY <1>6, <1>9
  <1>15. v = 1000 * a + r * (b - a)
    BY <1>12, <1>14
  <1> HIDE DEF j
  <1>16. i < n /\ r < 1000 /\ (n - 1) * p = 1000 * i + r
    BY <1>3, <1>4 DEF pos
  <1>17. Interpolated(s, n, p, v, i, r, a, b)
    BY <1>3, <1>6, <1>8, <1>10, <1>13, <1>15, <1>16 DEF Interpolated
  <1> QED
    BY <1>17

(* A higher quantile is no smaller.                                        *)
LEMMA QuantilesInOrder ==
    ASSUME NEW n, n \in Nat \ {0}, NEW s, Rising(s, n), NEW p, p \in 0..1000,
           NEW o, o \in 0..1000, p <= o
    PROVE  Quantile(s, p) <= Quantile(s, o)
  <1> DEFINE m == n - 1
             v == Quantile(s, p)
             w == Quantile(s, o)
  <1> HIDE DEF v, w
  <1>1. PICK i, r, a, b : Interpolated(s, n, p, v, i, r, a, b)
    BY QuantileBetween DEF v
  <1>2. PICK j, t, c, e : Interpolated(s, n, o, w, j, t, c, e)
    BY QuantileBetween DEF w
  <1>3. /\ i \in Nat /\ i < n /\ r \in Nat /\ r < 1000 /\ m * p = 1000 * i + r
        /\ a \in Int /\ b \in Int /\ v \in Int
        /\ a = s[i + 1] /\ b = s[IF i + 2 <= n THEN i + 2 ELSE n]
        /\ a <= b /\ v = 1000 * a + r * (b - a) /\ v <= 1000 * b
    BY <1>1 DEF Interpolated
  <1>4. /\ j \in Nat /\ j < n /\ t \in Nat /\ t < 1000 /\ m * o = 1000 * j + t
        /\ c \in Int /\ e \in Int /\ w \in Int
        /\ c = s[j + 1] /\ e = s[IF j + 2 <= n THEN j + 2 ELSE n]
        /\ w = 1000 * c + t * (e - c) /\ 1000 * c <= w
    BY <1>2 DEF Interpolated
  <1>5. m * p <= m * o
    <2>1. m \in Nat /\ p \in Nat /\ o \in Nat
      OBVIOUS
    <2> HIDE DEF m
    <2> QED
      BY <2>1, Times
  <1>6. 1000 * i + r <= 1000 * j + t
    BY <1>3, <1>4, <1>5
  <1>7. i <= j
    BY <1>3, <1>4, <1>6
  <1>8. CASE i = j
    <2>1. a = c /\ b = e /\ r <= t
      BY <1>3, <1>4, <1>6, <1>8
    <2>2. PICK f \in Nat : b - a = f
      BY <1>3
    <2>3. r * f <= t * f /\ r * f \in Nat /\ t * f \in Nat
      BY <1>3, <1>4, <2>1, Monotone
    <2>4. v = 1000 * a + r * f /\ w = 1000 * a + t * f
      BY <1>3, <1>4, <2>1, <2>2
    <2>5. 1000 * a \in Int
      BY <1>3
    <2> QED
      BY <2>3, <2>4, <2>5 DEF v, w
  <1>9. CASE i < j
    <2>1. i + 2 <= n /\ i + 2 <= j + 1 /\ i + 2 \in 1..n /\ j + 1 \in 1..n
      BY <1>3, <1>4, <1>9
    <2>2. b = s[i + 2] /\ c = s[j + 1]
      BY <1>3, <1>4, <2>1
    <2>3. b <= c
      BY <2>1, <2>2 DEF Rising
    <2> QED
      BY <1>3, <1>4, <2>3 DEF v, w
  <1> QED
    BY <1>3, <1>4, <1>7, <1>8, <1>9

(* The quantiles of integer latencies are in order.                        *)
LEMMA LatenciesInOrder ==
    ASSUME NEW x, x.latency_samples \in Seq(Int), NEW l, l = _latency_stats(x)
    PROVE  /\ l.p50 <= l.p95 /\ l.p95 <= l.p99 /\ l.p99 <= l.p999
           /\ l.p999 <= 1000 * l.max
  <1> DEFINE y == x.latency_samples
             n == Len(y)
             s == Sorted(y)
  <1>1. n \in Nat /\ DOMAIN y = 1..n /\ \A i \in 1..n : y[i] \in Int
    BY LenProperties
  <1>2. CASE n = 0
    <2>1. l.p50 = 0 /\ l.p95 = 0 /\ l.p99 = 0 /\ l.p999 = 0 /\ l.max = 0
      BY <1>2 DEF _latency_stats
    <2> QED
      BY <2>1
  <1>3. CASE n # 0
    <2>1. /\ DOMAIN s = 1..n
          /\ \A k \in 1..n : s[k] \in Int
          /\ \A k, m \in 1..n : k <= m => s[k] <= s[m]
      <3> HIDE DEF y, n
      <3> QED
        BY <1>1, SortedRises
    <2>2. s = [k \in 1..n |-> s[k]]
      <3>1. s = [k \in DOMAIN y |-> y[Place(DOMAIN y, y, k)]]
        BY DEF Sorted
      <3> HIDE DEF s, y, n
      <3> QED
        BY <1>1, <3>1
    <2>3. Rising(s, n)
      <3> HIDE DEF y, n, s
      <3>1. s \in [1..n -> Int]
        BY <2>1, <2>2
      <3>2. s \in Seq(Int)
        BY <1>1, <3>1
      <3>3. Len(s) \in Nat /\ 1..Len(s) = 1..n
        BY <2>1, <3>2, LenProperties
      <3>4. Len(s) = n
        BY <1>1, <3>3
      <3> QED
        BY <2>1, <3>4 DEF Rising
    <2>4. /\ l.p50 = Quantile(s, 500) /\ l.p95 = Quantile(s, 950)
          /\ l.p99 = Quantile(s, 990) /\ l.p999 = Quantile(s, 999) /\ l.max = s[n]
      BY <1>3 DEF _latency_stats
    <2> HIDE DEF s, n
    <2>5. n \in Nat \ {0}
      BY <1>1, <1>3
    <2>6. ASSUME NEW p, NEW o, p \in 0..1000, o \in 0..1000, p <= o
          PROVE  Quantile(s, p) <= Quantile(s, o)
      BY <2>3, <2>5, <2>6, QuantilesInOrder
    <2>7. /\ Quantile(s, 500) <= Quantile(s, 950) /\ Quantile(s, 950) <= Quantile(s, 990)
          /\ Quantile(s, 990) <= Quantile(s, 999)
      BY <2>6
    <2> DEFINE top == 999
               v == Quantile(s, top)
    <2>8. top \in 0..1000
      OBVIOUS
    <2>9. l.p999 = v
      BY <2>4
    <2> HIDE DEF top
    <2>10. PICK i, r, a, b : Interpolated(s, n, top, v, i, r, a, b)
      BY <2>3, <2>8, <2>5, QuantileBetween
    <2> HIDE DEF v
    <2>11. b \in Int /\ v \in Int /\ b <= s[n] /\ v <= 1000 * b
      BY <2>10 DEF Interpolated
    <2>12. s[n] \in Int
      BY <2>1, <2>5
    <2>13. v <= 1000 * s[n]
      BY <2>12, <2>11
    <2> QED
      BY <2>4, <2>7, <2>13, <2>9
  <1> QED
    BY <1>2, <1>3

(* A row that reports no more admitted and dropped than generated, and a   *)
(* log of such rows.                                                       *)
RowSound(r) ==
    /\ r.gen \in Amount /\ r.adm \in Amount /\ r.drop \in Amount
    /\ r.adm.bytes + r.drop.bytes <= r.gen.bytes

LogSound(rows) ==
    IsSequence(rows) /\ \A i \in 1..Len(rows) : RowSound(rows[i])

(* One more row.                                                           *)
LEMMA LogAppended ==
    ASSUME NEW rows, LogSound(rows), NEW r, RowSound(r)
    PROVE  LogSound(Append(rows, r)) /\ Len(Append(rows, r)) = Len(rows) + 1
  <1>1. PICK S : rows \in Seq(S)
    BY DEF LogSound, IsSequence
  <1> DEFINE T == S \cup {r}
  <1>2. rows \in Seq(T) /\ r \in T
    BY <1>1, SeqMonotonic
  <1> HIDE DEF T
  <1>3. /\ Append(rows, r) \in Seq(T) /\ Len(Append(rows, r)) = Len(rows) + 1
        /\ \A i \in 1..Len(rows) : Append(rows, r)[i] = rows[i]
        /\ Append(rows, r)[Len(rows) + 1] = r
    BY <1>2, AppendProperties
  <1>4. Len(rows) \in Nat
    BY <1>2, LenProperties
  <1>5. \A i \in 1..(Len(rows) + 1) : RowSound(Append(rows, r)[i])
    BY <1>3, <1>4 DEF LogSound
  <1> QED
    BY <1>3, <1>5 DEF LogSound, IsSequence

(* The summary of such a log.                                              *)
LEMMA SummarySound ==
    ASSUME NEW rows, LogSound(rows), NEW a, a = summary(rows)
    PROVE  a.adm + a.drop <= a.gen /\ a.epochs = Len(rows)
  <1> DEFINE n == Len(rows)
             K == 1..n
             gen == [i \in K |-> rows[i].gen.bytes]
             adm == [i \in K |-> rows[i].adm.bytes]
             drops == [i \in K |-> rows[i].drop.bytes]
             both == [i \in K |-> adm[i] + drops[i]]
  <1>1. DOMAIN rows = K /\ n \in Nat
    BY LenProperties DEF LogSound, IsSequence
  <1>2. IsFiniteSet(K)
    BY <1>1, FS_Interval, 1 \in Int, n \in Int
  <1>3. \A i \in K : /\ gen[i] \in Int /\ adm[i] \in Int /\ drops[i] \in Int
                     /\ both[i] = adm[i] + drops[i] /\ both[i] \in Int /\ both[i] <= gen[i]
    <2> SUFFICES ASSUME NEW i \in K
                 PROVE  /\ gen[i] \in Int /\ adm[i] \in Int /\ drops[i] \in Int
                        /\ both[i] = adm[i] + drops[i] /\ both[i] <= gen[i]
      OBVIOUS
    <2>1. RowSound(rows[i])
      BY DEF LogSound
    <2>2. /\ rows[i].gen.bytes \in Int /\ rows[i].adm.bytes \in Int /\ rows[i].drop.bytes \in Int
          /\ rows[i].adm.bytes + rows[i].drop.bytes <= rows[i].gen.bytes
      BY <2>1 DEF RowSound, Amount
    <2> QED
      BY <2>2
  <1>4. /\ a.gen = SumFunctionOnSet(gen, K) /\ a.adm = SumFunctionOnSet(adm, K)
        /\ a.drop = SumFunctionOnSet(drops, K) /\ a.epochs = n
    BY <1>1 DEF summary, Sum
  <1> HIDE DEF gen, adm, drops, both, K
  <1>5. SumFunctionOnSet(both, K) = SumFunctionOnSet(adm, K) + SumFunctionOnSet(drops, K)
    BY <1>2, <1>3, SumPlus
  <1>6. SumFunctionOnSet(both, K) <= SumFunctionOnSet(gen, K)
    BY <1>2, <1>3, SumMonotone
  <1> QED
    BY <1>4, <1>5, <1>6

-----------------------------------------------------------------------------
(* Every queue has integer times, so have its samples and those of the     *)
(* epoch; and every epoch closed so far has one row, a sound one.          *)
Clocked(x) == x.next_free \in Int /\ x.stats.latency \in Seq(Int)

Timed(d) ==
    /\ \A q \in Queues[d] : Clocked(pipeline[d][q])
    /\ telem[d].latency_samples \in Seq(Int)

Logged(d) == LogSound(log[d]) /\ Len(log[d]) = epoch[d]

Reported == DOMAIN log = Domains /\ \A d \in Domains : Timed(d) /\ Logged(d)

(* The calls of a queue keep its times.                                    *)
LEMMA AdvancedClocked ==
    ASSUME NEW d \in Domains, NEW x, QueueType(d, x), Clocked(x), NEW t,
           NEW a, a = advanced(d, x, t)
    PROVE  Clocked(a)
  <1>1. DOMAIN x = {"credits", "heap", "next_free", "now", "stats", "row", "admitted"}
    BY DEF QueueType
  <1>2. a.next_free = x.next_free
    BY <1>1 DEF advanced
  <1>3. a.stats.latency = x.stats.latency
    BY Advanced
  <1> QED
    BY <1>2, <1>3 DEF Clocked

(* A packet dropped at the FPGA.                                           *)
LEMMA DroppedClocked ==
    ASSUME NEW d \in Domains, NEW x, QueueType(d, x), Clocked(x), NEW size,
           NEW y, y = dropped_for_credit(x, size) \/ y = dropped_by_link(x, size)
    PROVE  Clocked(y)
  <1>1. DOMAIN x = {"credits", "heap", "next_free", "now", "stats", "row", "admitted"}
        /\ DOMAIN x.stats = {"adm", "drop", "credit_drop", "pcie_drop", "returned", "u_max",
                             "latency"}
    BY DEF QueueType, StatsType
  <1>2. y.next_free = x.next_free /\ y.stats.latency = x.stats.latency
    <2>1. CASE y = dropped_for_credit(x, size)
      <3>1. /\ y.next_free = x.next_free
            /\ y.stats = [x.stats EXCEPT !.drop = More(@, 1, size),
                                         !.credit_drop = More(@, 1, size)]
        BY <1>1, <2>1 DEF dropped_for_credit
      <3> QED
        BY <1>1, <3>1
    <2>2. CASE y = dropped_by_link(x, size)
      <3>1. /\ y.next_free = x.next_free
            /\ y.stats = [x.stats EXCEPT !.drop = More(@, 1, size),
                                         !.pcie_drop = More(@, 1, size)]
        BY <1>1, <2>2 DEF dropped_by_link
      <3> QED
        BY <1>1, <3>1
    <2> QED
      BY <2>1, <2>2
  <1> QED
    BY <1>2 DEF Clocked

(* A packet taken into the ring.                                           *)
LEMMA TakenClocked ==
    ASSUME NEW d \in Domains, NEW x, QueueType(d, x), Clocked(x), NEW size,
           NEW t \in Int, NEW arrive \in Int, NEW service \in Int,
           NEW y, y = taken(d, x, t, size, arrive, service)
    PROVE  Clocked(y)
  <1>1. DOMAIN x = {"credits", "heap", "next_free", "now", "stats", "row", "admitted"}
        /\ DOMAIN x.stats = {"adm", "drop", "credit_drop", "pcie_drop", "returned", "u_max",
                             "latency"}
    BY DEF QueueType, StatsType
  <1> DEFINE end == Later(arrive, x.next_free) + service
  <1>2. end \in Int /\ end - t \in Int
    BY DEF Later, Clocked
  <1>3. y.next_free = end
    BY <1>1 DEF taken
  <1>4. y.stats.latency = Append(x.stats.latency, end - t)
    <2>1. PICK u, c : y.stats = [x.stats EXCEPT !.adm = c, !.u_max = u,
                                                !.latency = Append(@, end - t)]
      BY <1>1 DEF taken
    <2> HIDE DEF end
    <2> QED
      BY <1>1, <2>1
  <1> DEFINE l == end - t
  <1>5. l \in Int /\ x.stats.latency \in Seq(Int)
    BY <1>2 DEF Clocked
  <1> HIDE DEF l
  <1>6. Append(x.stats.latency, l) \in Seq(Int)
    BY <1>5, AppendProperties
  <1> QED
    BY <1>2, <1>3, <1>4, <1>6 DEF Clocked, l

(* A packet offered to the ring.                                           *)
LEMMA TryAdmitClocked ==
    ASSUME NEW d \in Domains, NEW x, QueueType(d, x), Clocked(x), NEW size,
           NEW t \in Int, NEW arrive \in Int, NEW service \in Int,
           NEW y, y = try_admit(d, x, t, size, arrive, service)
    PROVE  Clocked(y)
  <1> DEFINE a == advanced(d, x, t)
  <1>1. QueueType(d, a) /\ Clocked(a)
    BY Advanced, AdvancedClocked
  <1>2. y = IF a.credits <= 0 THEN dropped_for_credit(a, size)
                              ELSE taken(d, a, t, size, arrive, service)
    BY DEF try_admit
  <1> HIDE DEF a
  <1>3. CASE a.credits <= 0
    BY <1>1, <1>2, <1>3, DroppedClocked
  <1>4. CASE ~(a.credits <= 0)
    BY <1>1, <1>2, <1>4, TakenClocked
  <1> QED
    BY <1>3, <1>4

(* The samples of a bin are numbers if those of the queues are.            *)
LEMMA SamplesTyped ==
    ASSUME NEW S, IsFiniteSet(S), NEW row, \A q \in S : row[q].latency \in Seq(Int)
    PROVE  Samples(row, S) \in Seq(Int)
  <1>1. PICK g : /\ \A s \in SUBSET S : g[s] = Gathered(row, g, s)
                 /\ Samples(row, S) = g[S]
    BY SamplesUnfold
  <1> DEFINE N == {n \in Nat : \A s \in SUBSET S : Cardinality(s) = n => g[s] \in Seq(Int)}
  <1>2. \A s \in SUBSET S : IsFiniteSet(s) /\ Cardinality(s) \in Nat
    BY FS_Subset, FS_CardinalityType
  <1>3. 0 \in N
    <2>1. \A s \in SUBSET S : Cardinality(s) = 0 => s = {}
      BY <1>2, FS_EmptySet
    <2>2. g[{}] = << >>
      BY <1>1 DEF Gathered
    <2>3. << >> \in Seq(Int)
      BY EmptySeq
    <2> QED
      BY <2>1, <2>2, <2>3
  <1>4. ASSUME NEW n \in Nat, n \in N PROVE n + 1 \in N
    <2> SUFFICES ASSUME NEW s \in SUBSET S, Cardinality(s) = n + 1 PROVE g[s] \in Seq(Int)
      BY DEF N
    <2>1. s # {}
      <3>1. Cardinality({}) = 0 /\ n + 1 # 0
        BY FS_EmptySet
      <3> QED
        BY <3>1, Zenon
    <2> DEFINE c == Chosen(s)
               r == s \ {c}
    <2>2. c \in s /\ c \in S /\ r \in SUBSET S /\ Cardinality(r) = n
      <3>1. IsFiniteSet(s)
        BY <1>2
      <3>2. c \in s /\ Cardinality(r) = Cardinality(s) - 1
        BY <2>1, <3>1, ChosenRemoved
      <3> QED
        BY <3>2
    <2>3. g[s] = g[r] \o row[c].latency
      BY <1>1, <2>1 DEF Gathered
    <2>4. g[r] \in Seq(Int)
      <3> HIDE DEF r
      <3> QED
        BY <1>4, <2>2
    <2>5. row[c].latency \in Seq(Int)
      BY <2>2
    <2> HIDE DEF c, r
    <2> QED
      BY <2>3, <2>4, <2>5, ConcatProperties
  <1> HIDE DEF N
  <1>5. Cardinality(S) \in N
    BY <1>2, <1>3, <1>4, Induction
  <1> QED
    BY <1>1, <1>5 DEF N

-----------------------------------------------------------------------------
(* At a boundary, the row of the epoch is sound.                           *)
LEMMA RowClosed ==
    ASSUME PathInductive, NEW d \in Domains, phase # "packets", AtBoundary(d),
           NEW e, e = finalize_epoch(Shape(d), telem[d]), NEW n,
           NEW r, r = log_epoch(Shape(d), epoch[d], e, n)
    PROVE  RowSound(r)
  <1> DEFINE x == telem[d]
             Q == Queues[d]
             Bytes(f) == [q \in Q |-> f[q]["bytes"]]
             both == [q \in Q |-> Bytes(e.adm)[q] + Bytes(e.drop)[q]]
  <1>1. Open(d) /\ Ledger(d) /\ TelemetryType(d, x) /\ lost[d] \in [Q -> Amount]
    BY DEF AtBoundary, Open, PathInductive, PathType, DomainType
  <1>2. Balanced(d)
    BY <1>1 DEF Ledger
  <1>3. IsFiniteSet(Q) /\ Shape(d).queues = Q
    BY ShapeFields
  <1>4. \A q \in Q : /\ e.adm[q] = EpochTotal(Shape(d), x.adm, q)
                     /\ e.gen[q] = EpochTotal(Shape(d), x.gen, q)
                     /\ e.drop[q] = EpochTotal(Shape(d), x.drop, q)
    BY EpochFinalized
  <1>5. \A q \in Q : /\ e.gen[q] \in Amount /\ e.adm[q] \in Amount /\ e.drop[q] \in Amount
    <2>1. x.gen \in Cells(d) /\ x.adm \in Cells(d) /\ x.drop \in Cells(d)
      BY <1>1 DEF TelemetryType
    <2> HIDE DEF x
    <2> QED
      BY <1>4, <2>1, EpochTotalType
  <1>6. \A q \in Q : /\ e.gen[q]["bytes"] = e.adm[q]["bytes"] + e.drop[q]["bytes"]
                                              + lost[d][q]["bytes"]
                     /\ e.gen[q]["bytes"] \in Int /\ e.adm[q]["bytes"] \in Int
                     /\ e.drop[q]["bytes"] \in Int /\ lost[d][q]["bytes"] \in Nat
    <2> SUFFICES ASSUME NEW q \in Q
                 PROVE  /\ e.gen[q]["bytes"] = e.adm[q]["bytes"] + e.drop[q]["bytes"]
                                              + lost[d][q]["bytes"]
                        /\ e.gen[q]["bytes"] \in Int /\ e.adm[q]["bytes"] \in Int
                        /\ e.drop[q]["bytes"] \in Int /\ lost[d][q]["bytes"] \in Nat
      OBVIOUS
    <2>1. "bytes" \in Fields
      BY DEF Fields
    <2>2. Recorded(d, x, "gen", q, "bytes")
                = Recorded(d, x, "adm", q, "bytes") + Recorded(d, x, "drop", q, "bytes")
                  + lost[d][q]["bytes"]
      BY <1>2, <2>1 DEF Balanced
    <2>3. /\ Recorded(d, x, "gen", q, "bytes") = e.gen[q]["bytes"]
          /\ Recorded(d, x, "adm", q, "bytes") = e.adm[q]["bytes"]
          /\ Recorded(d, x, "drop", q, "bytes") = e.drop[q]["bytes"]
      BY <1>4 DEF Recorded
    <2>4. /\ e.gen[q]["bytes"] \in Nat /\ e.adm[q]["bytes"] \in Nat
          /\ e.drop[q]["bytes"] \in Nat /\ lost[d][q]["bytes"] \in Nat
      BY <1>1, <1>5, <2>1, AmountFields
    <2> QED
      BY <2>2, <2>3, <2>4
  <1>7. /\ r.gen = Total(e.gen, Q) /\ r.adm = Total(e.adm, Q) /\ r.drop = Total(e.drop, Q)
    BY <1>3 DEF log_epoch
  <1>8. r.gen \in Amount /\ r.adm \in Amount /\ r.drop \in Amount
    BY <1>3, <1>5, <1>7, TotalType
  <1>9. /\ r.gen["bytes"] = SumFunctionOnSet(Bytes(e.gen), Q)
        /\ r.adm["bytes"] = SumFunctionOnSet(Bytes(e.adm), Q)
        /\ r.drop["bytes"] = SumFunctionOnSet(Bytes(e.drop), Q)
    <2>1. "bytes" \in Fields
      BY DEF Fields
    <2> QED
      BY <1>7, <2>1, TotalField
  <1> DEFINE G == Bytes(e.gen)
             A == Bytes(e.adm)
             D == Bytes(e.drop)
  <1>10. \A q \in Q : /\ A[q] \in Int /\ D[q] \in Int /\ both[q] = A[q] + D[q]
                      /\ both[q] \in Int /\ G[q] \in Int /\ both[q] <= G[q]
    BY <1>6
  <1> HIDE DEF G, A, D, both, Q
  <1>11. SumFunctionOnSet(both, Q) = SumFunctionOnSet(A, Q) + SumFunctionOnSet(D, Q)
    BY <1>3, <1>10, SumPlus
  <1>12. SumFunctionOnSet(both, Q) <= SumFunctionOnSet(G, Q)
    BY <1>3, <1>10, SumMonotone
  <1> QED
    BY <1>8, <1>9, <1>11, <1>12 DEF RowSound, G, A, D, Q

-----------------------------------------------------------------------------
(* A domain whose queues, samples and log are left alone.                  *)
LEMMA ReportedKept ==
    ASSUME Reported, pipeline' = pipeline, telem' = telem, log' = log, epoch' = epoch
    PROVE  Reported'
  BY DEF Reported, Timed, Logged

(* Only the queues change.                                                 *)
LEMMA ReportedQueues ==
    ASSUME Reported, telem' = telem, log' = log, epoch' = epoch,
           \A d \in Domains : \A q \in Queues[d] : Clocked(pipeline'[d][q])
    PROVE  Reported'
  BY DEF Reported, Timed, Logged

(* Nothing is logged at the start.                                         *)
LEMMA InitReported == ASSUME InitPath PROVE Reported
  <1>1. /\ pipeline = [d \in Domains |-> [q \in Queues[d] |-> NewQueue(d)]]
        /\ log = [d \in Domains |-> << >>] /\ epoch = [d \in Domains |-> 0]
        /\ telem = [d \in Domains |->
                     set_V_start(reset_epoch(Shape(d)), [q \in Queues[d] |-> D_q[d]])]
    BY DEF InitPath
  <1>2. << >> \in Seq(Int)
    BY EmptySeq
  <1>3. ASSUME NEW d \in Domains PROVE Timed(d)
    <2>1. \A q \in Queues[d] : Clocked(pipeline[d][q])
      <3>1. NewQueue(d).next_free = 0 /\ NewQueue(d).stats.latency = << >>
        BY DEF NewQueue, NoCounts
      <3> DEFINE fresh == NewQueue(d)
      <3>2. \A q \in Queues[d] : pipeline[d][q] = fresh
        BY <1>1
      <3> HIDE DEF fresh
      <3>3. 0 \in Int
        OBVIOUS
      <3>4. fresh.next_free \in Int /\ fresh.stats.latency \in Seq(Int)
        BY <1>2, <3>1, <3>3, Zenon DEF fresh
      <3>5. Clocked(fresh)
        BY <3>4, Zenon DEF Clocked
      <3> QED
        BY <3>2, <3>5, Zenon
    <2> DEFINE V == [q \in Queues[d] |-> D_q[d]]
    <2>2. telem[d] = set_V_start(reset_epoch(Shape(d)), V)
      BY <1>1
    <2>3. V \in [Queues[d] -> 0..D_q[d]]
      BY RingDepth
    <2> HIDE DEF V
    <2>4. telem[d].latency_samples = << >>
      BY <2>2, <2>3, EpochReset
    <2> QED
      BY <1>2, <2>1, <2>4 DEF Timed
  <1>4. ASSUME NEW d \in Domains PROVE Logged(d)
    <2>1. log[d] = << >> /\ epoch[d] = 0
      BY <1>1
    <2>2. IsSequence(<< >>) /\ Len(<< >>) = 0
      BY EmptySequence
    <2>3. LogSound(<< >>)
      BY <2>2 DEF LogSound
    <2> QED
      BY <2>1, <2>2, <2>3 DEF Logged
  <1> QED
    BY <1>1, <1>3, <1>4 DEF Reported

(* A new bin.                                                              *)
LEMMA PullReported ==
    ASSUME PathType, Reported, Pull
    PROVE  Reported'
  <1>1. /\ pipeline' = reset_bin_queues
        /\ telem' = telem /\ log' = log /\ epoch' = epoch
    BY DEF Pull
  <1>2. ASSUME NEW d \in Domains, NEW q \in Queues[d] PROVE Clocked(pipeline'[d][q])
    <2> DEFINE x == pipeline[d][q]
               y == pipeline'[d][q]
    <2>1. y = [x EXCEPT !.stats = NoCounts]
      BY <1>1 DEF reset_bin_queues
    <2>2. QueueType(d, x) /\ Clocked(x)
      BY DEF PathType, DomainType, Reported, Timed
    <2> HIDE DEF x, y
    <2>3. y.next_free = x.next_free /\ y.stats = NoCounts
      BY <2>1, <2>2 DEF QueueType
    <2>4. NoCounts.latency = << >> /\ << >> \in Seq(Int)
      BY EmptySeq DEF NoCounts
    <2>5. Clocked(y)
      BY <2>2, <2>3, <2>4 DEF Clocked
    <2> QED
      BY <2>5 DEF y
  <1> QED
    BY <1>1, <1>2, ReportedQueues

(* A packet changes one queue, and its time stays a number.                *)
LEMMA PacketReported ==
    ASSUME Calls, PathType, TypeOK, Reported, Packet
    PROVE  Reported'
  <1>1. telem' = telem /\ log' = log /\ epoch' = epoch
    BY DEF Packet
  <1>2. PICK p \in todo :
          /\ CreditDrop(p) \/ LinkDrop(p) \/ AdmitOverLink(p) \/ AdmitWithoutLink(p)
          /\ todo' = todo \ {p}
    BY DEF Packet
  <1>3. p.size \in Sizes /\ p.t \in Nat
    BY DEF Calls
  <1>4. PacketStep(p)
    BY <1>2, <1>3, PacketGoes
  <1> DEFINE d == p.domain
             q == QueueOf(p)
             x == pipeline[d][q]
             m == AtFpga(p)
             y == pipeline'[d][q]
             t == p.t
             size == p.size
  <1>5. /\ d \in Domains /\ q \in Queues[d] /\ DOMAIN pipeline = Domains
        /\ DOMAIN pipeline[d] = Queues[d]
    BY <1>4 DEF PacketStep, PathType, DomainType
  <1>6. QueueType(d, x) /\ Clocked(x) /\ m = advanced(d, x, t)
    BY <1>5 DEF PathType, DomainType, Reported, Timed, AtFpga
  <1>7. ASSUME NEW new, PutQueue(p.domain, QueueOf(p), new) PROVE y = new
    BY <1>5, <1>7 DEF PutQueue
  <1> HIDE DEF x, d, q
  <1>8. QueueType(d, m) /\ Clocked(m)
    BY <1>5, <1>6, Advanced, AdvancedClocked
  <1> HIDE DEF m
  <1>9. ASSUME NEW arrive \in Int, NEW service \in ServiceTimes[d],
               y = try_admit(d, m, t, size, arrive, service)
        PROVE  Clocked(y)
    <2>1. service \in Int /\ t \in Int
      BY <1>3, <1>5, DataPathQueuesAssumption
    <2> HIDE DEF y, t, size
    <2> QED
      BY <1>5, <1>8, <1>9, <2>1, TryAdmitClocked
  <1>10. Clocked(y)
    <2>1. CASE CreditDrop(p)
      <3>1. y = dropped_for_credit(m, size)
        BY <1>7, <2>1 DEF CreditDrop, m, d, q
      <3> HIDE DEF y, size
      <3> QED
        BY <1>5, <1>8, <3>1, DroppedClocked
    <2>2. CASE LinkDrop(p)
      <3>1. y = dropped_by_link(m, size)
        BY <1>7, <2>2 DEF LinkDrop, m, d, q
      <3> HIDE DEF y, size
      <3> QED
        BY <1>5, <1>8, <3>1, DroppedClocked
    <2>3. CASE AdmitOverLink(p)
      <3>1. /\ try_transmit(p.t, p.size, p.domain) /\ busy_until' > busy_until
            /\ \E service \in ServiceTimes[d] : y = try_admit(d, m, t, size, busy_until', service)
        BY <1>7, <2>3 DEF AdmitOverLink, m, d, q
      <3>2. busy_until' - p.t \in Transits /\ busy_until' = p.t + (busy_until' - p.t)
        BY <1>3, <3>1, LinkTransit
      <3>3. busy_until' \in Int
        <4>1. \A i \in Transits : p.t + i \in Int
          BY <1>3 DEF Transits
        <4> QED
          BY <3>2, <4>1, Zenon
      <3> HIDE DEF y
      <3> QED
        BY <1>9, <3>1, <3>3
    <2>4. CASE AdmitWithoutLink(p)
      <3>1. \E service \in ServiceTimes[d] :
               y = try_admit(d, m, t, size, t + T_dma[size], service)
        BY <1>7, <2>4 DEF AdmitWithoutLink, m, d, q
      <3>2. T_dma[size] \in Transits
        <4>1. size \in 1..LargestEntry
          BY <1>3, SizesBounded
        <4> QED
          BY <4>1, DataPathQueuesAssumption
      <3>3. t + T_dma[size] \in Int
        BY <1>3, <3>2 DEF Transits
      <3> HIDE DEF y
      <3> QED
        BY <1>9, <3>1, <3>3
    <2> QED
      BY <1>2, <2>1, <2>2, <2>3, <2>4
  <1>11. ASSUME NEW e \in Domains, NEW r \in Queues[e] PROVE Clocked(pipeline'[e][r])
    <2>1. CASE e = d /\ r = q
      BY <1>10, <2>1
    <2>2. CASE ~(e = d /\ r = q)
      <3>1. pipeline'[e][r] = pipeline[e][r]
        BY <1>4, <2>2 DEF PacketStep, d, q
      <3> QED
        BY <3>1 DEF Reported, Timed
    <2> QED
      BY <2>1, <2>2
  <1> QED
    BY <1>1, <1>11, ReportedQueues

(* A bin adds what its queues delivered to the samples of the epoch.       *)
LEMMA EndBinReported ==
    ASSUME PathType, Reported, EndBin
    PROVE  Reported'
  <1>1. /\ pipeline' = [d \in Domains |-> [q \in Queues[d] |->
              LET a == advanced(d, pipeline[d][q], t_end)
              IN  [a EXCEPT !.row = a.stats]]]
        /\ telem' = [d \in Domains |->
              record_bin(Shape(d), telem[d], in_epoch[d], generated[d], rss[d],
                         [q \in Queues[d] |-> pipeline'[d][q].stats],
                         [q \in Queues[d] |-> pipeline'[d][q].credits])]
        /\ log' = log /\ epoch' = epoch
    BY DEF EndBin
  <1>2. ASSUME NEW d \in Domains, NEW q \in Queues[d] PROVE Clocked(pipeline'[d][q])
    <2> DEFINE x == pipeline[d][q]
               a == advanced(d, x, t_end)
               y == pipeline'[d][q]
    <2>1. y = [a EXCEPT !.row = a.stats]
      BY <1>1
    <2>2. QueueType(d, x) /\ Clocked(x)
      BY DEF PathType, DomainType, Reported, Timed
    <2> HIDE DEF x
    <2>3. QueueType(d, a) /\ Clocked(a)
      BY <2>2, Advanced, AdvancedClocked
    <2> HIDE DEF a, y
    <2>4. y.next_free = a.next_free /\ y.stats = a.stats
      BY <2>1, <2>3 DEF QueueType
    <2>5. Clocked(y)
      BY <2>3, <2>4 DEF Clocked
    <2> QED
      BY <2>5 DEF y
  <1>3. ASSUME NEW d \in Domains PROVE telem'[d].latency_samples \in Seq(Int)
    <2> DEFINE row == [q \in Queues[d] |-> pipeline'[d][q].stats]
               V == [q \in Queues[d] |-> pipeline'[d][q].credits]
               old == telem[d].latency_samples
               more == Samples(row, Queues[d])
    <2>1. /\ TelemetryType(d, telem[d])
          /\ telem'[d] = record_bin(Shape(d), telem[d], in_epoch[d], generated[d], rss[d], row, V)
      BY <1>1 DEF PathType, DomainType
    <2>2. \A q \in Queues[d] : row[q].latency \in Seq(Int)
      BY <1>2 DEF Clocked
    <2>3. IsFiniteSet(Queues[d])
      BY ShapeFields
    <2> HIDE DEF row, V
    <2>4. more \in Seq(Int)
      BY <2>2, <2>3, SamplesTyped
    <2>5. telem'[d].latency_samples = old \o more
      <3> DEFINE x == telem[d]
                 a == telem'[d]
                 k == in_epoch[d]
                 bucket == generated[d]
                 table == rss[d]
      <3>1. TelemetryType(d, x) /\ a = record_bin(Shape(d), x, k, bucket, table, row, V)
        BY <2>1
      <3> HIDE DEF x, a, k, bucket, table
      <3>2. /\ DOMAIN x = {"b", "gen", "adm", "drop", "K", "V", "latency_samples"}
            /\ Shape(d).queues = Queues[d]
        BY <3>1, ShapeFields DEF TelemetryType
      <3>3. PICK b, gen, adm, drops, K, free :
               a = [x EXCEPT !.b = b, !.gen = gen, !.adm = adm, !.drop = drops, !.K = K,
                             !.V = free, !.latency_samples = @ \o Samples(row, Queues[d])]
        BY <3>1, <3>2 DEF record_bin
      <3> QED
        BY <3>2, <3>3 DEF x, a
    <2>6. old \in Seq(Int)
      BY DEF Reported, Timed
    <2> HIDE DEF old, more
    <2> QED
      BY <2>4, <2>5, <2>6, ConcatProperties
  <1>4. \A d \in Domains : Timed(d)'
    BY <1>2, <1>3 DEF Timed
  <1>5. \A d \in Domains : Logged(d)'
    BY <1>1 DEF Reported, Logged
  <1> QED
    BY <1>1, <1>4, <1>5 DEF Reported

(* A boundary adds a sound row and starts without samples.                 *)
LEMMA CloseReported ==
    ASSUME PathInductive, Reported, NEW d \in Domains, phase # "packets", AtBoundary(d),
           NEW n, Close(d, n), pipeline' = pipeline
    PROVE  Reported'
  <1> DEFINE e == finalize_epoch(Shape(d), telem[d])
             r == log_epoch(Shape(d), epoch[d], e, n)
             V == V_start(d)
  <1>1. /\ DOMAIN log = Domains /\ DOMAIN telem = Domains /\ DOMAIN epoch = Domains
        /\ DOMAIN pipeline[d] = Queues[d]
        /\ \A q \in Queues[d] : QueueType(d, pipeline[d][q])
    BY DEF Reported, PathInductive, PathType, DomainType
  <1>2. /\ log' = [log EXCEPT ![d] = Append(@, r)]
        /\ telem' = [telem EXCEPT ![d] = set_V_start(reset_epoch(Shape(d)), V)]
        /\ epoch' = [epoch EXCEPT ![d] = @ + 1]
    BY DEF Close
  <1>3. RowSound(r)
    <2> HIDE DEF e, r
    <2> QED
      BY RowClosed DEF e, r
  <1>4. V \in [Queues[d] -> 0..D_q[d]]
    BY <1>1 DEF V_start, snapshot_V, QueueType
  <1> HIDE DEF r, V
  <1>5. telem'[d].latency_samples = << >> /\ << >> \in Seq(Int)
    <2>1. telem'[d] = set_V_start(reset_epoch(Shape(d)), V)
      BY <1>1, <1>2
    <2>2. telem'[d].latency_samples = << >>
      BY <1>4, <2>1, EpochReset
    <2> QED
      BY <2>2, EmptySeq
  <1>6. Logged(d)'
    <2>1. LogSound(log[d]) /\ Len(log[d]) = epoch[d]
      BY DEF Reported, Logged
    <2>2. LogSound(Append(log[d], r)) /\ Len(Append(log[d], r)) = Len(log[d]) + 1
      BY <1>3, <2>1, LogAppended
    <2>3. log'[d] = Append(log[d], r) /\ epoch'[d] = epoch[d] + 1
      BY <1>1, <1>2
    <2> QED
      BY <2>1, <2>2, <2>3 DEF Logged
  <1>7. ASSUME NEW f \in Domains PROVE Timed(f)' /\ Logged(f)'
    <2>1. \A q \in Queues[f] : Clocked(pipeline'[f][q])
      BY DEF Reported, Timed
    <2>2. CASE f = d
      BY <1>5, <1>6, <2>1, <2>2 DEF Timed
    <2>3. CASE f # d
      <3>1. telem'[f] = telem[f] /\ log'[f] = log[f] /\ epoch'[f] = epoch[f]
        BY <1>1, <1>2, <2>3
      <3> QED
        BY <2>1, <3>1 DEF Reported, Timed, Logged
    <2> QED
      BY <2>2, <2>3
  <1>8. DOMAIN log' = Domains
    BY <1>1, <1>2
  <1> QED
    BY <1>7, <1>8 DEF Reported

(* A finished handoff changes its destination queue alone.                 *)
LEMMA ReleaseReported ==
    ASSUME Calls, PathType, Driven, Reported, Release
    PROVE  Reported'
  <1>1. telem' = telem /\ log' = log /\ epoch' = epoch
    BY DEF Release
  <1>2. PICK h \in finished, service \in ServiceTimes["stateful"] :
           /\ h.left > 0
           /\ PutQueue("stateful", h.q_dst,
                    try_admit("stateful", pipeline["stateful"][h.q_dst],
                              t_start - 1, h.avg_size,
                              t_start - 1 + T_dma[h.avg_size], service))
    BY DEF Release
  <1> DEFINE d == "stateful"
             q == h.q_dst
             x == pipeline[d][q]
             t == t_start - 1
             size == h.avg_size
             arrive == t_start - 1 + T_dma[size]
             y == try_admit(d, x, t, size, arrive, service)
  <1>3. /\ d \in Domains /\ q \in Queues[d] /\ DOMAIN pipeline = Domains
        /\ DOMAIN pipeline[d] = Queues[d]
    BY TwoDomains DEF PathType, DomainType, FinishedHandoff
  <1>4. QueueType(d, x) /\ Clocked(x)
    BY <1>3 DEF PathType, DomainType, Reported, Timed
  <1>5. t \in Int /\ arrive \in Int /\ service \in Int
    <2>1. t_start \in Nat
      BY BinOfQueue DEF Driven
    <2>2. size \in 1..LargestEntry
      BY <1>2 DEF Driven, Buffers
    <2>3. T_dma[size] \in Transits
      BY <2>2, DataPathQueuesAssumption
    <2>4. service \in Int
      BY <1>3, DataPathQueuesAssumption
    <2> QED
      BY <2>1, <2>3, <2>4 DEF Transits
  <1>6. pipeline' = [pipeline EXCEPT ![d][q] = y]
    BY <1>2 DEF PutQueue
  <1> HIDE DEF d, q, x, t, size, arrive
  <1>7. Clocked(y)
    <2> HIDE DEF y
    <2>1. y = try_admit(d, x, t, size, arrive, service)
      BY DEF y
    <2> QED
      BY <1>3, <1>4, <1>5, <2>1, TryAdmitClocked
  <1> HIDE DEF y
  <1>8. ASSUME NEW e \in Domains, NEW r \in Queues[e] PROVE Clocked(pipeline'[e][r])
    <2>1. CASE e = d /\ r = q
      BY <1>3, <1>6, <1>7, <2>1
    <2>2. CASE ~(e = d /\ r = q)
      <3>1. pipeline'[e][r] = pipeline[e][r]
        BY <1>3, <1>6, <2>2
      <3> QED
        BY <3>1 DEF Reported, Timed
    <2> QED
      BY <2>1, <2>2
  <1> QED
    BY <1>1, <1>8, ReportedQueues

(* Every step.                                                             *)
LEMMA StepReported ==
    ASSUME PathInductive, TypeOK, Calls, Driven, Reported, [NextPath]_allVars
    PROVE  Reported'
  <1>1. PathType /\ Progress
    BY DEF PathInductive
  <1>2. CASE Pull
    BY <1>1, <1>2, PullReported
  <1>3. CASE Packet
    BY <1>1, <1>3, PacketReported
  <1>4. CASE EndBin
    BY <1>1, <1>4, EndBinReported
  <1>5. CASE _on_stateless_epoch_boundary
    <2>1. /\ phase # "packets" /\ AtBoundary("stateless") /\ pipeline' = pipeline
          /\ \E n : Close("stateless", n)
      BY <1>5 DEF _on_stateless_epoch_boundary
    <2>2. "stateless" \in Domains
      BY TwoDomains
    <2> QED
      BY <2>1, <2>2, CloseReported
  <1>6. CASE Release
    BY <1>1, <1>6, ReleaseReported
  <1>7. CASE CloseStateful
    <2>1. /\ phase = "release" /\ pipeline' = pipeline
          /\ \E n : Close("stateful", n)
      BY <1>7 DEF CloseStateful
    <2>2. AtBoundary("stateful") /\ "stateful" \in Domains /\ phase # "packets"
      BY <1>1, <2>1, TwoDomains DEF Progress
    <2> QED
      BY <2>1, <2>2, CloseReported
  <1>8. CASE NoStatelessBoundary \/ _on_stateful_epoch_boundary \/ NoStatefulBoundary
    <2>1. pipeline' = pipeline /\ telem' = telem /\ log' = log /\ epoch' = epoch
      BY <1>8 DEF NoStatelessBoundary, _on_stateful_epoch_boundary, NoStatefulBoundary
    <2> QED
      BY <2>1, ReportedKept
  <1>9. CASE Done \/ UNCHANGED allVars
    <2>1. pipeline' = pipeline /\ telem' = telem /\ log' = log /\ epoch' = epoch
      BY <1>9 DEF Done, allVars, pathVars
    <2> QED
      BY <2>1, ReportedKept
  <1> QED
    BY <1>2, <1>3, <1>4, <1>5, <1>6, <1>7, <1>8, <1>9 DEF NextPath

(* What the ledger and the log say of a closing epoch.                     *)
LEMMA RowsInductive ==
    ASSUME PathInductive, Reported
    PROVE  RowsMeaningful
  <1> SUFFICES ASSUME NEW d \in Domains, Closing(d)
               PROVE  LET e    == finalize_epoch(Shape(d), telem[d])
                          row  == log_epoch(Shape(d), epoch[d], e, 0)
                          all  == summary(Append(log[d], row))
                          n    == Cardinality(Queues[d])
                          x    == [q \in Queues[d] |-> e.gen[q].bytes]
                          l    == row.latency
                      IN  /\ row.imbalance_B.num * (2 * n * Sum(x, Queues[d]))
                                = row.imbalance_B.den * MeanDifference(x, Queues[d])
                          /\ row.imbalance_B.num = 0
                                <=> \A q, r \in Queues[d] : x[q] = x[r]
                          /\ row.imbalance_B.num * n <= row.imbalance_B.den * (n - 1)
                          /\ Sum(x, Queues[d]) > 0 =>
                                (row.imbalance_B.num * n = row.imbalance_B.den * (n - 1)
                                   <=> \E q \in Queues[d] :
                                          \A r \in Queues[d] \ {q} : x[r] = 0)
                          /\ row.fairness_B.num <= row.fairness_B.den
                          /\ row.fairness_B.den <= n * row.fairness_B.num
                          /\ row.fairness_B.num = row.fairness_B.den
                                <=> \A q, r \in Queues[d] : x[q] = x[r]
                          /\ l.p50 <= l.p95 /\ l.p95 <= l.p99 /\ l.p99 <= l.p999
                          /\ l.p999 <= 1000 * l.max
                          /\ all.adm + all.drop <= all.gen /\ all.epochs = epoch[d] + 1
    BY DEF RowsMeaningful
  <1> DEFINE Q == Queues[d]
             e == finalize_epoch(Shape(d), telem[d])
             row == log_epoch(Shape(d), epoch[d], e, 0)
             all == summary(Append(log[d], row))
             n == Cardinality(Q)
             x == [q \in Q |-> e.gen[q].bytes]
             l == row.latency
  <1>1. /\ phase # "packets" /\ TelemetryType(d, telem[d]) /\ AtBoundary(d)
    BY ClosingLedger DEF Closing
  <1>2. IsFiniteSet(Q) /\ Q # {} /\ Shape(d).queues = Q
    BY ShapeFields, DataPathAssumption
  <1>3. \A q \in Q : x[q] \in Nat
    <2> SUFFICES ASSUME NEW q \in Q PROVE x[q] \in Nat
      OBVIOUS
    <2>1. e.gen[q] = EpochTotal(Shape(d), telem[d].gen, q)
      BY EpochFinalized
    <2>2. e.gen[q] \in Amount
      BY <1>1, <2>1, EpochTotalType DEF TelemetryType
    <2> HIDE DEF e
    <2> QED
      BY <2>2 DEF Amount
  <1>4. /\ row.imbalance_B = imbalance(x, Q) /\ row.fairness_B = fairness(x, Q)
        /\ row.latency = e.latency
    BY <1>2 DEF log_epoch
  <1>5. e.latency = _latency_stats(telem[d])
    BY <1>2, EpochFinalized
  <1>6. RowSound(row)
    BY <1>1, RowClosed
  <1>7. telem[d].latency_samples \in Seq(Int) /\ LogSound(log[d]) /\ Len(log[d]) = epoch[d]
    BY DEF Reported, Timed, Logged
  <1> HIDE DEF e, row, x, Q
  <1>8. row.imbalance_B.num * (2 * n * Sum(x, Q)) = row.imbalance_B.den * MeanDifference(x, Q)
    BY <1>2, <1>3, <1>4, ImbalanceIsGini
  <1>12. /\ row.imbalance_B.num = 0 <=> \A q, r \in Q : x[q] = x[r]
         /\ row.imbalance_B.num * n <= row.imbalance_B.den * (n - 1)
         /\ Sum(x, Q) > 0 =>
               (row.imbalance_B.num * n = row.imbalance_B.den * (n - 1)
                  <=> \E q \in Q : \A r \in Q \ {q} : x[r] = 0)
    BY <1>2, <1>3, <1>4, ImbalanceInBounds
  <1>9. /\ row.fairness_B.num <= row.fairness_B.den
        /\ row.fairness_B.den <= n * row.fairness_B.num
        /\ row.fairness_B.num = row.fairness_B.den <=> \A q, r \in Q : x[q] = x[r]
    BY <1>2, <1>3, <1>4, FairnessInBounds
  <1>10. /\ l.p50 <= l.p95 /\ l.p95 <= l.p99 /\ l.p99 <= l.p999
         /\ l.p999 <= 1000 * l.max
    BY <1>4, <1>5, <1>7, LatenciesInOrder
  <1>11. all.adm + all.drop <= all.gen /\ all.epochs = epoch[d] + 1
    <2>1. LogSound(Append(log[d], row)) /\ Len(Append(log[d], row)) = Len(log[d]) + 1
      BY <1>6, <1>7, LogAppended
    <2>2. all.adm + all.drop <= all.gen /\ all.epochs = Len(Append(log[d], row))
      BY <2>1, SummarySound
    <2> QED
      BY <1>7, <2>1, <2>2
  <1> HIDE DEF n, l, all
  <1> QED
    BY <1>8, <1>9, <1>10, <1>11, <1>12 DEF n, l, all, x, row, e, Q

(* The indices of every epoch lie in their ranges and reach the ends where *)
(* RowsMeaningful says, its quantiles are in order, and the summary of the *)
(* epochs so far never reports more lost or admitted than generated.       *)
THEOREM RowsAlwaysMeaningful == SpecPath => []RowsMeaningful
  <1>1. InitPath => Reported
    BY InitReported
  <1>2. PathInductive /\ Driven /\ Calls /\ PathType /\ TypeOK /\ Reported /\ [NextPath]_allVars
           => Reported'
    BY StepReported
  <1>3. PathInductive /\ Reported => RowsMeaningful
    BY RowsInductive
  <1> QED
    BY <1>1, <1>2, <1>3, LedgerAlwaysKept, QueuesAlwaysDriven, PTL DEF SpecPath
=============================================================================
