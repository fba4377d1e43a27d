---------------------------- MODULE FlowSources ----------------------------
(***************************************************************************)
(* The trace generators of src/src/traces.py other than the HAL workload:  *)
(* what build_traceset_from_workload calls for each workload.source, one   *)
(* action per draw of the generator's loop.  A draw is a choice from a     *)
(* small set.  Where the code first draws all arrival times, sorts them,   *)
(* and then makes the flows, a flow arrives here at or after the one       *)
(* before.                                                                 *)
(***************************************************************************)
EXTENDS TracePackets

CONSTANTS
    Sources,     \* the values of workload.source that are generated
    MaxFlows,    \* source |-> n_flows, n_connections, the cap on arrivals
    MaxMsgs,     \* MAX_MSGS of a connection, MAX_CYCLES_PER_FLOW
    Arrivals,    \* instants at which flows arrive, in 1/Grain ns
    Phases,      \* first instants of a connection or of a first cycle
    Sizes,       \* flow and message sizes, in 1/Grain byte
    Thinks,      \* think times of a connection, in 1/Grain ns
    Elephants,   \* synth_elephant_n_flows
    Interval,    \* inter_ns of a constant-rate flow, in 1/Grain ns
    OnInterval,  \* inter_ns within an ON period, at the peak rate
    Jitters,     \* the jitter of a packet of such a flow, in 1/Grain ns
    OnTimes, OffTimes,   \* durations of ON and OFF periods, in 1/Grain ns
    Iat,         \* mean_iat_s, in 1/Grain ns
    PktSizes     \* packet sizes of the size mixes and of CSV rows, in bytes;
                 \* the code does not compare them with the MTU

GeneratedSources ==
    {"poisson_flow", "rpc", "synthetic_sustained", "synthetic_rates",
     "imc17_cdf", "trace_csv"}

ASSUME FlowSourcesAssumption ==
    /\ Sources \subseteq GeneratedSources \cup {"hal_composite"}
    /\ MaxFlows \in [GeneratedSources -> Nat]
    /\ {MaxMsgs, Interval, OnInterval, Iat} \subseteq Nat \ {0}
    /\ Elephants \in Nat
    /\ Arrivals \cup Phases \subseteq 0..(horizon_ns * Grain - 1)
    /\ OnTimes \cup OffTimes \cup Thinks \cup Sizes \subseteq Nat \ {0}
    /\ Jitters \subseteq Int /\ PktSizes \subseteq Int

VARIABLES
    source,     \* workload.source
    pairs,      \* per_flow_pairs
    line,       \* the timeline of the flow that is being generated
    t,          \* the generator's clock, in 1/Grain ns
    count,      \* messages, periods or elephants generated so far
    asked       \* pair |-> the whole bytes its flow was to send; not in the
                \* code.  asked[Len(pairs) + 1] is of the flow in line.

genVars == <<source, pairs, line, t, count, asked>>

Unasked == -1   \* the bytes of the flow are not given beforehand

-----------------------------------------------------------------------------
AtEnd == t >= horizon_ns * Grain

InitSources ==
    /\ source \in Sources
    /\ pairs = << >> /\ line = << >> /\ count = 0
    /\ t \in IF source \in {"rpc", "imc17_cdf"} THEN Phases ELSE {0}
    /\ asked = <<0>>

AddFlow(p, bytes) ==
    /\ pairs' = Append(pairs, p)
    /\ asked' = Append([asked EXCEPT ![Len(asked)] = bytes], 0)

(* _gen_poisson_flows: a flow is one message.                              *)
PoissonFlow ==
    /\ source = "poisson_flow" /\ Len(pairs) < MaxFlows[source]
    /\ \E arrival \in Arrivals, s \in Sizes :
          /\ arrival >= t /\ t' = arrival
          /\ AddFlow(BackToBack(arrival, Clipped(s)), Clipped(s) \div Grain)
    /\ UNCHANGED <<source, line, count>>

(* _gen_rpc_connections: a message, and the think time after it.           *)
(* Mutant: the think time runs from the start of the message.              *)
MessageEnd_Start(size) == t

MessageEnd(size) == t + PacketCount(size) * Gap

RpcMessage ==
    /\ source = "rpc" /\ Len(pairs) < MaxFlows[source]
    /\ ~AtEnd /\ count < MaxMsgs
    /\ \E s \in Sizes, think \in Thinks :
          /\ line' = line \o BackToBack(t, Clipped(s))
          /\ t' = MessageEnd(Clipped(s)) + think
          /\ asked' = [asked EXCEPT ![Len(asked)] = @ + Clipped(s) \div Grain]
    /\ count' = count + 1
    /\ UNCHANGED <<source, pairs>>

NextConnection ==
    /\ source = "rpc" /\ Len(pairs) < MaxFlows[source]
    /\ AtEnd \/ count = MaxMsgs
    /\ AddFlow(InOrder(line), asked[Len(asked)])
    /\ line' = << >> /\ count' = 0
    /\ t' \in Phases
    /\ UNCHANGED source

(* _gen_synthetic_sustained: elephants for the whole horizon, then mice,   *)
(* each with a budget.  A flow without packets is left out.                *)
Elephant ==
    /\ source = "synthetic_sustained" /\ count < Elephants
    /\ \E j \in [1..CbrCount(0, horizon_ns, Interval) -> Jitters] :
          LET p == Cbr(0, horizon_ns, Interval, j)
          IN  IF p = << >> THEN UNCHANGED <<pairs, asked>>
                           ELSE AddFlow(p, Unasked)
    /\ count' = count + 1
    /\ UNCHANGED <<source, line, t>>

MouseEnd(from, size) ==
    Least(horizon_ns, from + (size * NsPerByte) \div (Grain * Grain) + 1)

Mouse ==
    /\ source = "synthetic_sustained" /\ count = Elephants
    /\ Len(pairs) < MaxFlows[source]
    /\ \E arrival \in Arrivals, s \in Sizes :
          LET from == arrival \div Grain
              size == Least(Greatest(s, Mtu * Grain), MaxBytes * Grain)
              to == MouseEnd(from, size)
          IN  /\ arrival >= t /\ t' = arrival
              /\ \E j \in [1..CbrCount(from, to, Gap) -> Jitters] :
                    LET p == Trimmed(Cbr(from, to, Gap, j), size)
                    IN  IF p = << >> THEN UNCHANGED <<pairs, asked>>
                        ELSE AddFlow(p, CeilDiv(size, Grain))
    /\ UNCHANGED <<source, line, count>>

(* _gen_synthetic_rates, _gen_meta_web, _gen_meta_cache: ON and OFF        *)
(* periods in turn; or, also _gen_meta_hadoop, one constant rate.          *)
OnPeriod ==
    /\ source = "synthetic_rates" /\ Len(pairs) < MaxFlows[source]
    /\ count % 2 = 0 /\ ~AtEnd
    /\ \E d \in OnTimes :
          LET to == Least(horizon_ns * Grain, t + d)
              n == CbrCount(t \div Grain, to \div Grain, OnInterval)
          IN  /\ \E j \in [1..n -> Jitters] :
                    line' = line \o Cbr(t \div Grain, to \div Grain, OnInterval, j)
              /\ t' = to
    /\ count' = count + 1
    /\ UNCHANGED <<source, pairs, asked>>

OffPeriod ==
    /\ source = "synthetic_rates" /\ count % 2 = 1 /\ ~AtEnd
    /\ \E d \in OffTimes : t' = t + d
    /\ count' = count + 1
    /\ UNCHANGED <<source, pairs, line, asked>>

ConstantRate ==
    /\ source = "synthetic_rates" /\ Len(pairs) < MaxFlows[source] /\ count = 0
    /\ \E j \in [1..CbrCount(0, horizon_ns, Interval) -> Jitters] :
          line' = Cbr(0, horizon_ns, Interval, j)
    /\ t' = horizon_ns * Grain
    /\ count' = 1
    /\ UNCHANGED <<source, pairs, asked>>

(* _gen_imc17_class: cycles of an ON window, in which packets are Iat      *)
(* apart, and an OFF window.                                               *)
Cycle ==
    /\ source = "imc17_cdf" /\ Len(pairs) < MaxFlows[source]
    /\ ~AtEnd /\ count < MaxMsgs
    /\ \E on \in OnTimes, off \in OffTimes :
          LET to == Least(t + on, horizon_ns * Grain)
              n == (to - t) \div Iat + 1
              ts(i) == (t + (i - 1) * Iat) \div Grain
          IN  /\ line' = line \o Masked([i \in 1..n |-> Packet(ts(i), Mtu)],
                                        LAMBDA p : p.ts < horizon_ns)
              /\ t' = t + on + off
    /\ count' = count + 1
    /\ UNCHANGED <<source, pairs, asked>>

(* The flow of periods or cycles is at its end: its packets get sizes.     *)
EndFlow ==
    /\ source \in {"synthetic_rates", "imc17_cdf"} /\ Len(pairs) < MaxFlows[source]
    /\ AtEnd \/ (source = "imc17_cdf" /\ count = MaxMsgs)
    /\ \E sz \in [DOMAIN line -> PktSizes] :
          LET p == IF source = "imc17_cdf" THEN line ELSE InOrder(line)
          IN  AddFlow([i \in DOMAIN p |-> Packet(p[i].ts, sz[i])], Unasked)
    /\ line' = << >> /\ count' = 0
    /\ t' \in IF source = "imc17_cdf" THEN Phases ELSE {0}
    /\ UNCHANGED source

(* load_trace_csv: rows in any order, of any flow; a flow begins with its  *)
(* first row before the horizon.  Only the row limit is not the code's.    *)
CsvRow ==
    /\ source = "trace_csv" /\ count < MaxMsgs
    /\ \E f \in 1..Least(Len(pairs) + 1, MaxFlows[source]), ts \in 0..horizon_ns,
          sz \in PktSizes :
          IF ts >= horizon_ns THEN UNCHANGED <<pairs, asked>>
          ELSE IF f > Len(pairs) THEN AddFlow(<<Packet(ts, sz)>>, Unasked)
          ELSE /\ pairs' = [pairs EXCEPT ![f] = Append(@, Packet(ts, sz))]
               /\ UNCHANGED asked
    /\ count' = count + 1
    /\ UNCHANGED <<source, line, t>>

NextSources ==
    \/ PoissonFlow
    \/ RpcMessage \/ NextConnection
    \/ Elephant \/ Mouse
    \/ OnPeriod \/ OffPeriod \/ ConstantRate \/ Cycle \/ EndFlow
    \/ CsvRow

(* The generator may return: arrivals and rows are as many as they are,    *)
(* the other sources make a given number of flows.                         *)
Generated ==
    \/ source \in {"poisson_flow", "trace_csv"}
    \/ source = "synthetic_sustained" /\ count = Elephants
    \/ source \in {"rpc", "synthetic_rates", "imc17_cdf"}
       /\ Len(pairs) = MaxFlows[source]

(* What it returns: the rows of a CSV are sorted by time, then size.       *)
BySize(p) ==
    LET sz == [i \in DOMAIN p |-> p[i].sz]
    IN  [k \in DOMAIN p |-> p[Place(DOMAIN p, sz, k)]]

Timelines ==
    IF source = "trace_csv" THEN [f \in DOMAIN pairs |-> InOrder(BySize(pairs[f]))]
                            ELSE pairs

=============================================================================
