----------------------------- MODULE Telemetry -----------------------------
(***************************************************************************)
(* The telemetry of one domain (DomainTelemetry of src/src/telemetry.py):  *)
(* the arrays that hold one row per bin of the epoch, and the sums, peaks, *)
(* pressures and latency quantiles that close the epoch.                   *)
(*                                                                         *)
(* A shape s has the fields of the dataclass: H, the sets buckets and      *)
(* queues, D_q, the weights w1, w2, w3 as integers, and eps.  Packets and  *)
(* bytes of one cell are kept together.  A ratio is a numerator with its   *)
(* denominator; rates per bin stand for rates per second.                  *)
(***************************************************************************)
EXTENDS Sorting, SequencesExt, FiniteSetsExt

Nothing == [pkts |-> 0, bytes |-> 0]

More(x, pkts, bytes) == [pkts |-> x.pkts + pkts, bytes |-> x.bytes + bytes]

Sum(f, S) == SumFunctionOnSet(f, S)

Total(f, S) == [pkts  |-> Sum([x \in S |-> f[x].pkts], S),
                bytes |-> Sum([x \in S |-> f[x].bytes], S)]

Bins(s) == 0..(s.H - 1)

reset_epoch(s) ==
    LET none == [k \in Bins(s) |-> [q \in s.queues |-> Nothing]]
    IN  [b    |-> [k \in Bins(s) |-> [b \in s.buckets |-> Nothing]],
         gen  |-> none, adm |-> none, drop |-> none,
         K    |-> [k \in Bins(s) |-> [q \in s.queues |-> 0]],
         V    |-> [k \in 0..s.H |-> [q \in s.queues |-> 0]],
         latency_samples |-> << >>]

set_V_start(telem, V) == [telem EXCEPT !.V[0] = V]

(* The buckets of a bin folded to queues by the table.                     *)
QueueTotals(s, table, bucket) ==
    [q \in s.queues |-> Total(bucket, {b \in s.buckets : table[b] = q})]

(* The latencies of all queues.                                            *)
Samples(row, S) == FoldSet(LAMBDA q, acc : acc \o row[q].latency, << >>, S)

record_bin(s, telem, k, bucket, table, row, V) ==
    [telem EXCEPT !.b[k] = bucket,
                  !.gen[k] = QueueTotals(s, table, bucket),
                  !.adm[k] = [q \in s.queues |-> row[q].adm],
                  !.drop[k] = [q \in s.queues |-> row[q].drop],
                  !.K[k] = [q \in s.queues |-> row[q].returned],
                  !.V[k + 1] = V,
                  !.latency_samples = @ \o Samples(row, s.queues)]

-----------------------------------------------------------------------------
(* np.quantile with linear interpolation, the quantile in thousandths and  *)
(* the result times 1000.                                                  *)
Quantile(sorted, permille) ==
    LET pos  == (Len(sorted) - 1) * permille
        i    == pos \div 1000
        next == IF i + 2 <= Len(sorted) THEN i + 2 ELSE Len(sorted)
    IN  sorted[i + 1] * (1000 - (pos % 1000)) + sorted[next] * (pos % 1000)

_latency_stats(telem) ==
    LET samples == telem.latency_samples
        sorted  == Sorted(samples)
        n       == Len(samples)
    IN  IF n = 0
        THEN [n |-> 0, total |-> 0, p50 |-> 0, p95 |-> 0, p99 |-> 0, p999 |-> 0,
              max |-> 0]
        ELSE [n |-> n, total |-> FoldLeft(+, 0, samples),
              p50 |-> Quantile(sorted, 500), p95 |-> Quantile(sorted, 950),
              p99 |-> Quantile(sorted, 990), p999 |-> Quantile(sorted, 999),
              max |-> sorted[n]]

EpochTotal(s, f, x) == Total([k \in Bins(s) |-> f[k][x]], Bins(s))

Peak(s, f, x) == Max({f[k][x].bytes : k \in Bins(s)})

(* P_q before it is clipped, with w1 + w2 + w3 for 1.                      *)
(* Mutant: the loss is relative to the bytes that were admitted.           *)
Offered_Admitted(s, telem, q) == EpochTotal(s, telem.adm, q).bytes

Offered(s, telem, q) == EpochTotal(s, telem.gen, q).bytes

Pressure(s, telem, q) ==
    LET U_start == s.D_q - telem.V[0][q]
        U_end   == s.D_q - telem.V[s.H][q]
        growth  == Max({0, U_end - U_start})
        offered == Offered(s, telem, q) + s.eps
        dropped == EpochTotal(s, telem.drop, q).bytes
    IN  [num |-> (s.w1 * U_end + s.w2 * growth) * offered + s.w3 * dropped * s.D_q,
         den |-> (s.w1 + s.w2 + s.w3) * s.D_q * offered]

Clipped(r) ==
    [r EXCEPT !.num = IF @ < 0 THEN 0 ELSE IF @ > r.den THEN r.den ELSE @]

finalize_epoch(s, telem) ==
    LET U(k, q) == s.D_q - telem.V[k][q]
    IN  [b        |-> [b \in s.buckets |-> EpochTotal(s, telem.b, b)],
         R_b_peak |-> [b \in s.buckets |-> Peak(s, telem.b, b)],
         gen      |-> [q \in s.queues |-> EpochTotal(s, telem.gen, q)],
         adm      |-> [q \in s.queues |-> EpochTotal(s, telem.adm, q)],
         drop     |-> [q \in s.queues |-> EpochTotal(s, telem.drop, q)],
         K_q      |-> [q \in s.queues |-> Sum([k \in Bins(s) |-> telem.K[k][q]], Bins(s))],
         R_q_peak |-> [q \in s.queues |-> Peak(s, telem.gen, q)],
         G_q      |-> [q \in s.queues |-> U(s.H, q) - U(0, q)],
         U_max    |-> [q \in s.queues |-> Max({U(k, q) : k \in 0..s.H})],
         P_q      |-> [q \in s.queues |-> Clipped(Pressure(s, telem, q))],
         latency  |-> _latency_stats(telem)]
=============================================================================
