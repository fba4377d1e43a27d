--------------------------- MODULE MCTraceReplay ---------------------------
(* A small instance of TraceReplay for TLC: packets of up to 4 bytes, half *)
(* units, three bins of 3 ns for the domain and one and two more for the   *)
(* other domain.  Sizes of mixes and rows lie below and above the MTU.  A  *)
(* HAL flow has 8 bytes and sends at most one a ns: those that last 1 ns   *)
(* end in their window of 6 ns, those that last 7 ns are carried into the  *)
(* next, where the three alive meet their cap.                             *)
EXTENDS TraceReplay

MCMaxFlows ==
    [s \in GeneratedSources |-> IF s \in {"synthetic_rates", "imc17_cdf"} THEN 1 ELSE 2]
MCClasses == <<"web", "cache">>
MCPortOf == [f \in 1..8 |-> f % 2]
MCBucketOf == [x \in Tuples |-> (x.addr + x.port) % 2]
MCJitters == {-5, 0, 5}
=============================================================================
