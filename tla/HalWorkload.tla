---------------------------- MODULE HalWorkload ----------------------------
(***************************************************************************)
(* The two-layer generator of the HAL composite workload,                  *)
(* generate_hal_composite of src/src/hal_workload.py.  In every window and *)
(* for every class it draws a target, spawns flows until the flows' nominal*)
(* bytes reach the target, and lets every flow send its fair share.  A     *)
(* bound or a cap has the name of the code's.  A share is rounded down to  *)
(* a unit of 1/Grain byte, where the code rounds to a float.               *)
(***************************************************************************)
EXTENDS TracePackets

CONSTANTS
    Classes,        \* active_classes, in their order
    RateUpdate,     \* rate_update_ns
    RawRates,       \* the scaled lognormal samples, in units per ns
    LinkRate,       \* link_gbps, the clip of a sample
    Tenants,        \* n_tenants
    FlowSizes, FlowRates, FlowDurations,   \* samples of the pool, in bytes,
                                           \* units per ns, and ns
    RateFloor, RateCap,                    \* bounds of a flow's rate
    MaxSpawn,       \* MAX_SPAWN_PER_WINDOW_PER_CLASS
    MaxAlive        \* MAX_ALIVE_PER_CLASS

ASSUME HalWorkloadAssumption ==
    /\ Classes \in Seq(STRING) /\ IsInjective(Classes)
    /\ Classes # << >>   \* the fractions of the mix add up to 1
    /\ {RateUpdate, Tenants, RateFloor, RateCap, MaxSpawn, MaxAlive}
          \subseteq Nat \ {0}
    /\ RawRates \subseteq Nat /\ LinkRate \in Nat
    /\ FlowSizes \subseteq Nat /\ FlowRates \subseteq Nat
    /\ FlowDurations \subseteq Nat
    /\ RateFloor <= RateCap
    \* a flow's rate is below its size per ns, so that it lasts
    /\ RateCap <= (Mtu \div 2) * Grain

VARIABLES
    all,        \* all_flows
    alive,      \* class |-> the flows carried to the next window
    window,     \* ui
    class,      \* index in Classes of the class that is next
    step,       \* "window": draw the target; "spawn": spawn and share
    target,     \* target_bytes
    present,    \* kept_flows and new_flows, as indices of all
    spawned     \* flows spawned in this window for this class

halVars == <<all, alive, window, class, step, target, present, spawned>>

-----------------------------------------------------------------------------
n_updates == CeilDiv(horizon_ns, RateUpdate)

t_start == window * RateUpdate

t_end == Least((window + 1) * RateUpdate, horizon_ns)

(* The rates a class may have in a window: the sum of its tenants' rates,  *)
(* each clipped to the link.                                               *)
ClassRates ==
    {SumFunction(f) :
        f \in [1..Tenants -> {Least(r, LinkRate) : r \in RawRates}]}

(* What the pool of attributes returns, bounded as _refill bounds it.      *)
Attributes ==
    [size : {Greatest(Mtu \div 2, s) : s \in FlowSizes},
     rate : {Greatest(Least(r, RateCap), RateFloor) : r \in FlowRates},
     duration : {Greatest(1, d) : d \in FlowDurations}]

(* A flow spawned at t_start; sent is its window_emissions.                *)
NewFlow(a) ==
    [rate |-> a.rate, total |-> a.size * Grain, rem |-> a.size * Grain,
     end |-> t_start + Least((a.size * Grain) \div a.rate, a.duration),
     sent |-> << >>]

(* What the flow can send in the window.                                   *)
Nominal(f) ==
    Least(f.rem, f.rate * Greatest(0, Least(f.end, t_end) - t_start))

Demand == FoldLeft(LAMBDA sum, i : sum + Nominal(all[i]), 0, present)

InitHal ==
    /\ all = << >> /\ alive = [c \in ToSet(Classes) |-> << >>]
    /\ window = 0 /\ class = 1 /\ step = "window"
    /\ target = 0 /\ present = << >> /\ spawned = 0

(* The target of the window, and the flows of the class that are not over. *)
OpenWindow ==
    /\ step = "window" /\ window < n_updates
    /\ \E rate \in ClassRates : target' = rate * (t_end - t_start)
    /\ present' = Masked(alive[Classes[class]],
                     LAMBDA i : all[i].rem > 0 /\ all[i].end > t_start)
    /\ spawned' = 0
    /\ step' = "spawn"
    /\ UNCHANGED <<all, alive, window, class>>

(* Mutant: the cap on the flows that are alive is forgotten.               *)
Wanting_AliveUncapped == Demand < target /\ spawned < MaxSpawn

Wanting ==
    /\ Demand < target
    /\ spawned < MaxSpawn /\ Len(present) < MaxAlive

Spawn ==
    /\ step = "spawn" /\ Wanting
    /\ \E a \in Attributes : all' = Append(all, NewFlow(a))
    /\ present' = Append(present, Len(all) + 1)
    /\ spawned' = spawned + 1
    /\ UNCHANGED <<alive, window, class, step, target>>

Share(f) ==
    IF Demand > target THEN (Nominal(f) * target) \div Demand ELSE Nominal(f)

Emission(f) == [from |-> t_start, to |-> t_end, bytes |-> Share(f)]

Sent(f) ==
    IF Share(f) = 0 THEN f
    ELSE [f EXCEPT !.rem = @ - Share(f), !.sent = Append(@, Emission(f))]

(* The flows send their shares; those that last go on to the next window.  *)
CloseWindow ==
    /\ step = "spawn" /\ ~Wanting
    /\ all' = [i \in DOMAIN all |->
                 IF i \in ToSet(present) THEN Sent(all[i]) ELSE all[i]]
    /\ alive' = [alive EXCEPT ![Classes[class]] =
                   Masked(present,
                      LAMBDA i : all'[i].rem > 0 /\ all'[i].end > t_end)]
    /\ class' = (class % Len(Classes)) + 1
    /\ window' = IF class = Len(Classes) THEN window + 1 ELSE window
    /\ step' = "window"
    /\ UNCHANGED <<target, present, spawned>>

NextHal == OpenWindow \/ Spawn \/ CloseWindow

HalDone == step = "window" /\ window = n_updates

(* generate_hal_composite has returned.                                    *)
LocalsGone ==
    /\ all' = << >> /\ alive' = [c \in ToSet(Classes) |-> << >>]
    /\ window' = 0 /\ class' = 1 /\ step' = "window"
    /\ target' = 0 /\ present' = << >> /\ spawned' = 0

(* The timelines of the flows, without those that have no packet.          *)
HalTimeline(f) ==
    InOrder(FlattenSeq([k \in DOMAIN f.sent |-> WindowPackets(f.sent[k])]))

HalPairs ==
    Masked([i \in DOMAIN all |-> HalTimeline(all[i])], LAMBDA p : p # << >>)

=============================================================================
