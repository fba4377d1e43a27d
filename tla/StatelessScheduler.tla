------------------------- MODULE StatelessScheduler -------------------------
(***************************************************************************)
(* The stateless scheduler of a configuration: its name is resolved to a   *)
(* signal and a policy (make_stateless_scheduler of                        *)
(* src/src/schedulers/__init__.py), the signal makes hotness out of the    *)
(* pressures of the epoch and the predicted risks, and one step() of the   *)
(* policy builds the next table.  The policies are those of                *)
(* GreedyScheduler and OneshotScheduler, and the static one.               *)
(***************************************************************************)
EXTENDS GreedyScheduler

CONSTANTS
    SchedulerTypes,    \* values of scheduler_type
    Steps,             \* pressures and risks are 0, 1/Steps, ..., 1
    Alpha, AlphaDen    \* alpha_blend is Alpha / AlphaDen

ASSUME StatelessSchedulerAssumption ==
    /\ Steps \in Nat \ {0} /\ AlphaDen \in Nat \ {0} /\ Alpha \in 0..AlphaDen
    /\ Top = Steps * AlphaDen

VARIABLES
    policy,   \* of the scheduler that was made
    todo,     \* hot queues the one-shot pass has not visited
    used      \* queues that have received a bucket in it

O == INSTANCE OneshotScheduler

greedyVars == <<B_q_gen, first, total, hot, cold>>
oneshotVars == <<todo, used>>
allVars == <<vars, policy, oneshotVars>>

-----------------------------------------------------------------------------
LEGACY_ALIASES ==
    [ewma_greedy |-> "pred_qp_greedy", reactive_greedy |-> "qp_greedy",
     reactive_oneshot |-> "qp_oneshot", proposed |-> "pred_qp_greedy",
     current_only |-> "qp_greedy", reactive_no_pred |-> "qp_oneshot"]

canonicalize(t) == IF t \in DOMAIN LEGACY_ALIASES THEN LEGACY_ALIASES[t] ELSE t

(* parse_scheduler_type, as a table of the names it accepts.               *)
Parsed ==
    [qp_greedy       |-> [signal |-> "qp", policy |-> "greedy"],
     qp_oneshot      |-> [signal |-> "qp", policy |-> "oneshot"],
     pred_greedy     |-> [signal |-> "pred", policy |-> "greedy"],
     pred_oneshot    |-> [signal |-> "pred", policy |-> "oneshot"],
     pred_qp_greedy  |-> [signal |-> "pred_qp", policy |-> "greedy"],
     pred_qp_oneshot |-> [signal |-> "pred_qp", policy |-> "oneshot"]]

(* make_stateless_scheduler; a name it does not know raises.               *)
Made(t) == IF canonicalize(t) = "static" THEN [signal |-> "qp", policy |-> "static"]
                                         ELSE Parsed[canonicalize(t)]

Makes(t) == canonicalize(t) \in DOMAIN Parsed \cup {"static"}

(* Hotness of a queue with pressure p and risk r, both in steps; without   *)
(* predictions it is the pressure, whatever the signal.                    *)
NoRisk == -1

_compute_signal(signal, p, r) ==
    CASE signal = "qp" \/ r = NoRisk -> AlphaDen * p
      [] signal = "pred" /\ r # NoRisk -> AlphaDen * r
      [] signal = "pred_qp" /\ r # NoRisk -> Alpha * p + (AlphaDen - Alpha) * r

Signals(signal, risks) == {_compute_signal(signal, p, r) : p \in 0..Steps, r \in risks}

-----------------------------------------------------------------------------
InitAny ==
    /\ Init
    /\ \E t \in SchedulerTypes :
          /\ Makes(t)
          /\ policy = Made(t).policy
          /\ \E risks \in {0..Steps, {NoRisk}} :
                H \in [Queues -> Signals(Made(t).signal, risks)]
    /\ todo = Hot(H) /\ used = {}

GreedyStep == policy = "greedy" /\ Next /\ UNCHANGED <<policy, oneshotVars>>

OneshotStep == policy = "oneshot" /\ O!Next /\ UNCHANGED <<policy, greedyVars>>

(* The static scheduler returns a copy.                                    *)
StaticStep ==
    /\ policy = "static" /\ phase = "loop"
    /\ phase' = "done"
    /\ UNCHANGED <<policy, oneshotVars, greedyVars, current_table, B_b, new_table, H,
                   moves>>

Returned == phase = "done" /\ UNCHANGED allVars

NextAny == GreedyStep \/ OneshotStep \/ StaticStep \/ Returned

(* The boundary is one call in the thread of the simulator.                *)
SpecAny == InitAny /\ [][NextAny]_allVars /\ WF_allVars(NextAny)

-----------------------------------------------------------------------------
(* The greedy loop reckons with the loads of the table it builds.          *)
GreedyTracksLoads == policy = "greedy" => LoadsTracked

(* The one-shot pass brings a queue at most one bucket it did not have and *)
(* takes from it at most one that it had, whatever is moved on after it    *)
(* was received.                                                           *)
OneMovePerQueue == policy = "oneshot" => O!OneArrival /\ O!OneDeparture

(* What is logged as reassignments is capped and never less than what      *)
(* changed in the table, with every policy.                                *)
MovesReported == Cardinality(Changed) <= moves /\ moves <= MaxMoves

=============================================================================
