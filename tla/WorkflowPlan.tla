---------------------------- MODULE WorkflowPlan ----------------------------
(***************************************************************************)
(* The frozen plan of one workflow run and what the wave scheduler decides *)
(* from it (aura/agents/workflow_plan.py, workflow_scheduler.py).          *)
(*                                                                         *)
(* A Step is named by its place in the frozen order, which graph_dag's     *)
(* topological_order makes a linear extension of the drawing: a Step's     *)
(* predecessors all come before it.  Assignments, models, agents and the   *)
(* order inside a join's bundle are left out; no decision reads them.      *)
(*                                                                         *)
(* A definition named X_Something beside X is X with a plausible defect;   *)
(* it is used by the mutation runs of PROJECT.json and by nothing else.    *)
(***************************************************************************)
EXTENDS Integers, FiniteSets

CONSTANTS StepCount,    \* len(plan.steps)
          Plans         \* the plans a run may be given

Steps == 1..StepCount

(* Permission of the Step or of any helper below it: mutation_capable is   *)
(* the Step's own permission or one of its helpers' (post_init).           *)
WorkflowPlans ==
  [ pred : [Steps -> SUBSET Steps],   \* predecessors
    mut  : SUBSET Steps,              \* mutation_capable Steps
    term : SUBSET Steps ]             \* terminal_steps: to_result

(* solid_dag refuses a drawing with a cycle or with a Step that reaches no *)
(* answer, so a Step nothing waits for hands its answer to the result.     *)
Runnable(p) ==
  /\ \A s \in Steps : p.pred[s] \subseteq 1..(s - 1)
  /\ \A s \in Steps : (\A t \in Steps : s \notin p.pred[t]) => s \in p.term

ASSUME StepCountAssumption == StepCount \in Nat \ {0}
ASSUME PlansAssumption == /\ Plans \subseteq WorkflowPlans
                          /\ \A p \in Plans : Runnable(p)

(* WorkflowRunPlan.writable: one worktree is needed when any Step may edit *)
Writable(p) == p.mut # {}

-----------------------------------------------------------------------------
(* decide().  settled is the set of settled Steps and good those of them   *)
(* that succeeded.  A Step is not classified until every predecessor has   *)
(* settled.                                                                *)
Classified(p, settled) == {s \in Steps \ settled : p.pred[s] \subseteq settled}

Blocked_OnFirstFailure(p, settled, good) ==
  {s \in Steps \ settled : p.pred[s] \cap (settled \ good) # {}}

Blocked(p, settled, good) ==
  {s \in Classified(p, settled) : ~(p.pred[s] \subseteq good)}

Ready(p, settled, good) ==
  {s \in Classified(p, settled) : p.pred[s] \subseteq good}

(* The read-only prefix of the ready Steps, or, when the first ready Step  *)
(* may edit, that Step alone.                                              *)
ReadOnlyPrefix(p, ready) ==
  {s \in ready \ p.mut : \A m \in ready \cap p.mut : s < m}

First(S) == {s \in S : \A t \in S : s <= t}

Wave_EveryReady(p, ready) == ready

Wave(p, ready) ==
  IF First(ready) \subseteq p.mut THEN First(ready) ELSE ReadOnlyPrefix(p, ready)
=============================================================================
