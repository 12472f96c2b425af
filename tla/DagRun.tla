------------------------------- MODULE DagRun -------------------------------
(***************************************************************************)
(* What a workflow run promises, without waves, queues, threads or stop    *)
(* checks: a Step starts once, after everything it waits for succeeded; a  *)
(* Step that may edit runs alone; a Step behind one that did not succeed   *)
(* is skipped; and only a stop leaves a Step unrun for another reason.     *)
(***************************************************************************)
EXTENDS WorkflowPlan

VARIABLES
  plan,      \* the frozen plan
  stop,      \* the run was asked to stop
  state      \* state[s]: waiting, running, or how the Step ended

dagVars == <<plan, stop, state>>

Running == {s \in Steps : state[s] = "running"}
Ended   == {s \in Steps : state[s] \notin {"waiting", "running"}}
Good    == {s \in Steps : state[s] = "succeeded"}

DagInit ==
  /\ plan \in Plans
  /\ stop = FALSE
  /\ state = [s \in Steps |-> "waiting"]

RequestStop ==
  /\ stop' = TRUE
  /\ UNCHANGED <<plan, state>>

StartStep(s) ==
  /\ state[s] = "waiting"
  /\ plan.pred[s] \subseteq Good
  /\ Running # {} => plan.mut \cap (Running \cup {s}) = {}
  /\ state' = [state EXCEPT ![s] = "running"]
  /\ UNCHANGED <<plan, stop>>

(* A submission that fails is an internal error, which stops the run; the  *)
(* pool may run the Step all the same.                                     *)
StartLost(s) ==
  /\ state[s] = "waiting"
  /\ plan.pred[s] \subseteq Good
  /\ Running # {} => plan.mut \cap (Running \cup {s}) = {}
  /\ state' = [state EXCEPT ![s] = "running"]
  /\ stop' = TRUE
  /\ UNCHANGED plan

EndStep(s) ==
  /\ state[s] = "running"
  /\ \E r \in {"succeeded", "failed", "cancelled"} :
       /\ r = "cancelled" => stop
       /\ state' = [state EXCEPT ![s] = r]
  /\ UNCHANGED <<plan, stop>>

SkipBlocked(S) ==
  /\ \A s \in S : /\ state[s] = "waiting"
                  /\ plan.pred[s] \subseteq Ended
                  /\ ~(plan.pred[s] \subseteq Good)
  /\ state' = [s \in Steps |-> IF s \in S THEN "skipped" ELSE state[s]]
  /\ UNCHANGED <<plan, stop>>

(* Every Step left is skipped, except that one of them carries the stop    *)
(* when no Step that ran does.                                             *)
AbandonRest ==
  /\ stop
  /\ Running = {}
  /\ \E hit \in SUBSET (Steps \ Ended) :
       /\ IF \E s \in Ended : state[s] = "cancelled"
          THEN hit = {}
          ELSE Steps \ Ended # {} => \E h \in Steps \ Ended : hit = {h}
       /\ state' = [s \in Steps |-> IF s \in hit THEN "cancelled"
                                    ELSE IF s \in Ended THEN state[s] ELSE "skipped"]
  /\ UNCHANGED <<plan, stop>>

DagNext ==
  \/ RequestStop
  \/ AbandonRest
  \/ \E s \in Steps : StartStep(s) \/ StartLost(s) \/ EndStep(s)
  \/ \E S \in SUBSET Steps : SkipBlocked(S)

DagSpec == DagInit /\ [][DagNext]_dagVars
=============================================================================
