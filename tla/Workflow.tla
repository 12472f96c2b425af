------------------------------ MODULE Workflow ------------------------------
(***************************************************************************)
(* One run of a workflow: the coordinator of WorkflowRunner._run_locked    *)
(* and _run_steps, its pool of Step workers, their completion queue, and   *)
(* a user who may press Stop at any moment (aura/agents/workflow_runner.py)*)
(*                                                                         *)
(* The coordinator reads the stop flag at the places the code reads it     *)
(* and nowhere else, so a Stop may land between any two of them.           *)
(*                                                                         *)
(* A definition named X_Something beside X is X with a plausible defect,   *)
(* used by the mutation runs of PROJECT.json only.                         *)
(***************************************************************************)
EXTENDS WorkflowPlan

VARIABLES
  plan,        \* the frozen plan
  phase,       \* where the coordinator is
  cancel,      \* cancel_event
  raised,      \* _run_steps is leaving by an exception
  settled,     \* settled[s]: the recorded outcome, or "none"
  wave,        \* decision.wave, the part not launched yet
  blocked,     \* decision.blocked of this round
  launched,    \* Steps submitted in this round
  worker,      \* worker[s]: idle, running, posted (in the queue), received
  reply,       \* reply[s]: workflow_state_of the worker's result
  said,        \* Steps whose result carries text
  shown,       \* the last state the observer was given for each Step
  worktree,    \* the shared worktree: none, open, retained, stranded
  status,      \* the run's reported status, or "none"
  answer,      \* Steps whose text the run hands back
  lateStarts   \* history: workers started when Stop was already pressed

vars == <<plan, phase, cancel, raised, settled, wave, blocked, launched, worker,
          reply, said, shown, worktree, status, answer, lateStarts>>

Phases   == {"start", "decide", "launch", "announced", "submit", "collect",
             "drain", "quiesce", "checkpoint", "done"}
Replies  == {"succeeded", "failed", "cancelled"}
Outcomes == Replies \cup {"skipped"}

Settled   == {s \in Steps : settled[s] # "none"}
Succeeded == {s \in Steps : settled[s] = "succeeded"}
Active    == {s \in Steps : worker[s] = "running"}

TypeOK ==
  /\ plan \in Plans
  /\ phase \in Phases
  /\ cancel \in BOOLEAN
  /\ raised \in BOOLEAN
  /\ settled \in [Steps -> Outcomes \cup {"none"}]
  /\ wave \in SUBSET Steps
  /\ blocked \in SUBSET Steps
  /\ launched \in SUBSET Steps
  /\ worker \in [Steps -> {"idle", "running", "posted", "received"}]
  /\ reply \in [Steps -> Replies \cup {"none"}]
  /\ said \in SUBSET Steps
  /\ shown \in [Steps -> Outcomes \cup {"none", "running"}]
  /\ worktree \in {"none", "open", "retained", "stranded"}
  /\ status \in {"none", "completed", "partial", "failed", "cancelled"}
  /\ answer \in SUBSET Steps
  /\ lateStarts \in Nat

Init ==
  /\ plan \in Plans
  /\ phase = "start"
  /\ cancel = FALSE
  /\ raised = FALSE
  /\ settled = [s \in Steps |-> "none"]
  /\ wave = {}
  /\ blocked = {}
  /\ launched = {}
  /\ worker = [s \in Steps |-> "idle"]
  /\ reply = [s \in Steps |-> "none"]
  /\ said = {}
  /\ shown = [s \in Steps |-> "none"]
  /\ worktree = "none"
  /\ status = "none"
  /\ answer = {}
  /\ lateStarts = 0

-----------------------------------------------------------------------------
(* The user. *)

Stop ==
  /\ phase # "done"
  /\ ~cancel
  /\ cancel' = TRUE
  /\ UNCHANGED <<plan, phase, raised, settled, wave, blocked, launched, worker,
                 reply, said, shown, worktree, status, answer, lateStarts>>

-----------------------------------------------------------------------------
(* A Step worker: child.run returns or raises, and its future's callback   *)
(* posts _WorkerDone.  A child answers CANCELLED only after a stop; its    *)
(* answer is COMPLETED only with text (_wrap_result), and a failed or      *)
(* stopped child may have left some.                                       *)

WorkerFinish(s) ==
  /\ worker[s] = "running"
  /\ worker' = [worker EXCEPT ![s] = "posted"]
  /\ \E r \in Replies :
       /\ r = "cancelled" => cancel
       /\ reply' = [reply EXCEPT ![s] = r]
       /\ \/ said' = said \cup {s}
          \/ r # "succeeded" /\ said' = said
  /\ UNCHANGED <<plan, phase, cancel, raised, settled, wave, blocked, launched,
                 shown, worktree, status, answer, lateStarts>>

-----------------------------------------------------------------------------
(* The coordinator. *)

(* A writable plan gets one worktree before any Step; without it the run   *)
(* fails and no Step is considered.                                        *)
Begin ==
  /\ phase = "start"
  /\ \/ /\ ~Writable(plan)
        /\ phase' = "decide"
        /\ UNCHANGED <<worktree, status>>
     \/ /\ Writable(plan)
        /\ phase' = "decide"
        /\ worktree' = "open"
        /\ UNCHANGED status
     \/ /\ Writable(plan)
        /\ phase' = "done"
        /\ status' = "failed"
        /\ UNCHANGED worktree
  /\ UNCHANGED <<plan, cancel, raised, settled, wave, blocked, launched, worker,
                 reply, said, shown, answer, lateStarts>>

LeaveLoop_SpinsOnStop ==
  /\ phase = "decide"
  /\ Settled = Steps \/ cancel
  /\ phase' = IF Settled = Steps THEN "quiesce" ELSE "decide"
  /\ UNCHANGED <<plan, cancel, raised, settled, wave, blocked, launched, worker,
                 reply, said, shown, worktree, status, answer, lateStarts>>

(* The loop head: leave when everything settled or a stop is seen. *)
LeaveLoop ==
  /\ phase = "decide"
  /\ Settled = Steps \/ cancel
  /\ phase' = "quiesce"
  /\ UNCHANGED <<plan, cancel, raised, settled, wave, blocked, launched, worker,
                 reply, said, shown, worktree, status, answer, lateStarts>>

(* scheduler.decide, and every blocked Step settled as skipped at once. *)
Decide ==
  /\ phase = "decide"
  /\ Settled # Steps
  /\ ~cancel
  /\ LET b == Blocked(plan, Settled, Succeeded)
     IN  /\ blocked' = b
         /\ settled' = [s \in Steps |-> IF s \in b THEN "skipped" ELSE settled[s]]
         /\ shown' = [s \in Steps |-> IF s \in b THEN "skipped" ELSE shown[s]]
  /\ wave' = Wave(plan, Ready(plan, Settled, Succeeded))
  /\ phase' = "launch"
  /\ UNCHANGED <<plan, cancel, raised, launched, worker, reply, said, worktree,
                 status, answer, lateStarts>>

Announce_Unchecked ==
  /\ phase = "launch"
  /\ wave # {}
  /\ \E s \in First(wave) : shown' = [shown EXCEPT ![s] = "running"]
  /\ phase' = "submit"
  /\ UNCHANGED <<plan, cancel, raised, settled, wave, blocked, launched, worker,
                 reply, said, worktree, status, answer, lateStarts>>

(* First check of the stop flag, then the Step is shown as running. *)
Announce ==
  /\ phase = "launch"
  /\ ~cancel
  /\ wave # {}
  /\ \E s \in First(wave) : shown' = [shown EXCEPT ![s] = "running"]
  /\ phase' = "announced"
  /\ UNCHANGED <<plan, cancel, raised, settled, wave, blocked, launched, worker,
                 reply, said, worktree, status, answer, lateStarts>>

(* Second check of the stop flag, after the observer has run. *)
Recheck ==
  /\ phase = "announced"
  /\ ~cancel
  /\ phase' = "submit"
  /\ UNCHANGED <<plan, cancel, raised, settled, wave, blocked, launched, worker,
                 reply, said, shown, worktree, status, answer, lateStarts>>

(* executor.submit: nothing reads the flag any more. *)
Submit ==
  /\ phase = "submit"
  /\ \E s \in First(wave) :
       /\ worker' = [worker EXCEPT ![s] = "running"]
       /\ launched' = launched \cup {s}
       /\ wave' = wave \ {s}
  /\ lateStarts' = IF cancel THEN lateStarts + 1 ELSE lateStarts
  /\ phase' = "launch"
  /\ UNCHANGED <<plan, cancel, raised, settled, blocked, reply, said, shown,
                 worktree, status, answer>>

(* submit raises when the pool cannot start a thread.  The pool queued the *)
(* call first, so a thread it already has may still run it, as a future    *)
(* the coordinator never held.                                             *)
SubmitFails ==
  /\ phase = "submit"
  /\ \E s \in First(wave) :
       \/ UNCHANGED <<worker, lateStarts>>
       \/ /\ \E t \in Steps : worker[t] # "idle"
          /\ worker' = [worker EXCEPT ![s] = "running"]
          /\ lateStarts' = IF cancel THEN lateStarts + 1 ELSE lateStarts
  /\ cancel' = TRUE
  /\ raised' = TRUE
  /\ phase' = "drain"
  /\ UNCHANGED <<plan, settled, wave, blocked, launched, reply, said, shown,
                 worktree, status, answer>>

(* The launch loop ends: wave exhausted, or a stop seen at either check. *)
EndLaunch ==
  /\ \/ phase = "launch" /\ (cancel \/ wave = {})
     \/ phase = "announced" /\ cancel
  /\ wave' = {}
  /\ phase' = "collect"
  /\ UNCHANGED <<plan, cancel, raised, settled, blocked, launched, worker, reply,
                 said, shown, worktree, status, answer, lateStarts>>

(* events.get(): one completion, in whatever order the workers posted. *)
Receive(s) ==
  /\ phase = "collect"
  /\ s \in launched
  /\ worker[s] = "posted"
  /\ worker' = [worker EXCEPT ![s] = "received"]
  /\ shown' = [shown EXCEPT ![s] = reply[s]]
  /\ UNCHANGED <<plan, phase, cancel, raised, settled, wave, blocked, launched,
                 reply, said, worktree, status, answer, lateStarts>>

WaveIn_FirstDone ==
  launched = {} \/ \E s \in launched : worker[s] = "received"

(* while remaining: every launched Step has been received. *)
WaveIn == \A s \in launched : worker[s] = "received"

(* The whole wave is in: record it, then leave on a stop, fail when the    *)
(* round made no progress, or go round again.                              *)
SettleWave ==
  /\ phase = "collect"
  /\ WaveIn
  /\ settled' = [s \in Steps |-> IF s \in launched THEN reply[s] ELSE settled[s]]
  /\ LET stuck == ~cancel /\ launched = {} /\ blocked = {}
     IN  /\ raised' = stuck
         /\ cancel' = (cancel \/ stuck)
         /\ phase' = IF cancel THEN "quiesce" ELSE IF stuck THEN "drain" ELSE "decide"
  /\ launched' = {}
  /\ blocked' = {}
  /\ UNCHANGED <<plan, wave, worker, reply, said, shown, worktree, status, answer,
                 lateStarts>>

(* except: every future still in active is waited for; nobody reads the    *)
(* queue any more.                                                         *)
ActiveDone == launched \cap Active = {}

Drain ==
  /\ phase = "drain"
  /\ ActiveDone
  /\ phase' = "quiesce"
  /\ UNCHANGED <<plan, cancel, raised, settled, wave, blocked, launched, worker,
                 reply, said, shown, worktree, status, answer, lateStarts>>

(* After a stop the first Step left is the one it landed on, unless a Step *)
(* already reports the stop; every other Step left was never run.          *)
LeftOver(out) ==
  LET left == {s \in Steps : out[s] = "none"}
      hit  == IF \E s \in Steps : out[s] = "cancelled" THEN {} ELSE First(left)
  IN  [s \in Steps |-> IF s \in hit THEN "cancelled"
                       ELSE IF s \in left THEN "skipped" ELSE out[s]]

RunStatus_LastStep(out) == out[StepCount]

RunStatus(out) ==
  IF \E s \in Steps : out[s] = "cancelled" THEN "cancelled"
  ELSE IF \A s \in Steps : out[s] = "succeeded" THEN "completed"
  ELSE IF \E s \in Steps : out[s] = "succeeded" THEN "partial" ELSE "failed"

(* _final_answer: several terminal branches hand over everything they      *)
(* said; otherwise the last Step that succeeded speaks.                    *)
FinalAnswer(out) ==
  LET good == {s \in said : out[s] = "succeeded"}
  IN  IF Cardinality(plan.term) > 1 /\ plan.term \cap said # {}
      THEN plan.term \cap said
      ELSE {s \in good : \A t \in good : t <= s}

ShutDown_HeldFutures == launched \cap Active = {}

(* executor.shutdown(wait=True): every pool thread has come back. *)
ShutDown == Active = {}

(* Once a worktree exists, every way out of the run goes through it. *)
AfterRun == IF worktree = "open" THEN "checkpoint" ELSE "done"

(* finally: executor.shutdown(wait=True), then the outcomes are projected, *)
(* or, leaving by an exception, the run is an internal error without them. *)
Project ==
  /\ phase = "quiesce"
  /\ ShutDown
  /\ IF raised
     THEN /\ status' = "failed"
          /\ UNCHANGED <<settled, shown, answer>>
     ELSE LET out == IF cancel THEN LeftOver(settled) ELSE settled
          IN  /\ settled' = out
              /\ shown' = [s \in Steps |-> IF settled[s] = "none" THEN out[s] ELSE shown[s]]
              /\ status' = RunStatus(out)
              /\ answer' = FinalAnswer(out)
  /\ phase' = AfterRun
  /\ UNCHANGED <<plan, cancel, raised, wave, blocked, launched, worker, reply, said,
                 worktree, lateStarts>>

(* _checkpoint: the worktree's edits are retained, or left for recovery;   *)
(* what is not an AgentWorktreeError (the record could not be saved)       *)
(* leaves as an internal error that carries no outcomes.                   *)
Checkpoint ==
  /\ phase = "checkpoint"
  /\ \/ worktree' = "retained" /\ UNCHANGED <<status, answer, raised>>
     \/ /\ worktree' = "stranded"
        /\ status' = IF status # "completed" THEN status
                     ELSE IF answer # {} THEN "partial" ELSE "failed"
        /\ UNCHANGED <<answer, raised>>
     \/ /\ worktree' = "stranded"
        /\ status' = "failed"
        /\ answer' = {}
        /\ raised' = TRUE
  /\ phase' = "done"
  /\ UNCHANGED <<plan, cancel, settled, wave, blocked, launched, worker, reply,
                 said, shown, lateStarts>>

(* The run is over and stays as it is. *)
Finished == phase = "done" /\ UNCHANGED vars

Coordinator ==
  \/ Begin \/ LeaveLoop \/ Decide \/ Announce \/ Recheck \/ Submit \/ SubmitFails
  \/ EndLaunch \/ (\E s \in Steps : Receive(s)) \/ SettleWave \/ Drain \/ Project
  \/ Checkpoint

Next == Coordinator \/ Stop \/ (\E s \in Steps : WorkerFinish(s)) \/ Finished

(* The coordinator is one thread that never gives up its turn, and every   *)
(* child run returns: a provider stream ends or its own timeout fires.     *)
Fairness == WF_vars(Coordinator) /\ \A s \in Steps : WF_vars(WorkerFinish(s))

Spec == Init /\ [][Next]_vars
FairSpec == Spec /\ Fairness
-----------------------------------------------------------------------------
(* Properties. *)

(* While a Step that may edit the shared worktree is running, no other     *)
(* Step is (workflow_scheduler.py's worktree-exclusivity contract).        *)
MutationExclusive == \A s \in Active \cap plan.mut : Active = {s}

(* A Step was only ever given predecessors that succeeded: _run_steps      *)
(* reads settled[node_id] for each of them and hands the results on.       *)
InputsReady ==
  \A s \in Steps : worker[s] # "idle" => plan.pred[s] \subseteq Succeeded

(* "No recovery/checkpoint may race live child or tool activity": once the *)
(* worktree is being retained, or the run reported, no Step worker is live,*)
(* not even one whose submission failed.                                   *)
QuiescentRetention == phase \in {"checkpoint", "done"} => Active = {}

(* The round the coordinator waits for is never empty, so the error "could *)
(* not settle every Step" is never raised, for any plan.                   *)
NeverStuck == phase = "collect" /\ ~cancel => launched \cup blocked # {}

(* Each Step that ran is reported as its worker answered and no other Step *)
(* with an answer of its own, the observer was last shown the same, and a  *)
(* completed run hands back exactly what the terminal branches said.       *)
AnswersReported ==
  /\ phase \in {"checkpoint", "done"} /\ ~raised /\ Settled # {} =>
       \A s \in Steps : IF worker[s] = "idle"
                        THEN settled[s] \in {"skipped", "cancelled"}
                        ELSE settled[s] = reply[s]
  /\ phase = "done" /\ Settled = Steps => shown = settled
  /\ status = "completed" => answer = plan.term

(* A Step is left unrun only because something it waits for did not        *)
(* succeed, or because the run reports that it was stopped.  In particular *)
(* a failing branch never takes a sibling branch with it.                  *)
NoSilentSkips ==
  phase = "done" /\ ~raised /\ Settled # {} /\ status # "cancelled" =>
    \A s \in Steps : worker[s] = "idle" <=> ~(plan.pred[s] \subseteq Succeeded)

(* However the run ends, an opened worktree has been through _checkpoint,  *)
(* and a writable run is only called completed when its edits are kept.    *)
WorktreeClosed ==
  phase = "done" =>
    /\ worktree # "open"
    /\ status = "completed" /\ Writable(plan) => worktree = "retained"

(* What a run reports is what happened: to each Step that ran, to those    *)
(* that did not, and to the edits in its worktree.                         *)
HonestReport == AnswersReported /\ NoSilentSkips /\ WorktreeClosed

(* A Stop takes hold at one place.  The two checks around the observer     *)
(* callback leave room for one Step, never more, to start after it; and a  *)
(* Step that never ran is reported cancelled only if it is the only one    *)
(* and no Step that ran reports the stop.                                  *)
StopHeeded ==
  /\ lateStarts <= 1
  /\ \A s, t \in Steps :
       settled[s] = "cancelled" /\ settled[t] = "cancelled" /\ worker[s] = "idle" => s = t

OnceStep ==
  \A s \in Steps :
    /\ settled[s] # "none" => settled'[s] = settled[s]
    /\ worker[s] # "idle" => worker'[s] # "idle"
    /\ worker[s] \in {"posted", "received"} => worker'[s] # "running"

(* A recorded outcome is never rewritten, and a Step never starts twice.   *)
RunsOnce == [][OnceStep]_vars

(* Every run ends: no plan, failure or stop leaves the coordinator waiting.*)
Terminates == <>(phase = "done")

(* The run implements the promise of DagRun. *)
RunState ==
  [s \in Steps |-> IF settled[s] # "none" THEN settled[s]
                   ELSE IF worker[s] = "idle" THEN "waiting"
                   ELSE IF worker[s] = "running" THEN "running" ELSE reply[s]]

Dag == INSTANCE DagRun WITH stop <- cancel, state <- RunState

(* Every step the coordinator takes, seen through RunState, is a step of   *)
(* the promise or changes nothing it speaks of.                            *)
ImplementsDag == Dag!DagSpec
=============================================================================
