--------------------------- MODULE WorkflowProofs ---------------------------
(***************************************************************************)
(* Theorems about Workflow, for every number of Steps and every plan.      *)
(*                                                                         *)
(* One inductive invariant, IInv, carries them all; RInv adds what the run *)
(* reports of its Steps, and when a stop takes hold.  The heart is that the*)
(* Steps a round has launched or will launch are either all read-only or   *)
(* one Step alone, that every live worker is among them, and that what     *)
(* they wait for has already succeeded.                                    *)
(***************************************************************************)
EXTENDS Workflow, TLAPS, WellFoundedInduction, FiniteSetTheorems

(* The Steps of the current round. *)
Round == launched \cup wave

(* What each phase leaves in the round's variables. *)
PhaseInv ==
  /\ phase = "drain" => raised
  /\ raised => phase \in {"drain", "quiesce", "checkpoint", "done"}
  /\ phase \in {"start", "decide"} => Round = {}
  /\ phase \in {"quiesce", "checkpoint", "done"} /\ ~raised => Round = {}
  /\ phase = "collect" => wave = {}
  /\ phase = "start" => \A s \in Steps : worker[s] = "idle" /\ settled[s] = "none"
  /\ phase \in {"announced", "submit"} => wave # {}

(* A Step of the round is not settled; one still to launch is idle. *)
RoundInv ==
  /\ launched \cap wave = {}
  /\ \A s \in Round : settled[s] = "none"
  /\ \A s \in launched : worker[s] # "idle"
  /\ ~raised => \A s \in wave : worker[s] = "idle"

(* Every live worker belongs to the round. *)
LiveInv == Active \subseteq Round

(* A Step of the round that may edit is the whole round. *)
ExclusiveInv == \A s \in Round \cap plan.mut : Round = {s}

(* What a Step of the round, or one that ran, waits for has succeeded. *)
InputsInv == \A s \in Steps : s \in wave \/ worker[s] # "idle" => plan.pred[s] \subseteq Succeeded

(* A worker has answered exactly when it has posted its completion. *)
ReplyInv == \A s \in Steps : reply[s] = "none" <=> worker[s] \in {"idle", "running"}

(* A Step that ran in an earlier round is recorded with its answer, and a  *)
(* Step that never ran is recorded, if at all, with an outcome of the      *)
(* coordinator's.                                                          *)
OutcomeInv ==
  \A s \in Steps :
    /\ worker[s] = "idle" => settled[s] \in {"none", "skipped", "cancelled"}
    /\ worker[s] # "idle" /\ s \notin Round => settled[s] = reply[s] /\ worker[s] = "received"

(* The round is not empty while the coordinator works on it. *)
ProgressInv ==
  phase \in {"launch", "announced", "submit", "collect"} /\ ~cancel => Round \cup blocked # {}

QuietInv == phase \in {"checkpoint", "done"} => Active = {}

IInv == /\ TypeOK /\ PhaseInv /\ RoundInv /\ LiveInv /\ ExclusiveInv /\ InputsInv
        /\ ReplyInv /\ OutcomeInv /\ ProgressInv /\ QuietInv
-----------------------------------------------------------------------------
(* The scheduler. *)

(* A nonempty set of Steps has a first member. *)
LEMMA FirstExists ==
  ASSUME NEW S, S \subseteq Steps, S # {}
  PROVE  First(S) # {}
<1> DEFINE R == OpToRel(<, Nat)
<1>1. IsWellFoundedOn(R, Nat)
  BY NatLessThanWellFounded
<1>2. \A x, y \in Nat : <<x, y>> \in R <=> x < y
  BY DEF OpToRel
<1>3. S \subseteq Nat
  BY StepCountAssumption DEF Steps
<1>4. PICK m \in S : \A y \in S : ~(<<y, m>> \in R)
  <2> HIDE DEF R
  <2> QED BY <1>1, <1>3, WFMin
<1>5. \A y \in S : ~(y < m)
  <2> HIDE DEF R
  <2> QED BY <1>2, <1>3, <1>4
<1>6. \A y \in S : m <= y
  BY <1>3, <1>5
<1>7. m \in First(S)
  BY <1>6 DEF First
<1> QED BY <1>7

(* The first member is alone, and is a member. *)
LEMMA FirstIsOne ==
  ASSUME NEW S, S \subseteq Steps
  PROVE  /\ First(S) \subseteq S
         /\ \A s, t \in First(S) : s = t
  BY StepCountAssumption DEF First, Steps

(* A wave is made of ready Steps, is not empty when a Step is ready, and   *)
(* holds a Step that may edit only as its sole member.                     *)
LEMMA WaveShape ==
  ASSUME NEW p \in Plans, NEW ready, ready \subseteq Steps
  PROVE  /\ Wave(p, ready) \subseteq ready
         /\ ready # {} => Wave(p, ready) # {}
         /\ \A s \in Wave(p, ready) \cap p.mut : Wave(p, ready) = {s}
<1>1. CASE First(ready) \subseteq p.mut
  <2>1. Wave(p, ready) = First(ready)
    BY <1>1 DEF Wave
  <2> QED BY <2>1, FirstExists, FirstIsOne
<1>2. CASE ~(First(ready) \subseteq p.mut)
  <2>1. Wave(p, ready) = ReadOnlyPrefix(p, ready)
    BY <1>2 DEF Wave
  <2>2. PICK f \in First(ready) : f \notin p.mut
    BY <1>2
  <2>3. f \in ready /\ \A t \in ready : f <= t
    BY <2>2 DEF First
  <2>4. \A m \in ready \cap p.mut : f < m
    BY <2>2, <2>3, StepCountAssumption DEF Steps
  <2>5. f \in ReadOnlyPrefix(p, ready)
    BY <2>2, <2>3, <2>4 DEF ReadOnlyPrefix
  <2>6. ReadOnlyPrefix(p, ready) \subseteq ready \ p.mut
    BY DEF ReadOnlyPrefix
  <2> QED BY <2>1, <2>5, <2>6
<1> QED BY <1>1, <1>2

(* As long as a Step is unsettled, some unsettled Step is either blocked   *)
(* or ready: the first of them waits only for settled ones.                *)
LEMMA SomethingToDo ==
  ASSUME NEW p \in Plans, NEW done, done \subseteq Steps, done # Steps,
         NEW good, good \subseteq done
  PROVE  Blocked(p, done, good) \cup Ready(p, done, good) # {}
<1>1. Steps \ done # {} /\ Steps \ done \subseteq Steps
  OBVIOUS
<1>2. PICK f \in First(Steps \ done) : TRUE
  BY <1>1, FirstExists
<1>3. f \in Steps \ done /\ \A t \in Steps \ done : f <= t
  BY <1>2 DEF First
<1>4. p.pred[f] \subseteq 1..(f - 1)
  BY <1>3, PlansAssumption DEF Runnable
<1>5. \A t \in 1..(f - 1) : t \in done
  BY <1>3, StepCountAssumption DEF Steps
<1>6. f \in Classified(p, done)
  BY <1>3, <1>4, <1>5 DEF Classified
<1> QED BY <1>6 DEF Blocked, Ready

LEMMA PlanType ==
  ASSUME NEW p \in Plans
  PROVE  /\ p.pred \in [Steps -> SUBSET Steps]
         /\ p.mut \subseteq Steps
         /\ p.term \subseteq Steps
  BY PlansAssumption DEF WorkflowPlans
-----------------------------------------------------------------------------
(* IInv is inductive: one lemma for each action. *)

LEMMA InitEstablishes == Init => IInv
<1> SUFFICES ASSUME Init PROVE IInv
  OBVIOUS
<1>1. TypeOK
  BY DEF Init, TypeOK, Phases, Outcomes, Replies
<1>2. PhaseInv /\ RoundInv /\ LiveInv /\ ExclusiveInv
  BY DEF Init, PhaseInv, RoundInv, LiveInv, ExclusiveInv, Round, Active
<1>3. InputsInv /\ ReplyInv /\ OutcomeInv /\ ProgressInv /\ QuietInv
  BY DEF Init, InputsInv, ReplyInv, OutcomeInv, ProgressInv, QuietInv
<1> QED BY <1>1, <1>2, <1>3 DEF IInv

LEMMA StopPreserves == IInv /\ Stop => IInv'
<1> SUFFICES ASSUME IInv, Stop PROVE IInv'
  OBVIOUS
<1> USE DEF IInv, Stop
<1>1. TypeOK'
  BY DEF TypeOK, Phases, Outcomes, Replies
<1>2. PhaseInv' /\ RoundInv' /\ LiveInv' /\ ExclusiveInv'
  BY DEF TypeOK, PhaseInv, RoundInv, LiveInv, ExclusiveInv, Round, Active
<1>3. InputsInv' /\ ReplyInv' /\ OutcomeInv'
  BY DEF TypeOK, InputsInv, ReplyInv, OutcomeInv, Round, Succeeded
<1>4. ProgressInv' /\ QuietInv'
  BY DEF TypeOK, PhaseInv, ProgressInv, QuietInv, Round, Active
<1> QED BY <1>1, <1>2, <1>3, <1>4

LEMMA BeginPreserves == IInv /\ Begin => IInv'
<1> SUFFICES ASSUME IInv, Begin PROVE IInv'
  OBVIOUS
<1> USE DEF IInv, Begin
<1>1. TypeOK'
  BY DEF TypeOK, Phases, Outcomes, Replies
<1>2. PhaseInv' /\ RoundInv' /\ LiveInv' /\ ExclusiveInv'
  BY DEF TypeOK, PhaseInv, RoundInv, LiveInv, ExclusiveInv, Round, Active
<1>3. InputsInv' /\ ReplyInv' /\ OutcomeInv'
  BY DEF TypeOK, InputsInv, ReplyInv, OutcomeInv, Round, Succeeded
<1>4. ProgressInv' /\ QuietInv'
  BY DEF TypeOK, PhaseInv, ProgressInv, QuietInv, Round, Active
<1> QED BY <1>1, <1>2, <1>3, <1>4

LEMMA LeaveLoopPreserves == IInv /\ LeaveLoop => IInv'
<1> SUFFICES ASSUME IInv, LeaveLoop PROVE IInv'
  OBVIOUS
<1> USE DEF IInv, LeaveLoop
<1>1. TypeOK'
  BY DEF TypeOK, Phases, Outcomes, Replies
<1>2. PhaseInv' /\ RoundInv' /\ LiveInv' /\ ExclusiveInv'
  BY DEF TypeOK, PhaseInv, RoundInv, LiveInv, ExclusiveInv, Round, Active
<1>3. InputsInv' /\ ReplyInv' /\ OutcomeInv'
  BY DEF TypeOK, InputsInv, ReplyInv, OutcomeInv, Round, Succeeded
<1>4. ProgressInv' /\ QuietInv'
  BY DEF TypeOK, PhaseInv, ProgressInv, QuietInv, Round, Active
<1> QED BY <1>1, <1>2, <1>3, <1>4

LEMMA AnnouncePreserves == IInv /\ Announce => IInv'
<1> SUFFICES ASSUME IInv, Announce PROVE IInv'
  OBVIOUS
<1> USE DEF IInv, Announce
<1>1. TypeOK'
  BY DEF TypeOK, Phases, Outcomes, Replies
<1>2. PhaseInv' /\ RoundInv' /\ LiveInv' /\ ExclusiveInv'
  BY DEF TypeOK, PhaseInv, RoundInv, LiveInv, ExclusiveInv, Round, Active
<1>3. InputsInv' /\ ReplyInv' /\ OutcomeInv'
  BY DEF TypeOK, InputsInv, ReplyInv, OutcomeInv, Round, Succeeded
<1>4. ProgressInv' /\ QuietInv'
  BY DEF TypeOK, PhaseInv, ProgressInv, QuietInv, Round, Active
<1> QED BY <1>1, <1>2, <1>3, <1>4

LEMMA RecheckPreserves == IInv /\ Recheck => IInv'
<1> SUFFICES ASSUME IInv, Recheck PROVE IInv'
  OBVIOUS
<1> USE DEF IInv, Recheck
<1>1. TypeOK'
  BY DEF TypeOK, Phases, Outcomes, Replies
<1>2. PhaseInv' /\ RoundInv' /\ LiveInv' /\ ExclusiveInv'
  BY DEF TypeOK, PhaseInv, RoundInv, LiveInv, ExclusiveInv, Round, Active
<1>3. InputsInv' /\ ReplyInv' /\ OutcomeInv'
  BY DEF TypeOK, InputsInv, ReplyInv, OutcomeInv, Round, Succeeded
<1>4. ProgressInv' /\ QuietInv'
  BY DEF TypeOK, PhaseInv, ProgressInv, QuietInv, Round, Active
<1> QED BY <1>1, <1>2, <1>3, <1>4

LEMMA EndLaunchPreserves == IInv /\ EndLaunch => IInv'
<1> SUFFICES ASSUME IInv, EndLaunch PROVE IInv'
  OBVIOUS
<1> USE DEF IInv, EndLaunch
<1>1. TypeOK'
  BY DEF TypeOK, Phases, Outcomes, Replies
<1>2. PhaseInv' /\ RoundInv' /\ LiveInv' /\ ExclusiveInv'
  BY DEF TypeOK, PhaseInv, RoundInv, LiveInv, ExclusiveInv, Round, Active
<1>3. InputsInv' /\ ReplyInv' /\ OutcomeInv'
  BY DEF TypeOK, PhaseInv, RoundInv, InputsInv, ReplyInv, OutcomeInv, Round, Succeeded
<1>4. ProgressInv' /\ QuietInv'
  BY DEF TypeOK, PhaseInv, ProgressInv, QuietInv, Round, Active
<1> QED BY <1>1, <1>2, <1>3, <1>4

LEMMA DrainPreserves == IInv /\ Drain => IInv'
<1> SUFFICES ASSUME IInv, Drain PROVE IInv'
  OBVIOUS
<1> USE DEF IInv, Drain
<1>1. TypeOK'
  BY DEF TypeOK, Phases, Outcomes, Replies
<1>2. PhaseInv' /\ RoundInv' /\ LiveInv' /\ ExclusiveInv'
  BY DEF TypeOK, PhaseInv, RoundInv, LiveInv, ExclusiveInv, Round, Active
<1>3. InputsInv' /\ ReplyInv' /\ OutcomeInv'
  BY DEF TypeOK, InputsInv, ReplyInv, OutcomeInv, Round, Succeeded
<1>4. ProgressInv' /\ QuietInv'
  BY DEF TypeOK, PhaseInv, ProgressInv, QuietInv, Round, Active
<1> QED BY <1>1, <1>2, <1>3, <1>4

LEMMA CheckpointPreserves == IInv /\ Checkpoint => IInv'
<1> SUFFICES ASSUME IInv, Checkpoint PROVE IInv'
  OBVIOUS
<1> USE DEF IInv, Checkpoint
<1>1. TypeOK'
  BY DEF TypeOK, Phases, Outcomes, Replies
<1>2. PhaseInv' /\ RoundInv' /\ LiveInv' /\ ExclusiveInv'
  BY DEF TypeOK, PhaseInv, RoundInv, LiveInv, ExclusiveInv, Round, Active
<1>3. InputsInv' /\ ReplyInv' /\ OutcomeInv'
  BY DEF TypeOK, InputsInv, ReplyInv, OutcomeInv, Round, Succeeded
<1>4. ProgressInv' /\ QuietInv'
  BY DEF TypeOK, PhaseInv, ProgressInv, QuietInv, Round, Active
<1> QED BY <1>1, <1>2, <1>3, <1>4
LEMMA WorkerFinishPreserves ==
  ASSUME IInv, NEW s \in Steps, WorkerFinish(s)
  PROVE  IInv'
<1> USE DEF IInv, WorkerFinish
<1>1. TypeOK'
  BY DEF TypeOK, Phases, Outcomes, Replies
<1>2. PhaseInv' /\ RoundInv' /\ LiveInv' /\ ExclusiveInv'
  BY DEF TypeOK, PhaseInv, RoundInv, LiveInv, ExclusiveInv, Round, Active
<1>3. InputsInv' /\ ReplyInv' /\ OutcomeInv'
  BY DEF TypeOK, LiveInv, InputsInv, ReplyInv, OutcomeInv, Round, Active, Succeeded, Replies
<1>4. ProgressInv' /\ QuietInv'
  BY DEF TypeOK, PhaseInv, ProgressInv, QuietInv, Round, Active
<1> QED BY <1>1, <1>2, <1>3, <1>4

LEMMA DecidePreserves == IInv /\ Decide => IInv'
<1> SUFFICES ASSUME IInv, Decide PROVE IInv'
  OBVIOUS
<1> DEFINE b == Blocked(plan, Settled, Succeeded)
           r == Ready(plan, Settled, Succeeded)
           w == Wave(plan, r)
<1>1. plan \in Plans /\ Settled \subseteq Steps /\ Settled # Steps /\ Succeeded \subseteq Settled
  BY DEF IInv, TypeOK, Decide, Settled, Succeeded
<1>2. /\ b \subseteq Steps \ Settled /\ r \subseteq Steps \ Settled /\ b \cap r = {}
      /\ \A s \in r : plan.pred[s] \subseteq Succeeded
  BY <1>1 DEF Blocked, Ready, Classified
<1>3. b \cup r # {}
  BY <1>1, SomethingToDo
<1>4. w \subseteq r /\ (r # {} => w # {}) /\ \A s \in w \cap plan.mut : w = {s}
  BY <1>1, <1>2, WaveShape
<1>5. /\ blocked' = b /\ wave' = w /\ phase' = "launch" /\ phase = "decide" /\ ~cancel
      /\ settled' = [s \in Steps |-> IF s \in b THEN "skipped" ELSE settled[s]]
      /\ shown' = [s \in Steps |-> IF s \in b THEN "skipped" ELSE shown[s]]
      /\ UNCHANGED <<plan, cancel, raised, launched, worker, reply, said, worktree,
                     status, answer, lateStarts>>
  BY DEF Decide
<1> HIDE DEF b, r, w
<1>6. \A s \in b : worker[s] = "idle"
  BY <1>2, <1>5 DEF IInv, TypeOK, PhaseInv, OutcomeInv, Settled, ReplyInv, Replies
<1>7. \A s \in w : worker[s] = "idle" /\ settled[s] = "none"
  BY <1>2, <1>4, <1>5 DEF IInv, TypeOK, PhaseInv, OutcomeInv, Settled, ReplyInv, Replies
<1>8. Succeeded' = Succeeded
  BY <1>2, <1>5, <1>1 DEF Settled, Succeeded
<1>9. TypeOK'
  BY <1>1, <1>2, <1>4, <1>5 DEF IInv, TypeOK, Phases, Outcomes, Replies
<1>10. PhaseInv' /\ RoundInv' /\ LiveInv' /\ ExclusiveInv'
  BY <1>2, <1>4, <1>5, <1>7
     DEF IInv, TypeOK, PhaseInv, RoundInv, LiveInv, ExclusiveInv, Round, Active
<1>11. InputsInv'
  BY <1>2, <1>4, <1>5, <1>8 DEF IInv, TypeOK, InputsInv
<1>12. ReplyInv' /\ OutcomeInv'
  BY <1>1, <1>2, <1>4, <1>5, <1>6, <1>7 DEF IInv, TypeOK, PhaseInv, ReplyInv, OutcomeInv, Round
<1>13. ProgressInv' /\ QuietInv'
  BY <1>3, <1>4, <1>5 DEF ProgressInv, QuietInv, Round
<1> QED BY <1>9, <1>10, <1>11, <1>12, <1>13 DEF IInv

LEMMA SubmitPreserves == IInv /\ Submit => IInv'
<1> SUFFICES ASSUME IInv, Submit PROVE IInv'
  OBVIOUS
<1> USE DEF IInv
<1>1. PICK s \in First(wave) : /\ worker' = [worker EXCEPT ![s] = "running"]
                               /\ launched' = launched \cup {s}
                               /\ wave' = wave \ {s}
  BY DEF Submit
<1>2. /\ phase = "submit" /\ phase' = "launch" /\ lateStarts' \in Nat
      /\ UNCHANGED <<plan, cancel, raised, settled, blocked, reply, said, shown,
                     worktree, status, answer>>
  BY DEF Submit, TypeOK
<1>3. s \in wave /\ s \in Steps /\ worker[s] = "idle"
  BY <1>1, <1>2, FirstIsOne DEF TypeOK, PhaseInv, RoundInv
<1>4. Round' = Round
  BY <1>1, <1>3 DEF Round
<1>5. TypeOK'
  BY <1>1, <1>2, <1>3 DEF TypeOK, Phases
<1>6. PhaseInv' /\ RoundInv' /\ LiveInv' /\ ExclusiveInv'
  BY <1>1, <1>2, <1>3, <1>4
     DEF TypeOK, PhaseInv, RoundInv, LiveInv, ExclusiveInv, Round, Active
<1>7. InputsInv' /\ ReplyInv' /\ OutcomeInv'
  BY <1>1, <1>2, <1>3, <1>4 DEF TypeOK, InputsInv, ReplyInv, OutcomeInv, Round, Succeeded
<1>8. ProgressInv' /\ QuietInv'
  BY <1>2, <1>3, <1>4 DEF ProgressInv, QuietInv, Round
<1> QED BY <1>5, <1>6, <1>7, <1>8

LEMMA SubmitFailsPreserves == IInv /\ SubmitFails => IInv'
<1> SUFFICES ASSUME IInv, SubmitFails PROVE IInv'
  OBVIOUS
<1> USE DEF IInv
<1>1. PICK s \in First(wave) : \/ worker' = worker
                               \/ worker' = [worker EXCEPT ![s] = "running"]
  BY DEF SubmitFails
<1>2. /\ phase = "submit" /\ phase' = "drain" /\ cancel' = TRUE /\ raised' = TRUE
      /\ lateStarts' \in Nat
      /\ UNCHANGED <<plan, settled, wave, blocked, launched, reply, said, shown,
                     worktree, status, answer>>
  BY DEF SubmitFails, TypeOK
<1>3. s \in wave /\ s \in Steps /\ worker[s] = "idle"
  BY <1>1, <1>2, FirstIsOne DEF TypeOK, PhaseInv, RoundInv
<1>4. TypeOK'
  BY <1>1, <1>2, <1>3 DEF TypeOK, Phases
<1>5. PhaseInv' /\ RoundInv' /\ LiveInv' /\ ExclusiveInv'
  BY <1>1, <1>2, <1>3
     DEF TypeOK, PhaseInv, RoundInv, LiveInv, ExclusiveInv, Round, Active
<1>6. InputsInv' /\ ReplyInv' /\ OutcomeInv'
  BY <1>1, <1>2, <1>3 DEF TypeOK, InputsInv, ReplyInv, OutcomeInv, Round, Succeeded
<1>7. ProgressInv' /\ QuietInv'
  BY <1>2 DEF ProgressInv, QuietInv
<1> QED BY <1>4, <1>5, <1>6, <1>7

LEMMA ReceivePreserves ==
  ASSUME IInv, NEW s \in Steps, Receive(s)
  PROVE  IInv'
<1> USE DEF IInv, Receive
<1>1. TypeOK'
  BY DEF TypeOK, Phases, Outcomes, Replies
<1>2. PhaseInv' /\ RoundInv' /\ LiveInv' /\ ExclusiveInv'
  BY DEF TypeOK, PhaseInv, RoundInv, LiveInv, ExclusiveInv, Round, Active
<1>3. InputsInv' /\ ReplyInv' /\ OutcomeInv'
  BY DEF TypeOK, InputsInv, ReplyInv, OutcomeInv, Round, Succeeded
<1>4. ProgressInv' /\ QuietInv'
  BY DEF TypeOK, PhaseInv, ProgressInv, QuietInv, Round, Active
<1> QED BY <1>1, <1>2, <1>3, <1>4

LEMMA SettleWavePreserves == IInv /\ SettleWave => IInv'
<1> SUFFICES ASSUME IInv, SettleWave PROVE IInv'
  OBVIOUS
<1> USE DEF IInv
<1>1. /\ phase = "collect" /\ launched' = {} /\ blocked' = {}
      /\ \A s \in launched : worker[s] = "received"
      /\ settled' = [s \in Steps |-> IF s \in launched THEN reply[s] ELSE settled[s]]
      /\ UNCHANGED <<plan, wave, worker, reply, said, shown, worktree, status, answer,
                     lateStarts>>
  BY DEF SettleWave, WaveIn
<1>2. wave = {} /\ Round = launched
  BY <1>1 DEF PhaseInv, Round
<1>3. ~cancel => launched \cup blocked # {}
  BY <1>1, <1>2 DEF ProgressInv
<1>4. /\ raised' = FALSE /\ cancel' = cancel
      /\ phase' = IF cancel THEN "quiesce" ELSE "decide"
  BY <1>3 DEF SettleWave, TypeOK
<1>5. Round' = {}
  BY <1>1, <1>2 DEF Round
<1>6. Active = {}
  BY <1>1, <1>2 DEF LiveInv, Active
<1>7. \A s \in launched : reply[s] \in Replies
  BY <1>1 DEF TypeOK, ReplyInv
<1>8. Succeeded \subseteq Succeeded'
  BY <1>1, <1>2 DEF RoundInv, Succeeded
<1>9. TypeOK'
  BY <1>1, <1>4, <1>7 DEF TypeOK, Phases, Outcomes
<1>10. PhaseInv' /\ RoundInv' /\ LiveInv' /\ ExclusiveInv'
  BY <1>1, <1>2, <1>4, <1>5, <1>6
     DEF PhaseInv, RoundInv, LiveInv, ExclusiveInv, Active, Round
<1>11. InputsInv' /\ ReplyInv'
  BY <1>1, <1>2, <1>8 DEF TypeOK, InputsInv, ReplyInv
<1>12. OutcomeInv'
  BY <1>1, <1>2, <1>5 DEF TypeOK, OutcomeInv, RoundInv
<1>13. ProgressInv' /\ QuietInv'
  BY <1>4 DEF ProgressInv, QuietInv
<1> QED BY <1>9, <1>10, <1>11, <1>12, <1>13

(* LeftOver keeps what is recorded and settles the rest as never run. *)
LEMMA LeftOverShape ==
  \A out \in [Steps -> Outcomes \cup {"none"}] :
    /\ LeftOver(out) \in [Steps -> Outcomes \cup {"none"}]
    /\ \A s \in Steps : out[s] # "none" => LeftOver(out)[s] = out[s]
    /\ \A s \in Steps : out[s] = "none" => LeftOver(out)[s] \in {"skipped", "cancelled"}
<1> SUFFICES ASSUME NEW out \in [Steps -> Outcomes \cup {"none"}]
             PROVE  /\ LeftOver(out) \in [Steps -> Outcomes \cup {"none"}]
                    /\ \A s \in Steps : out[s] # "none" => LeftOver(out)[s] = out[s]
                    /\ \A s \in Steps : out[s] = "none"
                                          => LeftOver(out)[s] \in {"skipped", "cancelled"}
  OBVIOUS
<1> DEFINE left == {s \in Steps : out[s] = "none"}
           hit == IF \E s \in Steps : out[s] = "cancelled" THEN {} ELSE First(left)
<1>1. hit \subseteq left
  BY FirstIsOne
<1>2. LeftOver(out) = [s \in Steps |-> IF s \in hit THEN "cancelled"
                                       ELSE IF s \in left THEN "skipped" ELSE out[s]]
  BY DEF LeftOver
<1> HIDE DEF hit
<1>3. LeftOver(out) \in [Steps -> Outcomes \cup {"none"}]
  BY <1>2 DEF Outcomes, Replies
<1>4. ASSUME NEW s \in Steps
      PROVE  /\ out[s] # "none" => LeftOver(out)[s] = out[s]
             /\ out[s] = "none" => LeftOver(out)[s] \in {"skipped", "cancelled"}
  BY <1>1, <1>2
<1> QED BY <1>3, <1>4

LEMMA ProjectPreserves == IInv /\ Project => IInv'
<1> SUFFICES ASSUME IInv, Project PROVE IInv'
  OBVIOUS
<1> USE DEF IInv
<1>1. /\ phase = "quiesce" /\ Active = {} /\ phase' \in {"checkpoint", "done"}
      /\ UNCHANGED <<plan, cancel, raised, wave, blocked, launched, worker, reply, said,
                     worktree, lateStarts>>
  BY DEF Project, ShutDown, AfterRun
<1>2. \A out \in [Steps -> Outcomes \cup {"none"}] :
        /\ LeftOver(out) \in [Steps -> Outcomes \cup {"none"}]
        /\ \A s \in Steps : out[s] # "none" => LeftOver(out)[s] = out[s]
        /\ \A s \in Steps : out[s] = "none" => LeftOver(out)[s] \in {"skipped", "cancelled"}
  BY LeftOverShape
<1>3. /\ settled' \in [Steps -> Outcomes \cup {"none"}]
      /\ \A s \in Steps : settled[s] # "none" => settled'[s] = settled[s]
      /\ \A s \in Steps : settled[s] = "none" => settled'[s] \in {"none", "skipped", "cancelled"}
      /\ raised => settled' = settled
      /\ shown' \in [Steps -> Outcomes \cup {"none", "running"}]
  <2>1. CASE raised
    BY <2>1 DEF Project, TypeOK
  <2>2. CASE ~raised
    <3> DEFINE out == IF cancel THEN LeftOver(settled) ELSE settled
    <3>1. /\ settled' = out
          /\ shown' = [s \in Steps |-> IF settled[s] = "none" THEN out[s] ELSE shown[s]]
      BY <2>2 DEF Project
    <3>2. /\ out \in [Steps -> Outcomes \cup {"none"}]
          /\ \A s \in Steps : settled[s] # "none" => out[s] = settled[s]
          /\ \A s \in Steps : settled[s] = "none" => out[s] \in {"none", "skipped", "cancelled"}
      BY <1>2 DEF TypeOK
    <3> HIDE DEF out
    <3>3. shown' \in [Steps -> Outcomes \cup {"none", "running"}]
      BY <3>1, <3>2 DEF TypeOK
    <3> QED BY <2>2, <3>1, <3>2, <3>3
  <2> QED BY <2>1, <2>2
<1>4. /\ status' \in {"none", "completed", "partial", "failed", "cancelled"}
      /\ answer' \in SUBSET Steps
  <2>1. \A out : FinalAnswer(out) \subseteq Steps
    BY PlanType DEF FinalAnswer, TypeOK
  <2>2. \A out : RunStatus(out) \in {"completed", "partial", "failed", "cancelled"}
    BY DEF RunStatus
  <2> QED BY <2>1, <2>2 DEF Project, TypeOK
<1>5. TypeOK'
  BY <1>1, <1>3, <1>4 DEF TypeOK, Phases
<1>6. Succeeded \subseteq Succeeded'
  BY <1>3 DEF Succeeded
<1>7. PhaseInv' /\ RoundInv' /\ LiveInv' /\ ExclusiveInv'
  BY <1>1, <1>3 DEF PhaseInv, RoundInv, LiveInv, ExclusiveInv, Round, Active
<1>8. InputsInv' /\ ReplyInv'
  BY <1>1, <1>6 DEF InputsInv, ReplyInv
<1>9. OutcomeInv'
  BY <1>1, <1>3 DEF TypeOK, OutcomeInv, PhaseInv, ReplyInv, Replies, Round
<1>10. ProgressInv' /\ QuietInv'
  BY <1>1 DEF ProgressInv, QuietInv, Active
<1> QED BY <1>5, <1>7, <1>8, <1>9, <1>10
LEMMA StepPreserves == IInv /\ [Next]_vars => IInv'
<1> SUFFICES ASSUME IInv, [Next]_vars PROVE IInv'
  OBVIOUS
<1>1. CASE Coordinator
  BY <1>1, BeginPreserves, LeaveLoopPreserves, DecidePreserves, AnnouncePreserves,
     RecheckPreserves, SubmitPreserves, SubmitFailsPreserves, EndLaunchPreserves,
     ReceivePreserves, SettleWavePreserves, DrainPreserves, ProjectPreserves,
     CheckpointPreserves DEF Coordinator
<1>2. CASE Stop
  BY <1>2, StopPreserves
<1>3. CASE \E s \in Steps : WorkerFinish(s)
  BY <1>3, WorkerFinishPreserves
<1>4. CASE UNCHANGED vars
  BY <1>4 DEF vars, IInv, TypeOK, PhaseInv, RoundInv, LiveInv, ExclusiveInv, InputsInv,
              ReplyInv, OutcomeInv, ProgressInv, QuietInv, Round, Active, Succeeded
<1> QED BY <1>1, <1>2, <1>3, <1>4 DEF Next, Finished

THEOREM Inductive == Spec => []IInv
  BY InitEstablishes, StepPreserves, PTL DEF Spec

-----------------------------------------------------------------------------
(* What follows from it. *)

(* Every variable of a run keeps its type, for every plan. *)
THEOREM TypeCorrect == Spec => []TypeOK
  BY Inductive, PTL DEF IInv

(* While a Step that may edit the shared worktree runs, it runs alone      *)
(* (the worktree-exclusivity contract of workflow_scheduler.py).           *)
THEOREM MutationIsExclusive == Spec => []MutationExclusive
<1>1. IInv => MutationExclusive
  BY DEF IInv, LiveInv, ExclusiveInv, MutationExclusive, Active
<1> QED BY <1>1, Inductive, PTL

(* A Step runs only after everything it waits for has succeeded, so        *)
(* settled[node_id] in _run_steps is never missing and never a failure.    *)
THEOREM InputsAreReady == Spec => []InputsReady
<1>1. IInv => InputsReady
  BY DEF IInv, InputsInv, InputsReady
<1> QED BY <1>1, Inductive, PTL

(* Nothing is retained, and nothing reported, while a worker is live.      *)
THEOREM RetentionIsQuiescent == Spec => []QuiescentRetention
<1>1. IInv => QuiescentRetention
  BY DEF IInv, QuietInv, QuiescentRetention
<1> QED BY <1>1, Inductive, PTL

(* The coordinator never meets a plan it cannot settle.                    *)
THEOREM CoordinatorNeverStuck == Spec => []NeverStuck
<1>1. IInv => NeverStuck
  BY DEF IInv, PhaseInv, ProgressInv, NeverStuck, Round
<1> QED BY <1>1, Inductive, PTL

(* One step rewrites no outcome and starts no Step again. *)
LEMMA StepKeepsOutcomes ==
  ASSUME IInv, [Next]_vars
  PROVE  OnceStep
<1>1. CASE Decide
  <2>1. Blocked(plan, Settled, Succeeded) \cap Settled = {}
    BY DEF Blocked, Classified
  <2> QED BY <1>1, <2>1 DEF Decide, OnceStep, Settled
<1>2. CASE Submit
  <2>1. PICK s \in First(wave) : worker' = [worker EXCEPT ![s] = "running"]
    BY <1>2 DEF Submit
  <2>2. s \in wave /\ s \in Steps /\ worker[s] = "idle"
    BY <1>2, <2>1, FirstIsOne DEF IInv, TypeOK, PhaseInv, RoundInv, Submit
  <2> QED BY <1>2, <2>1, <2>2 DEF Submit, OnceStep, IInv, TypeOK
<1>3. CASE SubmitFails
  <2>1. PICK s \in First(wave) : \/ worker' = worker
                                 \/ worker' = [worker EXCEPT ![s] = "running"]
    BY <1>3 DEF SubmitFails
  <2>2. s \in wave /\ s \in Steps /\ worker[s] = "idle"
    BY <1>3, <2>1, FirstIsOne DEF IInv, TypeOK, PhaseInv, RoundInv, SubmitFails
  <2> QED BY <1>3, <2>1, <2>2 DEF SubmitFails, OnceStep, IInv, TypeOK
<1>4. CASE \E s \in Steps : Receive(s)
  BY <1>4 DEF Receive, OnceStep, IInv, TypeOK
<1>5. CASE SettleWave
  BY <1>5 DEF SettleWave, OnceStep, IInv, RoundInv, Round
<1>6. CASE Project
  <2>1. worker' = worker
    BY <1>6 DEF Project
  <2>2. \A s \in Steps : settled[s] # "none" => LeftOver(settled)[s] = settled[s]
    BY LeftOverShape DEF IInv, TypeOK
  <2>3. settled' = settled \/ settled' = LeftOver(settled)
    BY <1>6 DEF Project
  <2> QED BY <2>1, <2>2, <2>3 DEF OnceStep
<1>7. CASE \E s \in Steps : WorkerFinish(s)
  <2>1. PICK s \in Steps : /\ worker[s] = "running" /\ settled' = settled
                          /\ worker' = [worker EXCEPT ![s] = "posted"]
    BY <1>7 DEF WorkerFinish
  <2> QED BY <2>1 DEF OnceStep, IInv, TypeOK
<1>8. CASE UNCHANGED <<settled, worker>>
  BY <1>8 DEF OnceStep
<1>9. CASE Begin \/ LeaveLoop \/ Announce \/ Recheck \/ EndLaunch \/ Drain \/ Checkpoint \/ Stop
  BY <1>8, <1>9 DEF Begin, LeaveLoop, Announce, Recheck, EndLaunch, Drain, Checkpoint, Stop
<1>10. CASE UNCHANGED vars
  BY <1>8, <1>10 DEF vars
<1> QED BY <1>1, <1>2, <1>3, <1>4, <1>5, <1>6, <1>7, <1>9, <1>10
        DEF Next, Coordinator, Finished

(* A recorded outcome is final and a Step starts at most once, although    *)
(* the scheduler is asked afresh at every boundary.                        *)
THEOREM StepsRunOnce == Spec => RunsOnce
  BY Inductive, StepKeepsOutcomes, PTL DEF RunsOnce, Spec

-----------------------------------------------------------------------------
(* A second invariant, for what the run reports and when it stops.          *)

(* The run has its outcomes and only its worktree is left to close.        *)
Over == phase \in {"checkpoint", "done"}

(* A Step starts late only out of a round that saw no stop at the second   *)
(* check, and the stop then ends the round.                                *)
LateInv ==
  /\ lateStarts <= 1
  /\ ~cancel \/ phase = "submit" => lateStarts = 0

(* The coordinator goes on to the report with every Step settled or with   *)
(* the stop flag up, and reports them all unless it leaves by an exception.*)
SettledInv ==
  /\ phase = "drain" => cancel
  /\ phase = "quiesce" /\ ~cancel => Settled = Steps
  /\ Over /\ ~raised => Settled = Steps \/ (phase = "done" /\ Settled = {})

(* What a Step waits for explains why it was skipped, until the Steps a    *)
(* stop left over are.                                                     *)
Explained(s) == plan.pred[s] \subseteq Settled /\ ~(plan.pred[s] \subseteq Succeeded)

SkipInv ==
  /\ ~Over => \A s \in Steps : settled[s] = "cancelled" => worker[s] # "idle"
  /\ Over /\ status # "cancelled" /\ ~raised => \A s \in Steps : settled[s] # "cancelled"
  /\ ~Over \/ (status # "cancelled" /\ ~raised) =>
       \A s \in Steps : settled[s] = "skipped" => Explained(s)

(* A Step that never ran is alone in being reported stopped.               *)
StandInInv ==
  \A s, t \in Steps :
    settled[s] = "cancelled" /\ settled[t] = "cancelled" /\ worker[s] = "idle" => s = t

(* The observer was last shown what is recorded, or what was received.     *)
ShownInv ==
  \A s \in Steps :
    /\ settled[s] # "none" => shown[s] = settled[s]
    /\ worker[s] = "received" => shown[s] = reply[s]

(* A Step that succeeded has said something, and a completed run hands on  *)
(* what its terminal branches said.                                        *)
SaidInv ==
  /\ \A s \in Steps : reply[s] = "succeeded" => s \in said
  /\ status = "completed" => answer = plan.term

(* A worktree is open from the beginning of a writable run to _checkpoint. *)
ClosedInv ==
  /\ ~Over => status = "none"
  /\ phase = "start" => worktree = "none"
  /\ phase = "done" => worktree # "open"
  /\ phase \notin {"start", "done"} /\ Writable(plan) => worktree = "open"
  /\ phase = "done" /\ status = "completed" /\ Writable(plan) => worktree = "retained"

RInv == LateInv /\ SettledInv /\ SkipInv /\ StandInInv /\ ShownInv /\ SaidInv /\ ClosedInv
LEMMA ReportInit == Init => RInv
<1> SUFFICES ASSUME Init PROVE RInv
  OBVIOUS
<1>1. ~Over
  BY DEF Init, Over
<1>2. LateInv /\ SettledInv /\ SkipInv /\ ClosedInv
  BY <1>1 DEF Init, LateInv, SettledInv, SkipInv, ClosedInv
<1>3. StandInInv /\ ShownInv /\ SaidInv
  BY DEF Init, StandInInv, ShownInv, SaidInv
<1> QED BY <1>2, <1>3 DEF RInv

(* Only Submit raises lateStarts, and only Recheck, before a stop, leads to it. *)
LEMMA LateStep ==
  ASSUME IInv, LateInv, [Next]_vars
  PROVE  LateInv'
<1> USE DEF LateInv
<1>1. lateStarts \in Nat /\ cancel \in BOOLEAN
  BY DEF IInv, TypeOK
<1>2. CASE Begin \/ LeaveLoop \/ Decide \/ Announce \/ Recheck \/ EndLaunch \/ Drain
           \/ Project \/ Checkpoint \/ Stop \/ UNCHANGED vars
  BY <1>2 DEF Begin, LeaveLoop, Decide, Announce, Recheck, EndLaunch, Drain, Project, AfterRun,
              Checkpoint, Stop, vars
<1>3. CASE (\E s \in Steps : Receive(s)) \/ (\E s \in Steps : WorkerFinish(s))
  BY <1>3 DEF Receive, WorkerFinish
<1>4. CASE Submit
  BY <1>1, <1>4 DEF Submit
<1>5. CASE SubmitFails
  BY <1>1, <1>5 DEF SubmitFails
<1>6. CASE SettleWave
  BY <1>1, <1>6 DEF SettleWave
<1> QED BY <1>2, <1>3, <1>4, <1>5, <1>6 DEF Next, Coordinator, Finished

(* LeftOver settles every Step. *)
LEMMA LeftOverIsAll ==
  ASSUME TypeOK
  PROVE  {s \in Steps : LeftOver(settled)[s] # "none"} = Steps
<1>1. settled \in [Steps -> Outcomes \cup {"none"}]
  BY DEF TypeOK
<1>2. \A s \in Steps : LeftOver(settled)[s] # "none"
  BY <1>1, LeftOverShape
<1> QED BY <1>2

(* A plan has Steps. *)
LEMMA StepsNotEmpty == Steps # {}
  BY StepCountAssumption DEF Steps

(* The report is written with every Step settled.                          *)
LEMMA SettledStep ==
  ASSUME IInv, SettledInv, [Next]_vars
  PROVE  SettledInv'
<1> USE DEF SettledInv
<1>1. cancel \in BOOLEAN /\ raised \in BOOLEAN /\ Settled \subseteq Steps
  BY DEF IInv, TypeOK, Settled
<1>2. CASE Announce \/ Recheck \/ EndLaunch \/ Submit \/ SubmitFails \/ Decide
  BY <1>2 DEF Announce, Recheck, EndLaunch, Submit, SubmitFails, Decide, Over
<1>3. CASE Begin
  <2>1. Settled = {} /\ Settled' = Settled
    BY <1>3 DEF Begin, IInv, PhaseInv, Settled
  <2> QED BY <1>3, <2>1 DEF Begin, Over
<1>4. CASE LeaveLoop \/ Drain \/ Stop \/ Checkpoint \/ UNCHANGED vars
  <2>1. Settled' = Settled
    BY <1>4 DEF LeaveLoop, Drain, Stop, Checkpoint, vars, Settled
  <2> QED BY <1>1, <1>4, <2>1 DEF LeaveLoop, Drain, Stop, Checkpoint, vars, Over
<1>5. CASE (\E s \in Steps : Receive(s)) \/ (\E s \in Steps : WorkerFinish(s))
  <2>1. Settled' = Settled /\ UNCHANGED <<phase, cancel, raised>>
    BY <1>5 DEF Receive, WorkerFinish, Settled
  <2> QED BY <2>1 DEF Over
<1>6. CASE SettleWave
  BY <1>1, <1>6 DEF SettleWave, Over
<1>7. CASE Project
  <2>1. phase = "quiesce" /\ phase' \in {"checkpoint", "done"} /\ cancel' = cancel /\ raised' = raised
    BY <1>7 DEF Project, AfterRun
  <2>2. CASE raised
    BY <2>1, <2>2
  <2>3. CASE ~raised /\ cancel
    <3>1. settled' = LeftOver(settled)
      BY <1>7, <2>3 DEF Project
    <3>2. Settled' = Steps
      BY <3>1, LeftOverIsAll DEF Settled, IInv
    <3> QED BY <2>1, <3>2
  <2>4. CASE ~raised /\ ~cancel
    <3>1. settled' = settled
      BY <1>7, <2>4 DEF Project
    <3>2. Settled' = Steps
      BY <2>1, <2>4, <3>1 DEF Settled
    <3> QED BY <2>1, <3>2
  <2> QED BY <2>2, <2>3, <2>4
<1> QED BY <1>2, <1>3, <1>4, <1>5, <1>6, <1>7 DEF Next, Coordinator, Finished

(* Every outcome is shown when it is recorded or before.                   *)
LEMMA ShownStep ==
  ASSUME IInv, ShownInv, [Next]_vars
  PROVE  ShownInv'
<1>1. settled \in [Steps -> Outcomes \cup {"none"}] /\ shown \in [Steps -> Outcomes \cup {"none", "running"}]
      /\ worker \in [Steps -> {"idle", "running", "posted", "received"}]
      /\ reply \in [Steps -> Replies \cup {"none"}]
  BY DEF IInv, TypeOK
<1>2. CASE Begin \/ LeaveLoop \/ Recheck \/ EndLaunch \/ Drain \/ Checkpoint \/ Stop \/ UNCHANGED vars
  <2>1. UNCHANGED <<settled, shown, worker, reply>>
    BY <1>2 DEF Begin, LeaveLoop, Recheck, EndLaunch, Drain, Checkpoint, Stop, vars
  <2> QED BY <2>1 DEF ShownInv
<1>3. CASE Decide
  <2> DEFINE b == Blocked(plan, Settled, Succeeded)
  <2>1. /\ settled' = [s \in Steps |-> IF s \in b THEN "skipped" ELSE settled[s]]
        /\ shown' = [s \in Steps |-> IF s \in b THEN "skipped" ELSE shown[s]]
        /\ UNCHANGED <<worker, reply>> /\ phase = "decide"
    BY <1>3 DEF Decide
  <2>2. \A s \in b : settled[s] = "none"
    BY DEF Blocked, Classified, Settled
  <2>3. \A s \in b : worker[s] = "idle"
    BY <2>1, <2>2 DEF IInv, TypeOK, PhaseInv, OutcomeInv, ReplyInv, Replies, Blocked, Classified
  <2> HIDE DEF b
  <2> QED BY <2>1, <2>3 DEF ShownInv
<1>4. CASE Announce
  <2>1. PICK f \in First(wave) : shown' = [shown EXCEPT ![f] = "running"]
    BY <1>4 DEF Announce
  <2>2. f \in wave /\ f \in Steps /\ UNCHANGED <<settled, worker, reply>> /\ ~raised
    BY <1>4, <2>1, FirstIsOne DEF Announce, IInv, TypeOK, PhaseInv
  <2>3. settled[f] = "none" /\ worker[f] = "idle"
    BY <2>2 DEF IInv, RoundInv, Round
  <2> QED BY <1>1, <2>1, <2>2, <2>3 DEF ShownInv
<1>5. CASE Submit \/ SubmitFails
  <2>1. PICK f \in First(wave) : worker' = worker \/ worker' = [worker EXCEPT ![f] = "running"]
    BY <1>5 DEF Submit, SubmitFails
  <2>2. UNCHANGED <<settled, shown, reply>>
    BY <1>5 DEF Submit, SubmitFails
  <2> QED BY <1>1, <2>1, <2>2 DEF ShownInv
<1>6. CASE \E s \in Steps : Receive(s)
  <2>1. PICK s \in Steps : /\ s \in launched /\ worker' = [worker EXCEPT ![s] = "received"]
                           /\ shown' = [shown EXCEPT ![s] = reply[s]]
                           /\ UNCHANGED <<settled, reply>>
    BY <1>6 DEF Receive
  <2>2. settled[s] = "none"
    BY <2>1 DEF IInv, RoundInv, Round
  <2> QED BY <1>1, <2>1, <2>2 DEF ShownInv
<1>7. CASE \E s \in Steps : WorkerFinish(s)
  <2>1. PICK s \in Steps, r \in Replies :
          /\ worker[s] = "running" /\ worker' = [worker EXCEPT ![s] = "posted"]
          /\ reply' = [reply EXCEPT ![s] = r] /\ UNCHANGED <<settled, shown>>
    BY <1>7 DEF WorkerFinish
  <2> QED BY <1>1, <2>1 DEF ShownInv
<1>8. CASE SettleWave
  <2>1. /\ \A s \in launched : worker[s] = "received"
        /\ settled' = [s \in Steps |-> IF s \in launched THEN reply[s] ELSE settled[s]]
        /\ UNCHANGED <<worker, reply, shown>>
    BY <1>8 DEF SettleWave, WaveIn
  <2> QED BY <1>1, <2>1 DEF ShownInv
<1>9. CASE Project
  <2>1. phase = "quiesce" /\ UNCHANGED <<worker, reply>>
    BY <1>9 DEF Project
  <2>2. CASE raised
    BY <1>9, <2>1, <2>2 DEF Project, ShownInv
  <2>3. CASE ~raised
    <3> DEFINE out == IF cancel THEN LeftOver(settled) ELSE settled
    <3>1. /\ settled' = out
          /\ shown' = [s \in Steps |-> IF settled[s] = "none" THEN out[s] ELSE shown[s]]
      BY <1>9, <2>3 DEF Project
    <3>2. \A s \in Steps : settled[s] # "none" => out[s] = settled[s]
      BY <1>1, LeftOverShape
    <3> HIDE DEF out
    <3>3. \A s \in Steps : worker[s] = "received" => settled[s] # "none"
      BY <2>1, <2>3 DEF IInv, PhaseInv, OutcomeInv, ReplyInv, Round
    <3> QED BY <2>1, <3>1, <3>2, <3>3 DEF ShownInv
  <2> QED BY <2>2, <2>3
<1> QED BY <1>2, <1>3, <1>4, <1>5, <1>6, <1>7, <1>8, <1>9 DEF Next, Coordinator, Finished

(* What LeftOver does for a Step that is left: it reports the stop. *)
LEMMA LeftOverTells ==
  ASSUME TypeOK, \E s \in Steps : settled[s] = "none"
  PROVE  \E s \in Steps : LeftOver(settled)[s] = "cancelled"
<1> DEFINE left == {s \in Steps : settled[s] = "none"}
           hit == IF \E s \in Steps : settled[s] = "cancelled" THEN {} ELSE First(left)
<1>1. LeftOver(settled) = [s \in Steps |-> IF s \in hit THEN "cancelled"
                                           ELSE IF s \in left THEN "skipped" ELSE settled[s]]
  BY DEF LeftOver
<1>2. CASE \E s \in Steps : settled[s] = "cancelled"
  BY <1>1, <1>2
<1>3. CASE ~ \E s \in Steps : settled[s] = "cancelled"
  <2>1. left # {} /\ left \subseteq Steps
    OBVIOUS
  <2> HIDE DEF left
  <2>2. PICK f \in First(left) : f \in left
    BY <2>1, FirstExists, FirstIsOne
  <2>3. f \in hit /\ f \in Steps
    BY <1>3, <2>1, <2>2
  <2> HIDE DEF hit
  <2> QED BY <1>1, <2>3
<1> QED BY <1>2, <1>3

(* A reason to skip a Step stays one: what it waits for is settled for good. *)
LEMMA SkipStep ==
  ASSUME IInv, SettledInv, SkipInv, [Next]_vars
  PROVE  SkipInv'
<1>1. plan' = plan /\ plan \in Plans
  BY DEF Next, Coordinator, Finished, Begin, LeaveLoop, Decide, Announce, Recheck, Submit,
         SubmitFails, EndLaunch, Receive, SettleWave, Drain, Project, Checkpoint, Stop,
         WorkerFinish, vars, IInv, TypeOK
<1>2. \A s \in Steps : /\ settled[s] # "none" => settled'[s] = settled[s]
                       /\ worker[s] # "idle" => worker'[s] # "idle"
  BY StepKeepsOutcomes DEF OnceStep
<1>3. \A s \in Steps : Explained(s) => Explained(s)'
  <2>1. \A s \in Steps : plan.pred[s] \subseteq Steps
    BY <1>1, PlanType
  <2> QED BY <1>1, <1>2, <2>1 DEF Explained, Settled, Succeeded
<1>4. CASE settled' = settled /\ (~Over' => ~Over) /\ (Over' => Over /\ UNCHANGED <<status, raised>>)
  BY <1>2, <1>3, <1>4 DEF SkipInv
<1>5. CASE LeaveLoop \/ Announce \/ Recheck \/ Submit \/ SubmitFails \/ EndLaunch \/ Drain
           \/ Stop \/ UNCHANGED vars
  <2>1. settled' = settled /\ (~Over' => ~Over) /\ (Over' => Over /\ UNCHANGED <<status, raised>>)
    BY <1>5 DEF LeaveLoop, Announce, Recheck, Submit, SubmitFails, EndLaunch, Drain, Stop, vars, Over
  <2> QED BY <1>4, <2>1
<1>6. CASE (\E s \in Steps : Receive(s)) \/ (\E s \in Steps : WorkerFinish(s))
  <2>1. UNCHANGED <<settled, phase, status, raised>>
    BY <1>6 DEF Receive, WorkerFinish
  <2> QED BY <1>4, <2>1 DEF Over
<1>7. CASE Begin
  <2>1. settled' = settled /\ \A s \in Steps : settled[s] = "none"
    BY <1>7 DEF Begin, IInv, PhaseInv
  <2> QED BY <2>1 DEF SkipInv
<1>8. CASE Decide
  <2> DEFINE b == Blocked(plan, Settled, Succeeded)
  <2>1. ~Over /\ ~Over' /\ worker' = worker
        /\ settled' = [s \in Steps |-> IF s \in b THEN "skipped" ELSE settled[s]]
    BY <1>8 DEF Decide, Over
  <2>2. \A s \in b : s \in Steps /\ Explained(s)
    BY DEF Blocked, Classified, Explained
  <2> HIDE DEF b
  <2> QED BY <1>3, <2>1, <2>2 DEF SkipInv
<1>9. CASE SettleWave
  <2>1. /\ ~Over /\ ~Over' /\ worker' = worker
        /\ settled' = [s \in Steps |-> IF s \in launched THEN reply[s] ELSE settled[s]]
        /\ \A s \in launched : worker[s] = "received"
    BY <1>9 DEF SettleWave, WaveIn, Over
  <2>2. \A s \in launched : s \in Steps /\ reply[s] # "skipped"
    BY DEF IInv, TypeOK, Replies
  <2> QED BY <1>3, <2>1, <2>2 DEF SkipInv
<1>10. CASE Project
  <2>1. /\ ~Over /\ Over' /\ raised' = raised /\ phase = "quiesce"
    BY <1>10 DEF Project, AfterRun, Over
  <2>2. CASE raised
    BY <2>1, <2>2 DEF SkipInv
  <2>3. CASE ~raised
    <3> DEFINE out == IF cancel THEN LeftOver(settled) ELSE settled
    <3>1. settled' = out /\ status' = RunStatus(out)
      BY <1>10, <2>3 DEF Project
    <3>2. (\E s \in Steps : settled[s] = "none") => \E s \in Steps : out[s] = "cancelled"
      <4>1. CASE cancel
        BY <4>1, LeftOverTells DEF IInv
      <4>2. CASE ~cancel
        BY <2>1, <4>2 DEF SettledInv, Settled
      <4> QED BY <4>1, <4>2
    <3> HIDE DEF out
    <3>3. (\E s \in Steps : out[s] = "cancelled") => status' = "cancelled"
      BY <3>1 DEF RunStatus
    <3>4. ASSUME status' # "cancelled"
          PROVE  \A s \in Steps : settled'[s] # "cancelled" /\ settled'[s] = settled[s]
      BY <1>2, <3>1, <3>2, <3>3, <3>4
    <3> QED BY <1>3, <2>1, <3>4 DEF SkipInv
  <2> QED BY <2>2, <2>3
<1>11. CASE Checkpoint
  <2>1. Over /\ Over' /\ settled' = settled
    BY <1>11 DEF Checkpoint, Over
  <2>2. status' # "cancelled" /\ ~raised' => status # "cancelled" /\ ~raised
    BY <1>11 DEF Checkpoint
  <2> QED BY <1>3, <2>1, <2>2 DEF SkipInv
<1> QED BY <1>5, <1>6, <1>7, <1>8, <1>9, <1>10, <1>11 DEF Next, Coordinator, Finished

(* LeftOver reports one stop at most, and only if no Step reports it.      *)
LEMMA LeftOverAddsOne ==
  ASSUME NEW s \in Steps, NEW t \in Steps, settled[s] # "cancelled",
         LeftOver(settled)[s] = "cancelled", LeftOver(settled)[t] = "cancelled"
  PROVE  s = t
<1> DEFINE left == {u \in Steps : settled[u] = "none"}
           hit == IF \E u \in Steps : settled[u] = "cancelled" THEN {} ELSE First(left)
<1>1. LeftOver(settled) = [u \in Steps |-> IF u \in hit THEN "cancelled"
                                           ELSE IF u \in left THEN "skipped" ELSE settled[u]]
  BY DEF LeftOver
<1>2. s \in hit
  <2> HIDE DEF hit
  <2> QED BY <1>1
<1>3. ~ \E u \in Steps : settled[u] = "cancelled"
  BY <1>2
<1>4. t \in hit
  <2> HIDE DEF hit
  <2> QED BY <1>1, <1>3
<1>5. hit = First(left) /\ left \subseteq Steps
  BY <1>3
<1> HIDE DEF left, hit
<1> QED BY <1>2, <1>4, <1>5, FirstIsOne

(* LeftOver alone reports a stop for a Step that never ran.                *)
LEMMA StandInStep ==
  ASSUME IInv, SettledInv, SkipInv, StandInInv, [Next]_vars
  PROVE  StandInInv'
<1>1. \A s \in Steps : worker[s] # "idle" => worker'[s] # "idle"
  BY StepKeepsOutcomes DEF OnceStep
<1>2. CASE ~Over'
  <2>1. SkipInv'
    BY SkipStep
  <2> QED BY <1>2, <2>1 DEF SkipInv, StandInInv
<1>3. CASE settled' = settled
  BY <1>1, <1>3 DEF StandInInv
<1>4. CASE Project
  <2>1. ~Over /\ worker' = worker
    BY <1>4 DEF Project, Over
  <2>2. CASE raised \/ ~cancel
    BY <1>3, <1>4, <2>2 DEF Project
  <2>3. CASE ~raised /\ cancel
    <3>1. settled' = LeftOver(settled)
      BY <1>4, <2>3 DEF Project
    <3>2. \A s \in Steps : worker[s] = "idle" => settled[s] # "cancelled"
      BY <2>1 DEF SkipInv
    <3> QED BY <2>1, <3>1, <3>2, LeftOverAddsOne DEF StandInInv
  <2> QED BY <2>2, <2>3
<1>5. CASE Begin \/ Checkpoint \/ Stop \/ (\E s \in Steps : WorkerFinish(s)) \/ UNCHANGED vars
  BY <1>3, <1>5 DEF Begin, Checkpoint, Stop, WorkerFinish, vars
<1>6. CASE LeaveLoop \/ Decide \/ Announce \/ Recheck \/ Submit \/ SubmitFails \/ EndLaunch
           \/ (\E s \in Steps : Receive(s)) \/ SettleWave \/ Drain
  BY <1>2, <1>6 DEF LeaveLoop, Decide, Announce, Recheck, Submit, SubmitFails, EndLaunch,
                    Receive, SettleWave, Drain, Over
<1> QED BY <1>4, <1>5, <1>6 DEF Next, Coordinator, Finished

(* Nothing can wait for the last Step, so it is terminal. *)
LEMMA LastIsTerminal ==
  ASSUME NEW p \in Plans
  PROVE  StepCount \in p.term
<1>1. \A t \in Steps : p.pred[t] \subseteq 1..(t - 1)
  BY PlansAssumption DEF Runnable
<1>2. StepCount \in Steps /\ \A t \in Steps : StepCount \notin 1..(t - 1)
  BY StepCountAssumption DEF Steps
<1> QED BY <1>1, <1>2, PlansAssumption DEF Runnable

(* When every Step succeeded and spoke, the answer is what the terminal    *)
(* Steps said.                                                             *)
LEMMA WholeAnswer ==
  ASSUME plan \in Plans, NEW out, \A s \in Steps : out[s] = "succeeded", said = Steps
  PROVE  FinalAnswer(out) = plan.term
<1>1. plan.term \subseteq Steps /\ StepCount \in plan.term
  BY PlanType, LastIsTerminal
<1>2. CASE Cardinality(plan.term) > 1
  BY <1>1, <1>2 DEF FinalAnswer
<1>3. CASE ~(Cardinality(plan.term) > 1)
  <2>1. IsFiniteSet(plan.term)
    <3>1. IsFiniteSet(Steps)
      BY StepCountAssumption, FS_Interval DEF Steps
    <3> QED BY <1>1, <3>1, FS_Subset
  <2>2. plan.term = {StepCount}
    <3> SUFFICES ASSUME NEW t \in plan.term, t # StepCount PROVE FALSE
      BY <1>1
    <3>1. IsFiniteSet({t, StepCount}) /\ Cardinality({t, StepCount}) = 2
      <4>1. IsFiniteSet({StepCount}) /\ Cardinality({StepCount}) = 1
        BY FS_Singleton
      <4>2. IsFiniteSet({StepCount} \cup {t}) /\ Cardinality({StepCount} \cup {t}) = 2
        BY <4>1, FS_AddElement
      <4>3. {StepCount} \cup {t} = {t, StepCount}
        OBVIOUS
      <4> QED BY <4>2, <4>3
    <3>2. {t, StepCount} \subseteq plan.term
      BY <1>1
    <3>3. Cardinality({t, StepCount}) <= Cardinality(plan.term) /\ Cardinality(plan.term) \in Nat
      BY <2>1, <3>2, FS_Subset, FS_CardinalityType
    <3> QED BY <1>3, <3>1, <3>3
  <2>3. {s \in said : out[s] = "succeeded"} = Steps
    OBVIOUS
  <2>4. {s \in Steps : \A t \in Steps : t <= s} = {StepCount}
    BY StepCountAssumption DEF Steps
  <2> QED BY <1>3, <2>2, <2>3, <2>4 DEF FinalAnswer
<1> QED BY <1>2, <1>3

(* Project asks for the answer when all who may speak have spoken.         *)
LEMMA SaidStep ==
  ASSUME IInv, SettledInv, SaidInv, [Next]_vars
  PROVE  SaidInv'
<1>1. plan' = plan /\ plan \in Plans
  BY DEF Next, Coordinator, Finished, Begin, LeaveLoop, Decide, Announce, Recheck, Submit,
         SubmitFails, EndLaunch, Receive, SettleWave, Drain, Project, Checkpoint, Stop,
         WorkerFinish, vars, IInv, TypeOK
<1>2. CASE LeaveLoop \/ Decide \/ Announce \/ Recheck \/ Submit \/ SubmitFails \/ EndLaunch
           \/ (\E s \in Steps : Receive(s)) \/ SettleWave \/ Drain \/ Stop \/ UNCHANGED vars
  <2>1. UNCHANGED <<reply, said, status, answer>>
    BY <1>2 DEF LeaveLoop, Decide, Announce, Recheck, Submit, SubmitFails, EndLaunch,
                Receive, SettleWave, Drain, Stop, vars
  <2> QED BY <1>1, <2>1 DEF SaidInv
<1>3. CASE Begin \/ Checkpoint
  <2>1. UNCHANGED <<reply, said>>
    BY <1>3 DEF Begin, Checkpoint
  <2>2. status' = "completed" => status = "completed" /\ answer' = answer
    BY <1>3 DEF Begin, Checkpoint
  <2> QED BY <1>1, <2>1, <2>2 DEF SaidInv
<1>4. CASE \E s \in Steps : WorkerFinish(s)
  <2>1. PICK s \in Steps, r \in Replies :
          /\ reply' = [reply EXCEPT ![s] = r]
          /\ said' = said \cup {s} \/ (r # "succeeded" /\ said' = said)
          /\ UNCHANGED <<status, answer>>
    BY <1>4 DEF WorkerFinish
  <2>2. reply \in [Steps -> Replies \cup {"none"}]
    BY DEF IInv, TypeOK
  <2> QED BY <1>1, <2>1, <2>2 DEF SaidInv
<1>5. CASE Project
  <2>1. phase = "quiesce" /\ UNCHANGED <<reply, said>>
    BY <1>5 DEF Project
  <2>2. ASSUME status' = "completed"
        PROVE  answer' = plan.term
    <3> DEFINE out == IF cancel THEN LeftOver(settled) ELSE settled
    <3>1. ~raised /\ status' = RunStatus(out) /\ answer' = FinalAnswer(out)
      BY <1>5, <2>2 DEF Project
    <3>2. \A s \in Steps : settled[s] = "none" => out[s] # "succeeded"
      BY LeftOverShape DEF IInv, TypeOK
    <3>3. \A s \in Steps : settled[s] # "none" => out[s] = settled[s]
      BY LeftOverShape DEF IInv, TypeOK
    <3> HIDE DEF out
    <3>4. \A s \in Steps : out[s] = "succeeded"
      BY <2>2, <3>1 DEF RunStatus
    <3>5. \A s \in Steps : reply[s] = "succeeded"
      BY <2>1, <3>1, <3>2, <3>3, <3>4 DEF IInv, PhaseInv, OutcomeInv, Round
    <3>6. said = Steps
      BY <3>5 DEF SaidInv, IInv, TypeOK
    <3> QED BY <1>1, <3>1, <3>4, <3>6, WholeAnswer
  <2> QED BY <1>1, <2>1, <2>2 DEF SaidInv
<1> QED BY <1>2, <1>3, <1>4, <1>5 DEF Next, Coordinator, Finished

(* Begin opens the worktree, Checkpoint closes it.                         *)
LEMMA ClosedStep ==
  ASSUME IInv, ClosedInv, [Next]_vars
  PROVE  ClosedInv'
<1> USE DEF ClosedInv, Over, Writable
<1>1. CASE LeaveLoop \/ Decide \/ Announce \/ Recheck \/ Submit \/ SubmitFails \/ EndLaunch
           \/ SettleWave \/ Drain
  BY <1>1 DEF LeaveLoop, Decide, Announce, Recheck, Submit, SubmitFails, EndLaunch, SettleWave, Drain
<1>2. CASE (\E s \in Steps : Receive(s)) \/ (\E s \in Steps : WorkerFinish(s)) \/ Stop
           \/ UNCHANGED vars
  BY <1>2 DEF Receive, WorkerFinish, Stop, vars
<1>3. CASE Begin
  BY <1>3 DEF Begin
<1>4. CASE Project
  BY <1>4 DEF Project, AfterRun
<1>5. CASE Checkpoint
  BY <1>5 DEF Checkpoint
<1> QED BY <1>1, <1>2, <1>3, <1>4, <1>5 DEF Next, Coordinator, Finished

(* The second invariant is inductive on top of the first. *)
THEOREM ReportInductive == Spec => []RInv
<1>1. RInv /\ IInv /\ [Next]_vars => RInv'
  BY LateStep, SettledStep, SkipStep, StandInStep, ShownStep, SaidStep, ClosedStep DEF RInv
<1> QED BY <1>1, ReportInit, Inductive, PTL DEF Spec

(* After a stop at most one Step still starts, and at most one Step that   *)
(* never ran is reported as stopped: LeftOver's, when no other reports it. *)
THEOREM StopIsHeeded == Spec => []StopHeeded
<1>1. RInv => StopHeeded
  BY DEF RInv, LateInv, StandInInv, StopHeeded
<1> QED BY <1>1, ReportInductive, PTL

(* What a run reports is what happened to its Steps, to those it left out, *)
(* to what its terminal branches said and to the edits in its worktree.    *)
THEOREM ReportIsHonest == Spec => []HonestReport
<1>1. ASSUME IInv, RInv
      PROVE  AnswersReported
  <2>1. ASSUME phase \in {"checkpoint", "done"}, ~raised, Settled # {}, NEW s \in Steps
        PROVE  IF worker[s] = "idle" THEN settled[s] \in {"skipped", "cancelled"}
                                     ELSE settled[s] = reply[s]
    <3>1. settled[s] # "none"
      BY <1>1, <2>1 DEF RInv, SettledInv, Over, Settled
    <3>2. Round = {}
      BY <1>1, <2>1 DEF IInv, PhaseInv
    <3> QED BY <1>1, <3>1, <3>2 DEF IInv, OutcomeInv
  <2>2. ASSUME Settled = Steps PROVE shown = settled
    <3>1. \A s \in Steps : shown[s] = settled[s]
      BY <1>1, <2>2 DEF RInv, ShownInv, Settled
    <3> QED BY <1>1, <3>1 DEF IInv, TypeOK
  <2>3. status = "completed" => answer = plan.term
    BY <1>1 DEF RInv, SaidInv
  <2> QED BY <2>1, <2>2, <2>3 DEF AnswersReported
<1>2. ASSUME IInv, RInv
      PROVE  NoSilentSkips
  <2> SUFFICES ASSUME phase = "done", ~raised, Settled # {}, status # "cancelled", NEW s \in Steps
               PROVE  worker[s] = "idle" <=> ~(plan.pred[s] \subseteq Succeeded)
    BY DEF NoSilentSkips
  <2>1. CASE worker[s] = "idle"
    <3>1. settled[s] # "none"
      BY <1>2 DEF RInv, SettledInv, Over, Settled
    <3>2. settled[s] # "cancelled"
      BY <1>2 DEF RInv, SkipInv, Over
    <3>3. settled[s] = "skipped"
      BY <1>2, <2>1, <3>1, <3>2 DEF IInv, OutcomeInv
    <3> QED BY <1>2, <2>1, <3>3 DEF RInv, SkipInv, Explained
  <2>2. CASE worker[s] # "idle"
    BY <1>2, <2>2 DEF IInv, InputsInv
  <2> QED BY <2>1, <2>2
<1>3. RInv => WorktreeClosed
  BY DEF RInv, ClosedInv, WorktreeClosed
<1> QED BY <1>1, <1>2, <1>3, Inductive, ReportInductive, PTL DEF HonestReport

-----------------------------------------------------------------------------
(* Workflow implements DagRun. *)

LEMMA StepsAgree == Dag!Steps = Steps
  BY DEF Dag!Steps, Steps

LEMMA DagStutter ==
  ASSUME UNCHANGED <<plan, cancel, settled, worker, reply>>
  PROVE  UNCHANGED Dag!dagVars
  BY DEF Dag!dagVars, RunState

(* Outside a round, DagRun sees the coordinator's own records. *)
LEMMA RecordsAreTheState ==
  ASSUME IInv, Round = {}
  PROVE  /\ RunState = [s \in Steps |-> IF settled[s] = "none" THEN "waiting" ELSE settled[s]]
         /\ Dag!Ended = Settled
         /\ Dag!Good = Succeeded
         /\ Dag!Running = {}
<1>1. \A s \in Steps : RunState[s] = IF settled[s] = "none" THEN "waiting" ELSE settled[s]
  BY DEF IInv, OutcomeInv, ReplyInv, RunState
<1>2. RunState = [s \in Steps |-> IF settled[s] = "none" THEN "waiting" ELSE settled[s]]
  BY <1>1 DEF RunState
<1>3. \A s \in Steps : settled[s] \notin {"waiting", "running"}
  BY DEF IInv, TypeOK, Outcomes, Replies
<1>4. Dag!Ended = Settled /\ Dag!Good = Succeeded /\ Dag!Running = {}
  BY <1>1, <1>3, StepsAgree DEF Dag!Ended, Dag!Good, Dag!Running, Settled, Succeeded
<1> QED BY <1>2, <1>4
(* A worker's answer ends its Step at once, long before it is recorded. *)
LEMMA FinishIsEndStep ==
  ASSUME IInv, NEW s \in Steps, WorkerFinish(s)
  PROVE  Dag!EndStep(s)
<1>1. worker[s] = "running" /\ worker' = [worker EXCEPT ![s] = "posted"]
  BY DEF WorkerFinish
<1>2. settled[s] = "none" /\ UNCHANGED <<plan, cancel, settled>>
  BY <1>1 DEF WorkerFinish, IInv, LiveInv, RoundInv, Active
<1>3. PICK r \in Replies : (r = "cancelled" => cancel) /\ reply' = [reply EXCEPT ![s] = r]
  BY DEF WorkerFinish
<1>4. RunState[s] = "running"
  BY <1>1, <1>2 DEF RunState
<1>5. RunState' = [RunState EXCEPT ![s] = r]
  BY <1>1, <1>2, <1>3 DEF RunState, IInv, TypeOK
<1> QED BY <1>2, <1>3, <1>4, <1>5 DEF Dag!EndStep, Replies

(* Submitting a Step of the wave starts it; nothing that runs then, nor    *)
(* the Step itself, may edit unless the Step is alone.                     *)
LEMMA SubmitStarts ==
  ASSUME IInv, phase = "submit", NEW s \in First(wave),
         worker' = [worker EXCEPT ![s] = "running"],
         UNCHANGED <<plan, settled, reply>>
  PROVE  /\ RunState[s] = "waiting"
         /\ plan.pred[s] \subseteq Dag!Good
         /\ Dag!Running # {} => plan.mut \cap (Dag!Running \cup {s}) = {}
         /\ RunState' = [RunState EXCEPT ![s] = "running"]
<1>1. s \in wave /\ s \in Steps /\ worker[s] = "idle" /\ settled[s] = "none"
  BY FirstIsOne DEF IInv, TypeOK, PhaseInv, RoundInv, Round
<1>2. RunState[s] = "waiting"
  BY <1>1 DEF RunState
<1>3. Succeeded \subseteq Dag!Good
  BY StepsAgree DEF Succeeded, Dag!Good, RunState
<1>4. plan.pred[s] \subseteq Succeeded
  BY <1>1 DEF IInv, InputsInv
<1>5. Dag!Running \subseteq Active
  <2> SUFFICES ASSUME NEW t \in Dag!Running PROVE t \in Active
    OBVIOUS
  <2>1. t \in Steps /\ RunState[t] = "running"
    BY StepsAgree DEF Dag!Running
  <2>2. settled[t] # "running" /\ reply[t] # "running"
    BY <2>1 DEF IInv, TypeOK, Outcomes, Replies
  <2> QED BY <2>1, <2>2 DEF RunState, Active
<1>6. Active \cup {s} \subseteq Round /\ s \notin Active
  BY <1>1 DEF IInv, LiveInv, Round, Active
<1>7. Dag!Running # {} => plan.mut \cap (Dag!Running \cup {s}) = {}
  BY <1>5, <1>6 DEF IInv, ExclusiveInv
<1>8. RunState' = [RunState EXCEPT ![s] = "running"]
  BY <1>1 DEF RunState, IInv, TypeOK
<1> QED BY <1>2, <1>3, <1>4, <1>7, <1>8

LEMMA DecideIsSkip ==
  ASSUME IInv, Decide
  PROVE  Dag!SkipBlocked(Blocked(plan, Settled, Succeeded))
<1> DEFINE b == Blocked(plan, Settled, Succeeded)
<1>1. Round = {} /\ Round' \cap b = {}
  BY DEF IInv, PhaseInv, RoundInv, Decide, Round, Blocked, Classified, Settled, Wave,
         ReadOnlyPrefix, First, Ready
<1>2. /\ settled' = [s \in Steps |-> IF s \in b THEN "skipped" ELSE settled[s]]
      /\ UNCHANGED <<plan, cancel, worker, reply>>
  BY DEF Decide
<1>3. /\ RunState = [s \in Steps |-> IF settled[s] = "none" THEN "waiting" ELSE settled[s]]
      /\ Dag!Ended = Settled /\ Dag!Good = Succeeded
  BY <1>1, RecordsAreTheState
<1>4. \A s \in b : /\ s \in Steps /\ settled[s] = "none"
                   /\ plan.pred[s] \subseteq Settled /\ ~(plan.pred[s] \subseteq Succeeded)
  BY DEF Blocked, Classified, Settled
<1>5. \A s \in Steps : RunState'[s] = IF s \in b THEN "skipped" ELSE RunState[s]
  BY <1>2, <1>4 DEF RunState
<1>6. RunState' = [s \in Steps |-> IF s \in b THEN "skipped" ELSE RunState[s]]
  <2>1. RunState' = [s \in Steps |-> RunState'[s]]
    BY DEF RunState
  <2> QED BY <1>5, <2>1
<1> HIDE DEF b
<1>7. \A s \in b : RunState[s] = "waiting"
  BY <1>3, <1>4
<1> QED BY <1>2, <1>3, <1>4, <1>6, <1>7, StepsAgree DEF Dag!SkipBlocked, b

LEMMA ProjectIsAbandon ==
  ASSUME IInv, Project, ~raised, cancel
  PROVE  Dag!AbandonRest
<1> DEFINE left == {s \in Steps : settled[s] = "none"}
           hit == IF \E s \in Steps : settled[s] = "cancelled" THEN {} ELSE First(left)
<1>1. Round = {} /\ phase = "quiesce"
  BY DEF Project, IInv, PhaseInv
<1>2. /\ RunState = [s \in Steps |-> IF settled[s] = "none" THEN "waiting" ELSE settled[s]]
      /\ Dag!Ended = Settled /\ Dag!Running = {}
  BY <1>1, RecordsAreTheState
<1>3. settled' = LeftOver(settled) /\ UNCHANGED <<plan, cancel, worker, reply>>
  BY DEF Project
<1>4. LeftOver(settled) = [s \in Steps |-> IF s \in hit THEN "cancelled"
                                           ELSE IF s \in left THEN "skipped" ELSE settled[s]]
  BY DEF LeftOver
<1>5. left = Steps \ Settled /\ hit \subseteq left
  BY FirstIsOne DEF Settled
<1>6. IF \E s \in Settled : settled[s] = "cancelled"
      THEN hit = {}
      ELSE left # {} => \E h \in left : hit = {h}
  <2>1. (\E s \in Settled : settled[s] = "cancelled") <=> \E s \in Steps : settled[s] = "cancelled"
    BY DEF Settled
  <2>2. left # {} => \E h \in left : First(left) = {h}
    <3> SUFFICES ASSUME left # {} PROVE \E h \in left : First(left) = {h}
      OBVIOUS
    <3>1. left \subseteq Steps
      OBVIOUS
    <3> HIDE DEF left
    <3>2. PICK h \in First(left) : TRUE
      BY <3>1, FirstExists
    <3>3. First(left) = {h} /\ h \in left
      BY <3>1, <3>2, FirstIsOne
    <3> QED BY <3>3
  <2> QED BY <2>1, <2>2
<1> HIDE DEF hit
<1>7. \A s \in Steps : settled'[s] # "none"
  BY <1>3, <1>4, <1>5
<1>8. \A s \in Steps : RunState'[s] = settled'[s]
  BY <1>7 DEF RunState
<1>9. \A s \in Settled : RunState[s] = settled[s]
  BY <1>2 DEF Settled
<1>10. \A s \in Steps : RunState'[s] = IF s \in hit THEN "cancelled"
                                       ELSE IF s \in Settled THEN RunState[s] ELSE "skipped"
  BY <1>3, <1>4, <1>5, <1>8, <1>9
<1>11. RunState' = [s \in Steps |-> IF s \in hit THEN "cancelled"
                                    ELSE IF s \in Settled THEN RunState[s] ELSE "skipped"]
  <2>1. RunState' = [s \in Steps |-> RunState'[s]]
    BY DEF RunState
  <2> QED BY <1>10, <2>1
<1>12. hit \in SUBSET (Steps \ Settled)
  BY <1>5
<1>13. IF \E s \in Settled : RunState[s] = "cancelled"
       THEN hit = {}
       ELSE Steps \ Settled # {} => \E h \in Steps \ Settled : hit = {h}
  BY <1>5, <1>6, <1>9
<1> HIDE DEF left
<1> QED BY <1>2, <1>3, <1>11, <1>12, <1>13, StepsAgree DEF Dag!AbandonRest
(* The remaining actions leave what DagRun speaks of alone. *)
LEMMA QuietActions ==
  ASSUME IInv,
         \/ Begin \/ LeaveLoop \/ Announce \/ Recheck \/ EndLaunch \/ Drain \/ Checkpoint
         \/ UNCHANGED vars
  PROVE  UNCHANGED Dag!dagVars
<1>1. UNCHANGED <<plan, cancel, settled, worker, reply>>
  BY DEF Begin, LeaveLoop, Announce, Recheck, EndLaunch, Drain, Checkpoint, vars
<1> QED BY <1>1, DagStutter

LEMMA ReceiveIsStutter ==
  ASSUME IInv, NEW s \in Steps, Receive(s)
  PROVE  UNCHANGED Dag!dagVars
<1>1. /\ UNCHANGED <<plan, cancel, settled, reply>>
      /\ worker[s] = "posted" /\ worker' = [worker EXCEPT ![s] = "received"]
  BY DEF Receive
<1>2. \A t \in Steps : (worker'[t] = "idle" <=> worker[t] = "idle")
                       /\ (worker'[t] = "running" <=> worker[t] = "running")
  BY <1>1 DEF IInv, TypeOK
<1> QED BY <1>1, <1>2 DEF RunState, Dag!dagVars

LEMMA SettleIsStutter ==
  ASSUME IInv, SettleWave
  PROVE  UNCHANGED Dag!dagVars
<1>1. /\ UNCHANGED <<plan, worker, reply>> /\ phase = "collect"
      /\ \A s \in launched : worker[s] = "received"
      /\ settled' = [s \in Steps |-> IF s \in launched THEN reply[s] ELSE settled[s]]
  BY DEF SettleWave, WaveIn
<1>2. cancel' = cancel
  BY <1>1 DEF SettleWave, IInv, TypeOK, PhaseInv, ProgressInv, Round
<1>3. \A s \in launched : settled[s] = "none" /\ reply[s] # "none"
  BY <1>1 DEF IInv, TypeOK, RoundInv, ReplyInv, Round
<1>4. \A s \in Steps : RunState'[s] = RunState[s]
  BY <1>1, <1>3 DEF RunState
<1>5. RunState' = RunState
  BY <1>4 DEF RunState
<1> QED BY <1>1, <1>2, <1>5 DEF Dag!dagVars

LEMMA StepImplementsDag ==
  ASSUME IInv, [Next]_vars
  PROVE  [Dag!DagNext]_(Dag!dagVars)
<1>1. CASE Stop
  <2>1. cancel' = TRUE /\ UNCHANGED <<plan, settled, worker, reply>>
    BY <1>1 DEF Stop
  <2>2. Dag!RequestStop
    BY <2>1 DEF Dag!RequestStop, RunState
  <2> QED BY <2>2 DEF Dag!DagNext
<1>2. CASE \E s \in Steps : WorkerFinish(s)
  BY <1>2, FinishIsEndStep, StepsAgree DEF Dag!DagNext
<1>3. CASE Decide
  <2>1. Blocked(plan, Settled, Succeeded) \in SUBSET Steps
    BY DEF Blocked, Classified
  <2> QED BY <1>3, <2>1, DecideIsSkip, StepsAgree DEF Dag!DagNext
<1>4. CASE Submit
  <2>1. PICK s \in First(wave) : worker' = [worker EXCEPT ![s] = "running"]
    BY <1>4 DEF Submit
  <2>2. s \in Steps
    BY FirstIsOne DEF IInv, TypeOK
  <2>3. phase = "submit" /\ UNCHANGED <<plan, cancel, settled, reply>>
    BY <1>4 DEF Submit
  <2>4. Dag!StartStep(s)
    BY <2>1, <2>3, SubmitStarts DEF Dag!StartStep
  <2> QED BY <2>2, <2>4, StepsAgree DEF Dag!DagNext
<1>5. CASE SubmitFails
  <2>1. PICK s \in First(wave) : \/ worker' = worker
                                 \/ worker' = [worker EXCEPT ![s] = "running"]
    BY <1>5 DEF SubmitFails
  <2>2. s \in Steps
    BY FirstIsOne DEF IInv, TypeOK
  <2>3. phase = "submit" /\ cancel' = TRUE /\ UNCHANGED <<plan, settled, reply>>
    BY <1>5 DEF SubmitFails
  <2>4. CASE worker' = worker
    <3>1. Dag!RequestStop
      BY <2>3, <2>4 DEF Dag!RequestStop, RunState
    <3> QED BY <3>1 DEF Dag!DagNext
  <2>5. CASE worker' = [worker EXCEPT ![s] = "running"]
    <3>1. Dag!StartLost(s)
      BY <2>3, <2>5, SubmitStarts DEF Dag!StartLost
    <3> QED BY <2>2, <3>1, StepsAgree DEF Dag!DagNext
  <2> QED BY <2>1, <2>4, <2>5
<1>6. CASE Project
  <2>1. CASE ~raised /\ cancel
    BY <1>6, <2>1, ProjectIsAbandon DEF Dag!DagNext
  <2>2. CASE raised \/ ~cancel
    <3>1. UNCHANGED <<plan, cancel, settled, worker, reply>>
      BY <1>6, <2>2 DEF Project
    <3> QED BY <3>1, DagStutter
  <2> QED BY <2>1, <2>2
<1>7. CASE \E s \in Steps : Receive(s)
  BY <1>7, ReceiveIsStutter
<1>8. CASE SettleWave
  BY <1>8, SettleIsStutter
<1>9. CASE \/ Begin \/ LeaveLoop \/ Announce \/ Recheck \/ EndLaunch \/ Drain \/ Checkpoint
           \/ UNCHANGED vars
  BY <1>9, QuietActions
<1> QED BY <1>1, <1>2, <1>3, <1>4, <1>5, <1>6, <1>7, <1>8, <1>9
        DEF Next, Coordinator, Finished

(* Waves, completion queue, stop checks and the wait for the pool together *)
(* implement the promise of DagRun, whatever the plan.                     *)
THEOREM WorkflowImplementsDag == Spec => ImplementsDag
<1>1. Init => Dag!DagInit
  BY StepsAgree DEF Init, Dag!DagInit, RunState
<1>2. Spec => [][Dag!DagNext]_(Dag!dagVars)
  BY Inductive, StepImplementsDag, PTL DEF Spec
<1> QED BY <1>1, <1>2, PTL DEF Spec, ImplementsDag, Dag!DagSpec
=============================================================================
