------------------------------- MODULE Consent -------------------------------
(***************************************************************************)
(* The two questions a turn may put to a person while its tool thread      *)
(* waits, a plan to review and a change to approve, against Stop.          *)
(*   aura/bridge/plan_review_proxy.py        aura/bridge/approval_proxy.py *)
(*   aura/gui/plan_review_controller.py      the card in the chat          *)
(*   aura/conversation/plan_review.py        what a review authorises      *)
(*   aura/bridge/qt_bridge.py                send, request_cancel          *)
(*                                                                         *)
(* The tool thread makes one request at a time.  The GUI thread runs one   *)
(* handler at a time and takes posted events in order; a dialog runs an    *)
(* event loop of its own.  Stop is one handler of the GUI thread, but the  *)
(* tool thread goes on between the places it looks at.                     *)
(*                                                                         *)
(* A definition named X_Something beside X is X with a plausible defect,   *)
(* used by the mutation runs of PROJECT.json only.                         *)
(***************************************************************************)
EXTENDS Integers, Sequences

CONSTANTS MaxAsks,    \* bound: requests of all turns
          MaxTurns,   \* bound: turns
          MaxPosted   \* bound: events a Stop finds in the queue

ASSUME MaxAsksAssumption  == MaxAsks \in Nat
ASSUME MaxTurnsAssumption == MaxTurns \in Nat \ {0}
ASSUME MaxPostedAssumption == MaxPosted \in Nat

Asks  == 1..MaxAsks
NoAsk == 0

VARIABLES
  \* the turn
  turn,
  required,    \* PlanReviewState._required, frozen by send
  approved,    \* PlanReviewState._approved
  rejectAll,   \* _reject_all_for_turn
  cancel,      \* the turn's cancel event
  \* the tool thread
  worker,
  kind,        \* what it is about to ask, or asks: a plan, or a change of some kind
  ask,         \* the newest request
  \* the proxies
  slot,        \* PlanReviewProxy._pending
  verdict,     \* _PendingReview.decision: what the event was set with
  always,      \* _approve_all_session
  answer,      \* ApprovalProxy._last_decision, once the blocking call is over
  \* the GUI thread
  queue,       \* events posted to it
  stopping,    \* where request_cancel is
  dialog,      \* _active_dialog
  card,        \* PlanReviewController._active_card
  \* history
  first,       \* the newest request before this turn
  never,       \* the person rejected every further write of this turn
  yes,         \* what a person said yes to: plans and changes
  landed,      \* changes that were made
  authority    \* those that had a plan of their turn, or needed none

turnVars   == <<turn, required, approved, rejectAll>>
workerVars == <<worker, kind, ask>>
reviewVars == <<slot, verdict>>
diffVars   == <<always, answer>>
guiVars    == <<queue, dialog, card>>
ghostTurn  == <<first, never>>
history    == <<landed, authority>>
vars == <<turnVars, cancel, workerVars, reviewVars, diffVars, guiVars, stopping, ghostTurn, yes,
          history>>

Answers == {"approve", "approve_all", "reject", "reject_all"}
(* WRITE_TOOLS; discard_agent_change_set; a consequential MCP or dynamic   *)
(* tool.                                                                   *)
Changes == {"write", "discard", "tool"}
Events  == {"open", "card", "reject"} \X Asks

TypeOK ==
  /\ turn \in 1..MaxTurns
  /\ required \in BOOLEAN /\ approved \in BOOLEAN
  /\ rejectAll \in BOOLEAN /\ cancel \in BOOLEAN
  /\ worker \in {"idle", "admitted", "registered", "waiting", "over"}
  /\ kind \in {"plan"} \cup Changes
  /\ ask \in 0..MaxAsks
  /\ slot \in {NoAsk, ask}
  /\ verdict \in {"none", "yes", "no"}
  /\ always \in BOOLEAN
  /\ answer \in Answers \cup {"none"}
  /\ queue \in Seq(Events) /\ Len(queue) <= MaxPosted + 2
  /\ stopping \in {"no", "dialog", "review"}
  /\ dialog \in {NoAsk, ask}
  /\ card \in {NoAsk} \cup Asks
  /\ first \in 0..ask /\ never \in BOOLEAN
  /\ yes \subseteq {"plan", "diff"} \X Asks /\ landed \subseteq Asks
  /\ authority \subseteq landed

Init ==
  /\ turn = 1
  /\ required \in BOOLEAN /\ approved = FALSE
  /\ rejectAll = FALSE /\ cancel = FALSE
  /\ worker = "idle" /\ kind = "plan" /\ ask = 0
  /\ slot = NoAsk /\ verdict = "none"
  /\ always \in BOOLEAN /\ answer = "none"
  /\ queue = <<>> /\ stopping = "no"
  /\ dialog = NoAsk /\ card = NoAsk
  /\ first = 0 /\ never = FALSE
  /\ yes = {} /\ landed = {} /\ authority = {}

Becomes(w) == worker' = w /\ UNCHANGED <<kind, ask>>
Post(e)    == queue' = Append(queue, e)
-----------------------------------------------------------------------------
(* The tool thread. *)

(* A call is admitted; nothing looks at the cancel event after this.  A    *)
(* plan can be put to review only where a review is required.              *)
Claim ==
  /\ worker = "idle"
  /\ ~cancel
  /\ ask < MaxAsks
  /\ worker' = "admitted" /\ ask' = ask + 1
  /\ kind' \in IF required THEN {"plan"} \cup Changes ELSE Changes
  /\ UNCHANGED <<turnVars, cancel, reviewVars, diffVars, guiVars, stopping, ghostTurn, yes, history>>

(* PlanReviewState.blocks, for a call that changes something.              *)
Blocks == required /\ ~approved

(* Refused without asking: the plan is still to be reviewed, the person    *)
(* rejected every write of the turn, or the call itself is invalid.        *)
Refuse ==
  /\ worker = "admitted"
  /\ Becomes("idle")
  /\ UNCHANGED <<turnVars, cancel, reviewVars, diffVars, guiVars, stopping, ghostTurn, yes, history>>

(* The change is made. *)
Lands ==
  /\ landed' = landed \cup {ask}
  /\ authority' = IF required => \E p \in yes : p[1] = "plan" /\ p[2] > first
                  THEN authority \cup {ask} ELSE authority

(* "Reject all" keeps only the write tools from asking again.              *)
MayChange ==
  /\ worker = "admitted" /\ kind \in Changes
  /\ ~Blocks
  /\ kind = "write" => ~rejectAll

(* request_approval: the whole session is approved ... *)
AutoApprove ==
  /\ MayChange
  /\ always
  /\ Lands
  /\ yes' = yes \cup {<<"diff", ask>>}
  /\ Becomes("idle")
  /\ UNCHANGED <<turnVars, cancel, reviewVars, diffVars, guiVars, stopping, ghostTurn>>

(* ... or the GUI thread is asked to open a dialog, and waited for.        *)
RequestApproval ==
  /\ MayChange
  /\ ~always
  /\ Post(<<"open", ask>>)
  /\ answer' = "none"
  /\ Becomes("waiting")
  /\ UNCHANGED <<turnVars, cancel, reviewVars, always, dialog, card, stopping, ghostTurn, yes, history>>

(* request_review takes the slot, then tells the GUI thread ... *)
RequestReview ==
  /\ worker = "admitted"
  /\ kind = "plan"
  /\ slot' = ask /\ verdict' = "none"
  /\ Becomes("registered")
  /\ UNCHANGED <<turnVars, cancel, diffVars, guiVars, stopping, ghostTurn, yes, history>>

EmitReview ==
  /\ worker = "registered"
  /\ Post(<<"card", ask>>)
  /\ Becomes("waiting")
  /\ UNCHANGED <<turnVars, cancel, reviewVars, diffVars, dialog, card, stopping, ghostTurn, yes, history>>

ReviewReturns_KeepsSlot ==
  /\ worker = "waiting" /\ kind = "plan"
  /\ verdict # "none"
  /\ approved' = (approved \/ verdict = "yes")
  /\ Becomes("idle")
  /\ UNCHANGED <<turn, required, rejectAll, cancel, reviewVars, diffVars, guiVars, stopping,
                 ghostTurn, yes, history>>

(* ... and waits for the event, without a timeout.                         *)
ReviewReturns ==
  /\ worker = "waiting" /\ kind = "plan"
  /\ verdict # "none"
  /\ approved' = (approved \/ verdict = "yes")
  /\ slot' = NoAsk
  /\ Becomes("idle")
  /\ UNCHANGED <<turn, required, rejectAll, cancel, verdict, diffVars, guiVars, stopping, ghostTurn,
                 yes, history>>

(* The dialog is over: an approved change is made, whatever happened since.*)
(* The result of an MCP or dynamic tool does not carry "reject all".       *)
ApprovalReturns ==
  /\ worker = "waiting" /\ kind \in Changes
  /\ answer # "none"
  /\ IF answer \in {"approve", "approve_all"} THEN Lands ELSE UNCHANGED history
  /\ rejectAll' = (rejectAll \/ (answer = "reject_all" /\ kind # "tool"))
  /\ Becomes("idle")
  /\ UNCHANGED <<turn, required, approved, cancel, reviewVars, diffVars, guiVars, stopping, ghostTurn, yes>>

(* The model is done, or the loop sees the stop.                           *)
TurnEnds ==
  /\ worker = "idle"
  /\ Becomes("over")
  /\ UNCHANGED <<turnVars, cancel, reviewVars, diffVars, guiVars, stopping, ghostTurn, yes, history>>
-----------------------------------------------------------------------------
(* The GUI thread: one handler at a time. *)

Idle == stopping = "no"

(* send: a new cancel event, a new plan review, no rejection; the toolbar  *)
(* has had its say about approving everything.                             *)
Send ==
  /\ Idle
  /\ worker = "over"
  /\ turn < MaxTurns
  /\ turn' = turn + 1
  /\ required' \in BOOLEAN
  /\ approved' = FALSE /\ rejectAll' = FALSE /\ cancel' = FALSE
  /\ always' \in BOOLEAN
  /\ first' = ask /\ never' = FALSE
  /\ Becomes("idle")
  /\ UNCHANGED <<reviewVars, answer, guiVars, stopping, yes, history>>

Close(how) ==
  /\ answer' = how
  /\ dialog' = NoAsk
  /\ always' = (always \/ how = "approve_all")

(* Posted events: a dialog opens, a card is added to the chat and becomes  *)
(* the active one, or a dialog is told to reject itself.                   *)
TakeEvent ==
  /\ Idle
  /\ queue # <<>>
  /\ queue' = Tail(queue)
  /\ LET what == Head(queue)[1]
         id   == Head(queue)[2]
     IN  \/ what = "open" /\ dialog' = id /\ UNCHANGED <<card, diffVars>>
         \/ what = "card" /\ card' = id /\ UNCHANGED <<dialog, diffVars>>
         \/ what = "reject" /\ dialog = id /\ Close("reject") /\ UNCHANGED card
         \/ what = "reject" /\ dialog # id /\ UNCHANGED <<dialog, card, diffVars>>
  /\ UNCHANGED <<turnVars, cancel, workerVars, reviewVars, stopping, ghostTurn, yes, history>>

(* The person answers the dialog. *)
AnswerDialog ==
  /\ Idle
  /\ dialog # NoAsk
  /\ \E how \in Answers :
       /\ Close(how)
       /\ yes' = IF how \in {"approve", "approve_all"} THEN yes \cup {<<"diff", dialog>>}
                 ELSE yes
       /\ never' = (never \/ (how = "reject_all" /\ kind # "tool"))
  /\ UNCHANGED <<turnVars, cancel, workerVars, reviewVars, queue, card, stopping, first, history>>

Resolve_AnySlot(id, how) ==
  verdict' = IF slot # NoAsk THEN how ELSE verdict

(* _resolve: only the review that is pending, whatever card was clicked.   *)
Resolve(id, how) ==
  verdict' = IF slot # NoAsk /\ slot = id THEN how ELSE verdict

(* The person clicks Implement or Cancel on the active card, which stays   *)
(* active until then even when a Stop has resolved its review.  A modal    *)
(* dialog is in the way of the chat.                                       *)
AnswerCard ==
  /\ Idle
  /\ card # NoAsk /\ dialog = NoAsk
  /\ \E how \in {"yes", "no"} :
       /\ Resolve(card, how)
       /\ yes' = IF how = "yes" THEN yes \cup {<<"plan", card>>} ELSE yes
  /\ card' = NoAsk
  /\ UNCHANGED <<turnVars, cancel, workerVars, slot, diffVars, queue, dialog, stopping, ghostTurn,
                 history>>

(* request_cancel, from the composer or the phone: set the event ... *)
Stop ==
  /\ Idle
  /\ worker # "over"
  /\ Len(queue) <= MaxPosted
  /\ cancel' = TRUE
  /\ stopping' = "dialog"
  /\ UNCHANGED <<turnVars, workerVars, reviewVars, diffVars, guiVars, ghostTurn, yes, history>>

StopDialog_Skipped ==
  /\ stopping = "dialog"
  /\ stopping' = "review"
  /\ UNCHANGED <<turnVars, cancel, workerVars, reviewVars, diffVars, guiVars, ghostTurn, yes, history>>

(* ... cancel_active_dialog posts a rejection to the dialog there is ...   *)
StopDialog ==
  /\ stopping = "dialog"
  /\ IF dialog # NoAsk THEN Post(<<"reject", dialog>>) ELSE UNCHANGED queue
  /\ stopping' = "review"
  /\ UNCHANGED <<turnVars, cancel, workerVars, reviewVars, diffVars, dialog, card, ghostTurn, yes,
                 history>>

(* ... and cancel_active resolves the review there is.                     *)
StopReview ==
  /\ stopping = "review"
  /\ verdict' = IF slot # NoAsk THEN "no" ELSE verdict
  /\ stopping' = "no"
  /\ UNCHANGED <<turnVars, cancel, workerVars, slot, diffVars, guiVars, ghostTurn, yes, history>>

(* Nothing is left to ask, show or answer. *)
Rest ==
  /\ worker = "over" /\ turn = MaxTurns
  /\ UNCHANGED vars

Tool ==
  \/ Claim \/ Refuse \/ AutoApprove \/ RequestApproval \/ RequestReview \/ EmitReview
  \/ ReviewReturns \/ ApprovalReturns \/ TurnEnds

Gui == TakeEvent \/ StopDialog \/ StopReview

Next == Tool \/ Gui \/ Send \/ AnswerDialog \/ AnswerCard \/ Stop \/ Rest

Spec == Init /\ [][Next]_vars

(* Both threads run, a handler that has begun ends, and an event that was  *)
(* posted is taken in the end, however often Stop is pressed: the queue    *)
(* hands out events in order.  A person need not answer, nor press Stop.   *)
Fairness ==
  /\ WF_vars(Tool)
  /\ WF_vars(StopDialog \/ StopReview)
  /\ SF_vars(TakeEvent)

FairSpec == Spec /\ Fairness
-----------------------------------------------------------------------------
(* Properties. *)

(* A change is made only with the yes it needs: the person said yes to it, *)
(* in its own dialog or for the whole session, so that a Stop that closes  *)
(* the dialog is a no and no answer to one dialog is taken for the next;   *)
(* where a review is required they accepted a plan of the same turn,       *)
(* whatever older card is still on the screen; and after "reject all" to a *)
(* write or a discard nothing is written to the end of the turn.  (Given   *)
(* to an MCP or dynamic tool that answer is a mere "reject".)              *)
Allowed(a) ==
  /\ <<"diff", a>> \in yes'
  /\ a \in authority'
  /\ ~(never /\ kind = "write" /\ turn' = turn)

OnlyOnYes == [][\A a \in landed' \ landed : Allowed(a)]_vars

(* A Stop that finds a question on the screen, or a review registered,     *)
(* gets the tool thread out of it with no help from the person.            *)
StopUnblocksShown ==
  stopping = "dialog" /\ (dialog # NoAsk \/ slot # NoAsk) ~> worker \in {"idle", "over"}
=============================================================================
