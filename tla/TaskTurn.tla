------------------------------ MODULE TaskTurn ------------------------------
(***************************************************************************)
(* One task of the conversation: the model -> tool -> model loop of the    *)
(* root agent and of the child agents it delegates to, the corrections the *)
(* user sends while they work, and Stop.                                   *)
(*   aura/conversation/turn_updates.py        the log of corrections       *)
(*   aura/conversation/agent_loop.py          the loop, run by every agent *)
(*   aura/conversation/manager_tool_round.py  one batch of tool calls      *)
(*   aura/conversation/manager.py             the end of the task          *)
(*   aura/bridge/qt_bridge.py                 the user's thread            *)
(*                                                                         *)
(* What a message says is left out; kept are the corrections a history     *)
(* holds, the newest block of tool calls and the results behind it.  Every *)
(* read of the cancel event and every hold of the log's lock is a step, so *)
(* a correction or a Stop may land between any two of them.                *)
(*                                                                         *)
(* A definition named X_Something beside X is X with a plausible defect,   *)
(* used by the mutation runs of PROJECT.json only.                         *)
(***************************************************************************)
EXTENDS Integers, Sequences, FiniteSets

CONSTANTS
  Root,            \* the root agent's loop
  Children,        \* the child agents' loops, each run at most once
  Batches,         \* Batches[l]: the tool-call blocks l's model may propose
  MaxUpdates,      \* bound: corrections of the task
  MaxRounds,       \* bound: blocks of tool calls per loop
  ObserverRaises   \* whether an on_event observer may raise on a tool result

Loops     == {Root} \cup Children
Kinds     == {"read", "edit", "shell", "delegate"}   \* "read": OBSERVATION
Endings   == {"completed", "cancelled", "api_error", "no_response", "raised"}
UpdateIds == 1..MaxUpdates

ASSUME RootAssumption   == Root \notin Children
ASSUME BatchAssumption  == Batches \in [Loops -> SUBSET (Seq(Kinds) \ {<<>>})]
ASSUME BoundAssumption  == MaxUpdates \in Nat /\ MaxRounds \in Nat
ASSUME ObserverAssumption == ObserverRaises \in BOOLEAN

VARIABLES
  \* TurnUpdates
  preceding,   \* corrections a retried task already holds in its history
  accepted,    \* len(_updates)
  status,      \* _statuses
  open,        \* _open
  \* the user's thread
  cancel,      \* the cancel event
  stopping,    \* request_cancel has set it and not yet closed the log
  \* each loop
  phase,
  position,    \* UpdateCursor._position
  told,        \* the corrections in the loop's history, in order
  heard,       \* the corrections in the last request it sent
  reply,       \* what the provider stream ended with
  late,        \* cancelled_when_received
  rounds,
  ending,      \* AgentLoopOutcome, or "raised"
  \* the newest block of tool calls of each loop
  batch,       \* the kinds of the proposed calls
  call,        \* what has become of each
  began,       \* history: corrections accepted when the tool started, or -1
  flushed,     \* next_result: calls whose results are behind the block
  log          \* the tool results behind the block: <<call, what it says>>

taskVars   == <<preceding, accepted, status, open>>
userVars   == <<cancel, stopping>>
cursorVars == <<position, told, heard>>
streamVars == <<reply, late, rounds>>
restVars   == <<taskVars, userVars, cursorVars, streamVars>>
blockVars  == <<batch, call, began, flushed, log>>
vars == <<restVars, phase, ending, blockVars>>

InProgress == {"queued", "cleared", "running"}
(* "none": returned without a result because of a stop; "own": a shell     *)
(* call, which appends its own result; "invalid": rejected in preflight.   *)
Resolved    == {"real", "updated", "invalid", "none", "own"}
WithPayload == {"real", "updated", "invalid"}

Calls(l)   == 1..Len(batch[l])
Busy(l)    == \E c \in Calls(l) : call[l][c] \in InProgress
Pending(l) == position[l] < accepted

TypeOK ==
  /\ preceding \in 0..MaxUpdates
  /\ accepted \in preceding..MaxUpdates
  /\ status \in [UpdateIds -> {"none", "pending", "in_context", "not_delivered"}]
  /\ \A u \in UpdateIds : status[u] = "none" <=> u > accepted
  /\ open \in BOOLEAN /\ cancel \in BOOLEAN /\ stopping \in BOOLEAN
  /\ phase \in [Loops -> {"off", "head", "boundary", "stream", "received", "preflight",
                          "accepted", "dispatch", "settle", "serial", "drain", "closing",
                          "persist", "over"}]
  /\ position \in [Loops -> 0..MaxUpdates]
  /\ told \in [Loops -> Seq(UpdateIds)]
  /\ heard \in [Loops -> SUBSET UpdateIds]
  /\ reply \in [Loops -> {"none", "answer", "calls", "error", "nothing"}]
  /\ late \in [Loops -> BOOLEAN]
  /\ rounds \in [Loops -> 0..MaxRounds]
  /\ ending \in [Loops -> Endings \cup {"none"}]
  /\ \A l \in Loops :
       /\ batch[l] \in Batches[l] \cup {<<>>}
       /\ call[l] \in [Calls(l) -> InProgress \cup Resolved \cup {"new"}]
       /\ began[l] \in [Calls(l) -> (-1)..MaxUpdates]
       /\ flushed[l] \in 0..Len(batch[l])
       /\ log[l] \in Seq(Calls(l) \X {"real", "updated", "invalid", "cancelled", "failed"})

Init ==
  /\ preceding \in 0..MaxUpdates
  /\ accepted = preceding
  /\ \E delivered \in 0..preceding :
       status = [u \in UpdateIds |-> CASE u <= delivered -> "in_context"
                                       [] u \in (delivered + 1)..preceding -> "not_delivered"
                                       [] OTHER -> "none"]
  /\ open = TRUE /\ cancel = FALSE /\ stopping = FALSE
  /\ phase = [l \in Loops |-> IF l = Root THEN "head" ELSE "off"]
  /\ position = [l \in Loops |-> IF l = Root THEN preceding ELSE 0]
  /\ told = [l \in Loops |-> IF l = Root THEN [u \in 1..preceding |-> u] ELSE <<>>]
  /\ heard = [l \in Loops |-> {}]
  /\ reply = [l \in Loops |-> "none"]
  /\ late = [l \in Loops |-> FALSE]
  /\ rounds = [l \in Loops |-> 0]
  /\ ending = [l \in Loops |-> "none"]
  /\ batch = [l \in Loops |-> <<>>]
  /\ call = [l \in Loops |-> <<>>]
  /\ began = [l \in Loops |-> <<>>]
  /\ flushed = [l \in Loops |-> 0]
  /\ log = [l \in Loops |-> <<>>]

Go(l, p) == phase' = [phase EXCEPT ![l] = p]

(* The loop is over; the root's task is still to be closed. *)
Ends(l, how) ==
  /\ ending' = [ending EXCEPT ![l] = how]
  /\ Go(l, IF l = Root THEN "closing" ELSE "over")

(* An exception leaves the loop.  ChildExecutor turns it into an outcome: *)
(* an answer received in full before the stop still stands.               *)
Raises(l) ==
  Ends(l, IF l = Root THEN "raised"
          ELSE IF ~cancel THEN "api_error"
          ELSE IF reply[l] = "answer" /\ ~late[l] /\ ~Pending(l) THEN "completed"
          ELSE "cancelled")

(* The numbers of a set, in increasing order. *)
Ordered(S) ==
  CHOOSE q \in [1..Cardinality(S) -> S] : \A i, j \in 1..Cardinality(S) : i < j => q[i] < q[j]

-----------------------------------------------------------------------------
(* The user's thread. *)

Submit_Unregistered ==
  /\ open /\ ~cancel
  /\ phase[Root] # "over"
  /\ accepted < MaxUpdates
  /\ accepted' = accepted + 1
  /\ UNCHANGED <<preceding, status, open, userVars, phase, cursorVars, streamVars, ending,
                 blockVars>>

(* submit_task_update, then TurnUpdates.submit *)
Submit ==
  /\ open /\ ~cancel
  /\ phase[Root] # "over"
  /\ accepted < MaxUpdates
  /\ accepted' = accepted + 1
  /\ status' = [status EXCEPT ![accepted + 1] = "pending"]
  /\ UNCHANGED <<preceding, open, userVars, phase, cursorVars, streamVars, ending, blockVars>>

(* request_cancel sets the event first ... *)
Stop ==
  /\ ~cancel
  /\ phase[Root] # "over"
  /\ cancel' = TRUE
  /\ stopping' = TRUE
  /\ UNCHANGED <<taskVars, phase, cursorVars, streamVars, ending, blockVars>>

(* TurnUpdates.close *)
Close ==
  /\ open' = FALSE
  /\ status' = [u \in UpdateIds |-> IF status[u] = "pending" THEN "not_delivered" ELSE status[u]]
  /\ UNCHANGED <<preceding, accepted>>

(* ... and closes the log second. *)
StopCloses ==
  /\ stopping
  /\ Close
  /\ stopping' = FALSE
  /\ UNCHANGED <<cancel, phase, cursorVars, streamVars, ending, blockVars>>

-----------------------------------------------------------------------------
(* A request. *)

(* The head of the loop: a stop ends it; the block behind is complete, so  *)
(* repair_cancelled_turn finds nothing to do.                              *)
LoopHead(l) ==
  /\ phase[l] = "head"
  /\ IF cancel THEN Ends(l, "cancelled") ELSE Go(l, "boundary") /\ UNCHANGED ending
  /\ UNCHANGED <<restVars, blockVars>>

Unseen(l) == [i \in 1..(accepted - position[l]) |-> position[l] + i]

(* UpdateCursor.append_to: every correction this loop has not seen, and    *)
(* the receipts of all of them.                                            *)
AppendTo(l) ==
  IF ~open THEN UNCHANGED <<taskVars, position, told>>
  ELSE /\ position' = [position EXCEPT ![l] = accepted]
       /\ told' = [told EXCEPT ![l] = @ \o Unseen(l)]
       /\ status' = [u \in UpdateIds |-> IF u <= accepted THEN "in_context" ELSE status[u]]
       /\ UNCHANGED <<preceding, accepted, open>>

(* Corrections are delivered and the request carries the whole history. *)
Request(l) ==
  /\ phase[l] = "boundary"
  /\ AppendTo(l)
  /\ heard' = [heard EXCEPT ![l] = {told'[l][i] : i \in 1..Len(told'[l])}]
  /\ reply' = [reply EXCEPT ![l] = "none"]
  /\ late' = [late EXCEPT ![l] = FALSE]
  /\ batch' = [batch EXCEPT ![l] = <<>>]
  /\ call' = [call EXCEPT ![l] = <<>>]
  /\ began' = [began EXCEPT ![l] = <<>>]
  /\ flushed' = [flushed EXCEPT ![l] = 0]
  /\ log' = [log EXCEPT ![l] = <<>>]
  /\ Go(l, "stream")
  /\ UNCHANGED <<userVars, rounds, ending>>

(* The event that settles the stream, and whether a stop was seen with it. *)
Receive(l) ==
  /\ phase[l] = "stream"
  /\ \E r \in {"answer", "calls", "error", "nothing"} :
       /\ r = "calls" => rounds[l] < MaxRounds /\ Batches[l] # {}
       /\ reply' = [reply EXCEPT ![l] = r]
  /\ late' = [late EXCEPT ![l] = cancel]
  /\ Go(l, "received")
  /\ UNCHANGED <<taskVars, userVars, cursorVars, rounds, ending, blockVars>>

StreamRaises(l) ==
  /\ phase[l] \in {"stream", "received"}
  /\ Raises(l)
  /\ UNCHANGED <<restVars, blockVars>>

(* UpdateCursor.finish: a correction that was accepted first wins, and the *)
(* root's completion refuses every later one.                              *)
Finish(l) ==
  IF Pending(l)
  THEN Go(l, "head") /\ UNCHANGED <<ending, taskVars>>
  ELSE /\ Ends(l, "completed")
       /\ open' = (open /\ l # Root)
       /\ UNCHANGED <<preceding, accepted, status>>

(* A terminal answer received before the stop stands. *)
Answer(l) ==
  /\ phase[l] = "received"
  /\ reply[l] = "answer" /\ ~late[l]
  /\ Finish(l)
  /\ UNCHANGED <<userVars, cursorVars, streamVars, blockVars>>

(* The other ways a stream ends the loop.  After a stop the text that came *)
(* is kept without its tool calls.                                         *)
NoAnswer(l) ==
  /\ phase[l] = "received"
  /\ \/ reply[l] = "error" /\ ~late[l] /\ Ends(l, "api_error")
     \/ cancel /\ (reply[l] \in {"calls", "nothing"} \/ late[l]) /\ Ends(l, "cancelled")
     \/ reply[l] = "nothing" /\ ~cancel /\ Ends(l, "no_response")
  /\ UNCHANGED <<restVars, blockVars>>

(* The assistant message is appended with its tool calls. *)
Propose(l) ==
  /\ phase[l] = "received"
  /\ reply[l] = "calls" /\ ~cancel
  /\ \E b \in Batches[l] :
       /\ batch' = [batch EXCEPT ![l] = b]
       /\ call' = [call EXCEPT ![l] = [c \in 1..Len(b) |-> "new"]]
       /\ began' = [began EXCEPT ![l] = [c \in 1..Len(b) |-> -1]]
  /\ rounds' = [rounds EXCEPT ![l] = @ + 1]
  /\ Go(l, "preflight")
  /\ UNCHANGED <<taskVars, userVars, cursorVars, reply, late, ending, flushed, log>>

-----------------------------------------------------------------------------
(* The results behind a block. *)


Say(what, calls) == [i \in 1..Len(calls) |-> <<calls[i], what>>]

Answered(lg) == {lg[i][1] : i \in 1..Len(lg)}

(* _repair_interrupted_turn: one synthetic result, in call order, for each *)
(* call of the newest block that has none.                                 *)
Repair(l, lg, what) == lg \o Say(what, Ordered(Calls(l) \ Answered(lg)))

Flushable_FromPayload(l) ==
  {c \in (flushed[l] + 1)..Len(batch[l]) :
     \A d \in (flushed[l] + 1)..c : call[l][d] \in WithPayload \cup {"own"}}

(* flush_results: the results that form a prefix of the block ... *)
Flushable(l) ==
  {c \in (flushed[l] + 1)..Len(batch[l]) :
     \A d \in (flushed[l] + 1)..c : call[l][d] \in Resolved}

(* ... of which a shell call's own and a stopped call's missing one are    *)
(* passed over.                                                            *)
Payloads(l) == Ordered({c \in Flushable(l) : call[l][c] \in WithPayload})

Flushed(l) ==
  log[l] \o [i \in 1..Len(Payloads(l)) |-> <<Payloads(l)[i], call[l][Payloads(l)[i]]>>]

Flush(l) ==
  /\ log' = [log EXCEPT ![l] = Flushed(l)]
  /\ flushed' = [flushed EXCEPT ![l] = @ + Cardinality(Flushable(l))]

-----------------------------------------------------------------------------
(* The tool round. *)

(* An invalid call rejects the whole batch before any call runs. *)
RejectBatch(l) ==
  /\ phase[l] = "preflight"
  /\ log' = [log EXCEPT ![l] = Say("invalid", Ordered(Calls(l)))]
  /\ Go(l, "head")
  /\ UNCHANGED <<restVars, ending, batch, call, began, flushed>>

(* A correction came with the response: no call of the batch is executed. *)
RefuseBatch(l) ==
  /\ phase[l] = "preflight"
  /\ Pending(l) /\ ~cancel
  /\ log' = [log EXCEPT ![l] = Say("updated", Ordered(Calls(l)))]
  /\ Go(l, "head")
  /\ UNCHANGED <<restVars, ending, batch, call, began, flushed>>

(* An observer raises on one of these results; the rest are repaired. *)
RefusalRaises(l) ==
  /\ ObserverRaises
  /\ phase[l] = "preflight"
  /\ \E what \in {"invalid", "updated"}, k \in Calls(l) :
       /\ what = "updated" => Pending(l) /\ ~cancel
       /\ log' = [log EXCEPT ![l] =
            Repair(l, Say(what, SubSeq(Ordered(Calls(l)), 1, k)), "failed")]
  /\ Raises(l)
  /\ UNCHANGED <<restVars, batch, call, began, flushed>>

(* The batch is valid, but for calls rejected on their own when none of    *)
(* its calls could change anything ...                                     *)
AcceptBatch(l) ==
  /\ phase[l] = "preflight"
  /\ ~Pending(l) \/ cancel
  /\ \E bad \in SUBSET Calls(l) :
       /\ bad # {} => \A c \in Calls(l) : batch[l][c] \in {"read", "delegate"}
       /\ call' = [call EXCEPT ![l] = [c \in Calls(l) |-> IF c \in bad THEN "invalid" ELSE "new"]]
  /\ Go(l, "accepted")
  /\ UNCHANGED <<restVars, ending, batch, began, flushed, log>>

(* ... and is dispatched unless a stop is seen first. *)
BeginBatch(l) ==
  /\ phase[l] = "accepted"
  /\ IF cancel
     THEN log' = [log EXCEPT ![l] = Repair(l, log[l], "cancelled")] /\ Ends(l, "cancelled")
     ELSE Go(l, "dispatch") /\ UNCHANGED <<log, ending>>
  /\ UNCHANGED <<restVars, batch, call, began, flushed>>

(* The first call not dispatched yet. *)
NextCall(l) ==
  {c \in Calls(l) : call[l][c] = "new" /\ \A d \in 1..(c - 1) : call[l][d] # "new"}

(* A read is handed to the pool. *)
Dispatch(l) ==
  /\ phase[l] = "dispatch"
  /\ ~cancel
  /\ \E c \in NextCall(l) :
       /\ batch[l][c] = "read"
       /\ call' = [call EXCEPT ![l][c] = "queued"]
  /\ UNCHANGED <<restVars, phase, ending, batch, began, flushed, log>>

(* Any other call waits for the pool to drain ... *)
Settle(l) ==
  /\ phase[l] = "dispatch"
  /\ ~cancel
  /\ \E c \in NextCall(l) : batch[l][c] # "read"
  /\ Go(l, "settle")
  /\ UNCHANGED <<restVars, ending, blockVars>>

(* ... and then runs alone. *)
Serial(l) ==
  /\ phase[l] = "settle"
  /\ ~Busy(l)
  /\ Flush(l)
  /\ IF cancel THEN Go(l, "drain") /\ UNCHANGED call
     ELSE /\ \E c \in NextCall(l) : call' = [call EXCEPT ![l][c] = "queued"]
          /\ Go(l, "serial")
  /\ UNCHANGED <<restVars, ending, batch, began>>

SerialDone(l) ==
  /\ phase[l] = "serial"
  /\ ~Busy(l)
  /\ Flush(l)
  /\ Go(l, "dispatch")
  /\ UNCHANGED <<restVars, ending, batch, call, began>>

DispatchOver(l) ==
  /\ phase[l] = "dispatch"
  /\ cancel \/ NextCall(l) = {}
  /\ Go(l, "drain")
  /\ UNCHANGED <<restVars, ending, blockVars>>

(* The pool is joined and the rest flushed; after a stop the calls that    *)
(* never returned are repaired and the loop ends.                          *)
RoundOver(l) ==
  /\ phase[l] = "drain"
  /\ ~Busy(l)
  /\ flushed' = [flushed EXCEPT ![l] = @ + Cardinality(Flushable(l))]
  /\ IF cancel
     THEN /\ log' = [log EXCEPT ![l] = Repair(l, Flushed(l), "cancelled")]
          /\ Ends(l, "cancelled")
     ELSE log' = [log EXCEPT ![l] = Flushed(l)] /\ Go(l, "head") /\ UNCHANGED ending
  /\ UNCHANGED <<restVars, batch, call, began>>

FlushRaises_Unrepaired(l) ==
  /\ ObserverRaises
  /\ phase[l] \in {"settle", "serial", "drain"}
  /\ ~Busy(l)
  /\ \E k \in 1..Len(Payloads(l)) :
       log' = [log EXCEPT ![l] = SubSeq(Flushed(l), 1, Len(log[l]) + k)]
  /\ Raises(l)
  /\ UNCHANGED <<restVars, batch, call, began, flushed>>

(* An observer raises on a flushed result: the results behind it are lost  *)
(* to repair, and the exception leaves the loop.                           *)
FlushRaises(l) ==
  /\ ObserverRaises
  /\ phase[l] \in {"settle", "serial", "drain"}
  /\ ~Busy(l)
  /\ \E k \in 1..Len(Payloads(l)) :
       log' = [log EXCEPT ![l] = Repair(l, SubSeq(Flushed(l), 1, Len(log[l]) + k), "failed")]
  /\ Raises(l)
  /\ UNCHANGED <<restVars, batch, call, began, flushed>>

-----------------------------------------------------------------------------
(* One call, in a pool thread or in the loop's own: process_task. *)

Becomes(l, c, s) == call' = [call EXCEPT ![l][c] = s]

(* The stop is looked at inside the worker, not when the call was queued. *)
Claim(l, c) ==
  /\ call[l][c] = "queued"
  /\ Becomes(l, c, IF cancel THEN "none" ELSE "cleared")
  /\ UNCHANGED <<restVars, phase, ending, batch, began, flushed, log>>

Admit_WhenClaimed(l, c) ==
  /\ call[l][c] = "cleared"
  /\ Becomes(l, c, "running")
  /\ began' = [began EXCEPT ![l][c] = accepted]
  /\ UNCHANGED <<restVars, phase, ending, batch, flushed, log>>

Admit_EvenClosed(l, c) ==
  /\ call[l][c] = "cleared"
  /\ IF ~Pending(l)
     THEN Becomes(l, c, "running") /\ began' = [began EXCEPT ![l][c] = accepted]
     ELSE Becomes(l, c, "updated") /\ UNCHANGED began
  /\ UNCHANGED <<restVars, phase, ending, batch, flushed, log>>

(* admit_tool: from here on the tool counts as started. *)
Admit(l, c) ==
  /\ call[l][c] = "cleared"
  /\ IF open /\ ~Pending(l)
     THEN Becomes(l, c, "running") /\ began' = [began EXCEPT ![l][c] = accepted]
     ELSE Becomes(l, c, "updated") /\ UNCHANGED began
  /\ UNCHANGED <<restVars, phase, ending, batch, flushed, log>>

(* The tool returns a result; an exception of its handler is one too. *)
Return(l, c) ==
  /\ call[l][c] = "running"
  /\ batch[l][c] \in {"read", "edit"}
  /\ Becomes(l, c, "real")
  /\ UNCHANGED <<restVars, phase, ending, batch, began, flushed, log>>

(* A shell call appends its own result, before the observer hears of it;   *)
(* an observer that raises then makes it an internal error as well.        *)
ShellReturns(l, c) ==
  /\ call[l][c] = "running"
  /\ batch[l][c] = "shell"
  /\ \/ log' = [log EXCEPT ![l] = Append(@, <<c, "real">>)] /\ Becomes(l, c, "own")
     \/ UNCHANGED log /\ Becomes(l, c, "real")
     \/ /\ ObserverRaises
        /\ log' = [log EXCEPT ![l] = Append(@, <<c, "real">>)]
        /\ Becomes(l, c, "real")
  /\ UNCHANGED <<restVars, phase, ending, batch, began, flushed>>

Delegating == \E c \in Calls(Root) : batch[Root][c] = "delegate" /\ call[Root][c] = "running"
Working(k) == phase[k] \notin {"off", "over"}

(* A child starts with a fresh cursor on the task's whole log. *)
ChildStarts(k) ==
  /\ Delegating
  /\ phase[k] = "off"
  /\ Go(k, "head")
  /\ UNCHANGED <<restVars, ending, blockVars>>

DelegateReturns_AllRan(c) ==
  /\ call[Root][c] = "running"
  /\ batch[Root][c] = "delegate"
  /\ \A k \in Children : phase[k] = "over"
  /\ Becomes(Root, c, "real")
  /\ UNCHANGED <<restVars, phase, ending, batch, began, flushed, log>>

(* Delegation, a team or a workflow returns when its children have. *)
DelegateReturns(c) ==
  /\ call[Root][c] = "running"
  /\ batch[Root][c] = "delegate"
  /\ \A k \in Children : ~Working(k)
  /\ Becomes(Root, c, "real")
  /\ UNCHANGED <<restVars, phase, ending, batch, began, flushed, log>>

-----------------------------------------------------------------------------
(* The end of the task: ConversationManager.send's finally. *)

CloseTask ==
  /\ phase[Root] = "closing"
  /\ Close
  /\ Go(Root, "persist")
  /\ UNCHANGED <<userVars, cursorVars, streamVars, ending, blockVars>>

Persist_Nothing ==
  /\ phase[Root] = "persist"
  /\ Go(Root, "over")
  /\ UNCHANGED <<restVars, ending, blockVars>>

(* persist: the corrections the history does not hold are added to it. *)
Persist ==
  /\ phase[Root] = "persist"
  /\ told' = [told EXCEPT ![Root] =
       @ \o Ordered({u \in 1..accepted : \A i \in 1..Len(told[Root]) : told[Root][i] # u})]
  /\ Go(Root, "over")
  /\ UNCHANGED <<taskVars, userVars, position, heard, streamVars, ending, blockVars>>

Finished == phase[Root] = "over" /\ UNCHANGED vars

LoopStep(l) ==
  \/ LoopHead(l) \/ Request(l) \/ Receive(l) \/ StreamRaises(l) \/ Answer(l) \/ NoAnswer(l)
  \/ Propose(l) \/ RejectBatch(l) \/ RefuseBatch(l) \/ RefusalRaises(l) \/ AcceptBatch(l)
  \/ BeginBatch(l) \/ Dispatch(l) \/ Settle(l) \/ Serial(l) \/ SerialDone(l)
  \/ DispatchOver(l) \/ RoundOver(l) \/ FlushRaises(l)

CallStep(l, c) ==
  Claim(l, c) \/ Admit(l, c) \/ Return(l, c) \/ ShellReturns(l, c)

Next ==
  \/ Submit \/ Stop \/ StopCloses
  \/ \E l \in Loops : LoopStep(l) \/ \E c \in Calls(l) : CallStep(l, c)
  \/ \E k \in Children : ChildStarts(k)
  \/ \E c \in Calls(Root) : DelegateReturns(c)
  \/ CloseTask \/ Persist \/ Finished

Spec == Init /\ [][Next]_vars

(* The user's click, the loops and the tool workers are threads that run;  *)
(* a provider stream ends and a tool returns.  Nobody has to type.         *)
Fairness ==
  /\ WF_vars(StopCloses)
  /\ WF_vars(CloseTask \/ Persist)
  /\ \A l \in Loops :
       /\ WF_vars(LoopStep(l))
       /\ WF_vars(\E c \in Calls(l) : CallStep(l, c))
  /\ WF_vars(\E c \in Calls(Root) : DelegateReturns(c))

FairSpec == Spec /\ Fairness
-----------------------------------------------------------------------------
(* Properties. *)

(* Where a history may be sent, saved or retried. *)
AtRest(l) == phase[l] \in {"head", "closing", "persist", "over"}

(* Whenever a history may be sent or saved, every call of its newest block *)
(* has a result, whatever a correction, a Stop or an observer did: a block *)
(* without one poisons every later request.                                *)
EveryCallAnswered == \A l \in Loops : AtRest(l) => Answered(log[l]) = Calls(l)

(* The results behind a block that may be sent are one for each call       *)
(* ("exactly one truthful result per call") and the ones the tools         *)
(* returned, even when a Stop made calls before them return nothing; after *)
(* a round that was not interrupted they are in call order, although reads *)
(* finish in any order and a shell call appends its own.                   *)
ResultsFaithful ==
  \A l \in Loops :
    /\ AtRest(l) =>
         /\ Answered(log[l]) = Calls(l) /\ Len(log[l]) = Len(batch[l])
         /\ \A c \in Calls(l) : call[l][c] = "real" =>
              \E i \in 1..Len(log[l]) : log[l][i] = <<c, "real">>
    /\ phase[l] = "head" => \A i \in 1..Len(log[l]) : log[l][i][1] = i

(* Every tool that starts was asked for by a model that had been told all  *)
(* the corrections accepted before it started, in the root as in a child.  *)
ToldBeforeTools ==
  \A l \in Loops : \A c \in Calls(l) : 1..began[l][c] \subseteq heard[l]

(* A task only completes with an answer that had every correction, and     *)
(* when it is over its history holds every accepted correction once, in    *)
(* the order they were sent.                                               *)
Delivered ==
  /\ ending[Root] = "completed" => 1..accepted \subseteq heard[Root]
  /\ phase[Root] = "over" => told[Root] = [u \in 1..accepted |-> u]

(* The receipt of a correction says that it was added to a model's context *)
(* exactly when some loop has sent it, and never stays pending.            *)
Receipts ==
  /\ \A u \in (preceding + 1)..accepted :
       status[u] = "in_context" <=> \E l \in Loops : u \in heard[l]
  /\ ~open /\ phase[Root] \in {"persist", "over"} =>
       \A u \in 1..accepted : status[u] # "pending"

(* Nothing a person says to a working agent is passed over: no tool starts *)
(* without it, whichever way the task ends it is delivered, and its        *)
(* receipt says what became of it.                                         *)
SteeringHeeded == ToldBeforeTools /\ Delivered /\ Receipts

(* A call that is not a read never overlaps another call of its agent.     *)
SerialAlone ==
  \A l \in Loops : \A c, d \in Calls(l) :
    call[l][c] = "running" /\ call[l][d] = "running" /\ c # d =>
      batch[l][c] = "read" /\ batch[l][d] = "read"

(* When an agent's loop is over none of its calls is in progress, and when *)
(* the root's is, no child is at work: nothing writes to a finished task.  *)
QuiescentEnd ==
  /\ \A l \in Loops : ending[l] # "none" => ~Busy(l)
  /\ ending[Root] # "none" => \A k \in Children : ~Working(k)

(* A call overlaps neither what it must be alone with nor the end of its   *)
(* agent, and is not left behind unanswered, even when an observer raises  *)
(* in the middle of its round.                                             *)
CallsClosed == EveryCallAnswered /\ SerialAlone /\ QuiescentEnd

NothingStarts ==
  \A l \in Loops : \A c \in 1..Len(began'[l]) :
    began'[l][c] # -1 => began'[l] = began[l]

(* An answer received in full before the Stop, by an agent that had every  *)
(* correction, is never reported as cancelled.                             *)
AnswerStands(l) ==
  ending'[l] = "cancelled" => ~(reply'[l] = "answer" /\ ~late'[l] /\ 1..accepted' \subseteq heard'[l])

(* Stop draws one line: once request_cancel has returned no tool starts in *)
(* any agent, and an answer that was there before it stands.               *)
StopIsFinal == [][/\ ~open => NothingStarts
                  /\ \A l \in Loops : AnswerStands(l)]_vars

(* Every task ends once its models stop calling tools.                     *)
Terminates == <>(phase[Root] = "over")
=============================================================================
