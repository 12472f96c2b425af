# Aura in TLA+

Aura is a desktop IDE in which a root agent talks to a person, calls tools, delegates to
child agents and runs workflows of agents over the person's repository. This directory
models the parts of it that run concurrently, fail half way or must survive a restart:
what they do is hard to see in a test and easy to see in a model. Everything is translated
from the Python under `src/aura` and `src/relay`, and the phone's TypeScript;
`PROJECT.json` maps each definition to the lines it stands for.

## The system: inventory

| component | state it keeps | operations | talks to |
|---|---|---|---|
| **Workflow runs** `agents/workflow_runner.py`, `workflow_scheduler.py`, `workflow_plan.py`, `graph_dag.py` | frozen plan, settled outcomes, active futures, completion queue, cancel event | run, launch a wave, receive, settle, stop, shut down, project the outcome, retain the worktree | child executor (pool), worktree manager, an observer |
| **Agent worktrees** `agents/worktree*.py`, `delegation_workflow.py` | records in memory, `state.json`, the writable slot, a pending workspace switch; worktrees and refs in Git | create, checkpoint, recover, apply, discard, reconcile, switch workspace, restart | Git, the approval dialog |
| **Conversation task** `conversation/agent_loop.py`, `manager_tool_round.py`, `turn_updates.py`, `manager.py` | history, the log of corrections with one position per loop, the batch in flight | send, request, receive, preflight, dispatch, settle, run alone, repair, finish, persist | providers, tools, child executor, observers, the GUI thread |
| **Turn bridge** `bridge/qt_bridge.py` | the turn's cancel event, its corrections | send, request_cancel, submit_task_update | conversation task, both proxies |
| **Child execution** `agents/child_execution.py`, with `workflow_children.py`, `runtime.py` | leases, telemetry | run, wrap a result | the loop, providers |
| **Patch transactions** `conversation/tools/write_transaction.py`, `_write_mixin.py`, `fs_write.py`, `backup.py` | proposals in memory, bytes of the files it replaces, backups | propose, ask, verify, read, back up, write, roll back | the workspace, which the person edits too |
| **Approval and plan review** `bridge/approval_proxy.py`, `plan_review_proxy.py`, `gui/plan_review_controller.py`, `conversation/plan_review.py` | pending review, active dialog and card, approve-all, reject-all, required/approved | request, show, answer, cancel | tool thread and GUI thread |
| **Terminal tool, tool effects, delegation tools, helpers** `conversation/shell_tool.py`, `tools/effects.py`, `tools/_agents_mixin.py`, `agents/workflow_helpers.py` | none that outlives a call, but for a helper recorder | run a command, classify, delegate | conversation task |
| **Conversation persistence** `gui/conv_persistence.py`, `conversation/persistence.py`, `gui/main_window*.py` | the history on the screen, its path and generation, a pending handoff, background saves, files | send, settle, save, New, open, hand off, restart | GUI thread, one thread per save |
| **PowerShell session** `shell/powershell_session.py`, `powershell_protocol.py`, `conversation/shell_tool.py` | one long-lived process, a queue its two reader threads fill, the directory it is in | call, start, submit, collect, time out, invalidate, reset | terminal tool, the process, Stop |
| **Companion** `companion/manager.py`, `companion-web/src` | the chat and phone being answered; the phone's waiting screen and watchdog | send, cancel, relay the signals of a turn, close a chat | turn bridge, relay |
| **Relay** `src/relay` | a session per device, tickets, pairings, all in memory | hello, welcome, forward, pair, unregister | sockets of the desktop and the phones |
| **Kept Agents and Workflows** `agents/retention.py`, `store.py`, `local_state.py`, `graph_store.py`, `graph_session.py`, `graph_history.py`, `workflow_edits.py`, `workflow_authoring.py`, `gui/main_window_agents*.py` | definition files, graph files, one local-state file of grants, an undo history per Workflow, builds a turn may retry | keep a team or an Agent, create, update, edit, undo, grant, delete | tool thread and GUI thread, files others write too |
| Rosters and compilation; event bus; providers; validation; code intelligence; settings; GUI | documents, subscribers, caches | pure or presentation | -- |

Hard behaviours, and what would make each component correct:

* *Workflow runs*: workers finish in any order while a person may press Stop
  between any two reads of the flag. A Step that may edit the shared worktree
  must be alone, a Step may only see predecessors that succeeded, no recovery
  may race a live worker, the run must end, and its report must be true.
* *Agent worktrees*: an operation is a chain of Git commands and saves, any of
  which may fail or be the last thing Aura does. Edits must never be lost, what
  Git holds must be on record, a failure must not strand the one writable slot,
  a result must not land on what nobody approved.
* *Conversation task*: reads in a pool, edits alone, corrections and Stop at any
  moment, children with loops of their own. Every call must get exactly one
  result, no tool may start on a request that missed a correction, nothing may
  start after Stop has returned, nothing a person said may be lost.
* *Patch transactions*: the person edits the same files. What a call reports must
  be true of the files, and what the person saw must be recoverable.
* *Consent*: questions on one thread, answers on another. Nothing may change
  without the yes it needs, and Stop must not leave a thread in a question.
* *Persistence*: saves overlap each other and the person's next conversation. A file
  must hold a conversation that took its name, every finished turn must reach a
  file, and a conversation may only be handed off when that was asked for.
* *PowerShell*: Stop, the time limit, the death of the process and the last of its
  output race. A result must be that command's, in the directory announced; a
  replaced process must be owned up to; every call must come back.
* *Kept Agents and Workflows*: keeping is several writes, any of which may fail, by two
  threads over files that a person changes too. What is reported as kept must be there,
  a grant a person chose must stand, a retry must stay possible, and an edit must not
  swallow another.
* *Companion and relay*: sockets break between a message and its answer, and the
  handler of the old socket outlives it. A phone must hear of its own chats only,
  its screen must come back, a device that is served must be reachable, a code
  must pair one phone.

`PROJECT.json` lists under `hazards` where in the code each of these bites.

## The modules

| module | models | checked by |
|---|---|---|
| `WorkflowPlan` | plans and the pure wave scheduler | (used by the next three) |
| `Workflow` | one workflow run, one action per place the coordinator can be | `workflow` |
| `DagRun` | what a run promises: an abstract specification | refined by `Workflow` |
| `Worktree` | the life of change sets, one Git command or save per step | `worktree_life` |
| `TaskTurn` | one task: root loop, child loops, tool rounds, corrections, Stop | `turn_task`, `turn_ends` |
| `ApplyPatch` | one patch, write or delete against a person who edits | `patch` |
| `Consent` | the dialog and the plan card against Stop | `consent` |
| `AutoSave` | the conversation on the screen and its files | `auto_save`, `auto_save_opened` |
| `ShellSession` | the persistent PowerShell, its readers and its calls | `shell` |
| `Companion` | a chat from a phone, and the turn it starts | `companion` |
| `Relay` | sockets, sessions and pairing of the relay | `relay` |
| `PhoneIds` | the phones both speak of | |
| `Authoring` | what is kept of Agents and Workflows, and the edits of a saved one | `authoring` |
| `WorkflowProofs`, `WorktreeProofs`, `ApplyPatchProofs`, `ConsentProofs`, `ShellSessionProofs`, `TaskTurnProofs`, `StoreProofs` (of `AutoSave` and `Authoring`), `PhoneProofs` (of `Relay` and `Companion`) | theorems, for every value of the constants | TLAPS |
| `MCWorkflow`, `MCWorktree`, `MCTaskTurn`, `MCAutoSave`, `MCCompanion`, `MCRelay` | instances for TLC: all runnable plans, what may go wrong, tool batches, conversations that share a slug, symmetry | |

`Companion` and `Authoring` name their specifications `ChatSpec` and `AuthoringSpec`, and
the parts of them likewise, because a module of proofs extends each together with
another one (`PhoneProofs`, `StoreProofs`).

A definition named `X_Something` beside `X` is `X` with a plausible defect. It is
in no specification; the mutation runs listed in `PROJECT.json` put it in the
place of `X` and TLC must then report the property it is listed with.

### WorkflowPlan, Workflow, DagRun

Steps are numbered in the topological order in which the plan is frozen, so a
predecessor always has a smaller number (`Runnable`, from `graph_dag.py`); `mut` holds
the Steps that may edit, directly or through a helper, and `term` the branches
whose text is the answer. `Classified`, `Blocked`, `Ready` and `Wave` are
`WorkflowWaveScheduler.decide`.

`phase` is the program counter of `_run_locked`/`_run_steps`: `start`, the loop head
`decide`, the launch loop (`launch`, `announced`, `submit`: before the first check
of the flag, between the two, after the second), `collect` (the blocking read of
the queue), `drain` (the except branch), `quiesce` (pool shut down), `checkpoint`,
`done`. Only those places read the flag; `Stop` is enabled at all of them.
`SubmitFails` is a pool that cannot start a thread: the call was queued first, so
a thread that exists may run it as a future the coordinator never held; that is
why `ShutDown` waits for every worker rather than for the futures it holds.

`DagRun` says the same without waves, queue, threads or flag checks: a Step starts
once and only after what it waits for succeeded, one that may edit runs alone,
one behind a failure is skipped, and only a stop leaves a Step unrun otherwise.
`RunState` maps a run to it: a worker that has posted its answer has ended, though
the coordinator has not yet read it.

### Worktree

`at` names the next Git command or save of the operation that holds the manager's
lock. The lock is free while a child works (`child`) and while a person is asked
(`asked`), so the person may commit, edit the primary worktree, or edit a retained
one there. `mem` is the manager's records and `disk` is `state.json`, which is written
whole. A record is its state and whether it names a path and a result; a worktree
is absent, clean or edited; a branch is absent, at the base, or ahead of it.
`Crash` drops everything but `disk` and Git, and the reconciliation of a restart
runs as the code runs it. The primary checkout is a branch (`on`), a commit (`head`) and
whether it is `dirty`; commits are numbered as they are made, and `over` says which
ancestors each holds, because `git merge --ff-only` asks only that HEAD be one of the
result's (`FastForward`), while `Untouched`, the check before, asks for the branch, the
commit and no edits. The user may commit, edit, reset and change branches at any step,
also between that check and the merge (`moved`). `landed` and `dropped` are history variables.
Inspecting and listing change sets only read, and are left out.

### TaskTurn

Each loop (the root's, and one per child) has a place in `AgentLoop.run`, a history
reduced to the corrections in it (`told`) and the results behind its newest block
of tool calls (`log`), and a position in the shared log of corrections. A call is
queued, cleared by its cancel check, admitted by its cursor, running, and then
resolved to one of the kinds of result the properties tell apart. Reads of a batch
run in the pool together; any other call settles the pool and runs alone; a shell
call appends its own result before the observer hears of it; a delegating call
waits for its child. `Stop` is two steps, because `request_cancel` sets the event
before it closes the log. `ObserverRaises` lets an observer raise on any result.

Left out: the payloads of plan review and reject-all (they are in `Consent`),
malformed blocks beyond "rejected in preflight", delegation below a child, and the
death of the process, which ends the task. A call that edits and a command differ
in nothing the properties see and are one kind; the only bookkeeping call modelled
is a delegation.

### ApplyPatch

A file's content is the number of the save that made it, or the agent's. Every
read, hash, copy and replacement is a step of its own, because `UserSaves` and
`UserDeletes` may come between any two. A patch verifies all its files, then
reads, backs up and writes one after the other; an `OSError` around a read or a
write rolls back the newest first, and one that cannot be restored makes the
report "partial". The backup is outside those handlers: an exception there leaves
the call. A write or delete has one file and no rollback. Matching hunks, syntax
checks and the scratch files under `.aura/tmp`, which ask nobody, are left out.
Which content a file has is all that is kept of the bytes.

### Consent

The tool thread admits a call, then puts a plan or a change to a person, and waits. The
GUI thread runs one handler at a time and takes posted events in order; `Stop` is a
handler of three steps (`cancel.set`, `cancel_active_dialog`, `cancel_active`) between
which the tool thread goes on. A card stays active after Stop resolved its review, as in
`plan_review_controller.py`, and may be clicked in a later turn. What a person said yes to
is kept in `yes`, apart from what the code remembers of it (`approved`, `always`,
`answer`), so that the properties compare the two. A change is one of three kinds
(`Changes`): the write tools, which "Reject all" refuses to the end of the turn; the
discard of a change set, whose "Reject all" is remembered but which is itself asked about
again; and a consequential MCP or dynamic tool, where that answer is a mere "Reject" and
is neither remembered nor heeded (`manager_tool_round.py:550`, `622-623`,
`tools/executor.py:81`, `118`), though the button reads "Reject all in this turn"
(`diff_dialog.py:138`). Editing the text of a plan and the audit event of a dialog are
left out.

### AutoSave

A turn is a number, a history the set of its finished turns, a file name the slug of the
first message and the second of its time stamp. A slug keeps six words of it in lower
case, and every conversation that a handoff starts begins with the same words; `Name` does
not look whether the file is there. So two conversations may take one name (`takers`), and
one then writes over the other. A save is a thread with a copy of the history, of the path
and of the generation; it picks a name, truncates the file, writes it, and posts
`save_succeeded`, which the GUI thread takes later. Two writers over each other, and a
write cut off, leave a `Torn` file. `settling` is the timer between `_on_finished` and
`_settle_finished_turn`, during which the person may send, start a new conversation or
open another, from the list of threads (`Open`) or through a file dialog (`OpenDialog`,
`Choose`, `Dismiss`), behind which a queued message or one of the phone may start a turn.
`Restart` is Aura closed or killed and opened again on the file modified last. The history
variables say what excuses a property: `excused` are the turns of a save that failed,
crossed another of its conversation, or was cut off, those whose history was replaced
before they settled, and those of a file that another conversation wrote over; `raced`,
that a conversation was opened while a save was under way; `split`, that a save began with
no path while an earlier one had yet to choose one; `stray`, that a handoff request was
refused, stopped or overtaken.

### ShellSession

Four parties: the tool call (`pc`), the process (`alive`, `where`, `stage`, `pipe`,
`held`), its readers (`Reads`) and the person. Text is counted, a boundary and an end of
stream are items of a pipe. `Consume`, `Malformed` (something else spoilt the line of the
boundary), `CancelledDuring`, `TimesOut` and `ShellExited` are the five ways the
collecting loop goes on, in any order the clock allows; when the process is gone the loop
first drains what the readers queued. The process may die, change directory or leave a
child that keeps the pipes open at any moment of a command. `believed` is the shell that
the results so far let the model count on. An output or start callback that raises
(`shell_tool.py:200-211`, `powershell_protocol.py:111-112`,
`powershell_session.py:274-275`) leaves the call and its command running in a shell that
is kept; it is left out.

### Companion

The chat screen of each phone (`turn`, `cleared`: the message it waits for, and whether
its watchdog was cleared; `verified`: the phase is "connected"), the manager (`pending`,
`pendingPhone`) and the turn, whose signals are posted to the GUI thread one after the
other (`gui`). A turn is one or more streams: `RoundDone` ends in tool calls, `TurnOver`
in the answer, an error or a Stop. A socket that breaks takes with it what is in flight; a
message to a desktop that is away comes back as "Desktop not online". Such an error, or
one that answers the screen's own requests (`Unavailable`), changes the phase, and the
cleanup of the effect on the phase takes the watchdog and the listeners of the chat with
it (`Leaves`, `Chat.tsx:124-129`), until the person retries. The relay is reduced to
queues; browsing commands only read and are left out.

Two history variables name what the code does not keep. `early` are the chats that were
closed by a stream before the last of their turn: `EndsOnce` says of all others that they
are closed when their turn is through, and of these that they are closed once. `missed` are
the chats which, or the closing message of which, were lost under way, were sent while
the desktop was not connected, or arrived at a screen that did not listen:
`ScreenComesBack` says of every other chat that its screen has its watchdog armed or what
it waits for under way, whatever else broke.

### Relay

Each socket has a handler, whose awaits are the steps: `Hello`, `Welcomed` or
`WelcomeFailed`, then serving until `Closed`. A device reconnects while the handler of
its old socket may not have noticed. `SendTo` is a forward: a send to a dead socket
succeeds or fails, and a failure unregisters by device id, as the end of an old
handler does; `stale` records either, so that it names exactly the defect of
`websocket.py:302`. `Restart` empties the relay. The Cloudflare relay, which does
compare sockets before it unregisters, is another program and left out.

Pairing goes from a code of the desktop to `pair.verify` and `pair.confirmed`, which cross
with everything else. A ticket stands for its code and works once; since the code may be
typed any number of times beside it, scanning is modelled as typing. A token is identified
by the code that paired it. The phone has it twice, stored (`token`) and in memory
(`held`), and only the first is wiped by an `auth.error`; the second goes into the next
hello, where the relay verifies it when the welcome is out (`claims`, `Verified`).
`Expires` lets a token's thirty days pass at any time once its confirmation is through: a
phone that holds such a token is served and not authenticated, and is made to forget its
pairing by the next message. Assumed is that desktop and relay have the same secret, as
`companion/auth.py:28` says they must. `logout()`, the way of "Pair again", is left out.

### Authoring

The stores are `defs`, `grants` (one local-state file), `graph` (the Workflow that is edited) and
`files` (those that were kept or created). A graph is the sequence of edits that made
it, so that two graphs are equal exactly when the code's comparison of documents says
so; `Document` is what a revision is made of. Keeping is one job per thread that goes
through `define`, `load`, `save`, `commit` and `tell`: one step per Agent file, one each for the
reading and the writing of the local state, which no lock joins, one for the graph.
`WriteFails` may end it at any of them. The GUI thread's job is Keep Team, Save Agent or
the forgetting of a deleted Agent; the tool thread's is a create or an update, whose
lock keeps canvas and card out. A definition that is there already is compared as it is
read back (`ReadBack`): for the Agents of `lossy` the parser makes something else of
what was written, because it splits lines at more than a newline and blanks retired models
(`document.py:97`, `149-151`, `158`). `dialog` is a question that was asked before a turn
began and is answered during it. `WrittenOutside` is another window, Git or an editor.
`SaveEdit` compares and writes in one step: the lock joins them for Aura's own edits,
but not for another program, nor for the window's Delete, which takes no lock
(`graph_session.py:185-199`). History variables: `wish` is a person's grant, `told` what was
reported as saved, `crossed` that two saves of the local state overlapped, `outside` that
the file was last written by somebody else.

Left out: the list of available Agents beside the grants, an unreadable local-state
file, name collisions but for the one of a repeated create, several pending specs at
once, a personal Agent deleted from the window of another workspace, and what a graph
looks like.

## The runs

Each checks one question. Those of `worktree_life`, `auto_save`, `shell`, `companion` and
`relay` do not check deadlock: there a person may stop deciding, or the bounds end.

* `workflow` -- three Steps, *every* runnable plan over them (all predecessor sets,
  all sets of editing Steps, every set of terminal branches that
  leaves no Step without an answer), every outcome, Stop at
  every point, failing submissions. Three Steps are the least with a join, a
  branch beside a failing one, and a wave of two behind which a third waits. A Step
  that may edit is alone (`MutationExclusive`), retention is quiescent, the report is
  true, skips nothing silently and closes the worktree (`HonestReport`), a stop is
  reported at one place and lets at most one Step start late (`StopHeeded`), the run
  implements `DagRun`, and it ends.
* `worktree_life` -- two change sets, two commits on top of the first, two branches. Two
  change sets are needed for the single writable slot and for a workspace switch that
  waits for it; two commits for a result made from an old base; two branches for one that
  was left. Everything at once is too much for TLC with two change sets, so there are
  four cases (`Worlds`). Two change sets and one commit on top of the first: with all that
  can fail (Git and the record file at any step, Aura dying at any step) and a user who
  stays on the branch, and with a user who resets and changes branches while nothing but
  Git fails. Two change sets and two commits, nothing but Git failing. And all of it at
  once, two commits among it, with one change set.
  `RecordsTrue`: what Git holds is on record, a record that offers a result has its
  commit, unless it has landed or was dropped; `OnlyAsApproved`: a result lands on the
  branch and the commit it was made from, or where the user went between the last check
  and the merge, and then nothing HEAD held is lost; and what a discard deletes is what
  was shown.
* `turn_task` -- root and one child, two rounds each, two corrections, Stop. Two
  rounds are needed for a correction between a batch and the next request; two
  corrections for their order and for a position that runs ahead.
* `turn_ends` -- two children at work at once under one delegation, or a root alone
  with a shell call between two reads, observers that may raise: no call is left
  without a result, an editing call runs alone, nothing runs under a finished loop
  (`CallsClosed`), and the task ends.
* `patch` -- up to three files, two changes by the person. Three files make a
  rollback of two, of which one may fail. `FilesAccountedFor`: a clean report means
  that no file holds the agent's bytes, what the person saw is in the file or in its
  backup, and with nobody else at work the report is exact.
* `consent` -- four requests over three turns, a Stop finding at most one event
  posted (`MaxPosted`). Two turns already let an old card meet a new review.
* `auto_save` -- two finished turns besides the one on disk, two time stamps, three
  conversations, of which two share the slug of a handoff: one opened, one new, one handed
  off into. Two saves of one conversation, two conversations in the save queue at once
  and a name taken twice, by one conversation or by two, all happen.
* `shell` -- three calls, two processes, one piece of text per command, two
  directories: a call before, one on and one after a replaced process.
* `companion` -- two phones, two chats, one round of tool calls, one fault: a socket that
  breaks or an error of the relay. One is enough for everything that `missed` names; the
  phones are alike, which `PhonesAlike` tells TLC.
* `authoring` -- an Agent on disk, one a run generated, one a model adds; two edits, a
  history of two states, one change by a person to an Agent, one failing write, definitions
  that all survive being read back or none but the Agent's on disk; and no more than three
  edits, changes and failures together (`MaxEvents`). Two
  edits over a history of two cut it short; one failure is enough for every partial
  state that a retry meets. `KeptIsThere`: what was reported as saved has definition and
  grant, unless two saves of the local state crossed; `GrantsHonoured`: a person's grant
  stands, and keeping stays possible whatever failed; `OneEditAtATime`: the file moves by
  one edit and the cursor of the history stays on it.
* `relay` -- the desktop and two phones, two breaks (sockets or the relay itself) and
  two codes, no more than three together (`MaxEvents`). Two breaks let a device come back twice, or come back while another
  does; two phones make a code contested, and two codes let one replace another that is
  being verified. At first all devices are connected.

One run shows a disagreement (`findings` quotes both sides):

* `auto_save_opened` -- a conversation is opened while a save of the one before is
  under way. Opening does not begin a new generation, so the notice of that save is
  heeded, and the next save of the opened conversation overwrites the other's file.

Met while modelling and not made into runs:

* *worktrees*: the fast-forward happens before the record says so, and Aura dying in
  between leaves `ready` (`worktree.py:322-339`); an approved discard whose save failed
  is finished by the next discard without ever having been saved (`worktree.py:440`,
  `371-375`); a change set without a checkout can never be discarded (`worktree.py:379`);
  a user who resets or changes branches between the last check of an apply and its
  merge gets the result there, if it is a fast forward (`worktree.py:317-322`).
* *tool calls*: an observer that raises on a shell result makes the history hold two
  results for one call (`shell_tool.py:322`); a Stop between the cancel check of a call
  and its admission makes the refusal blame an update nobody sent
  (`manager_tool_round.py:407-410`); a Stop between queued reads lets a synthesised
  result stand behind the results of later calls; deleting reads the shown text and
  the hashed bytes separately (`_write_mixin.py:548-553`).
* *patches*: a backup that raises leaves the files before it written, though the
  function promises all or rollback (`write_transaction.py:304`, `328`); a save between the
  verification and the write is overwritten, and only the backup has it.
* *consent*: a Stop that looks just before a question is registered leaves the tool
  thread waiting, with no timeout, for the person who pressed it
  (`plan_review_proxy.py:60-62`, `91`); a click on a card whose review is gone is recorded
  as approved (`plan_review_controller.py:80-84`); "Reject all in this turn" on the dialog of an
  MCP or dynamic tool rejects that one call (`diff_dialog.py:138`, `tools/executor.py:81`, `118`).
* *kept Agents*: "Agents stay browsable during a turn; every mutation is frozen"
  (`main_window.py:691`) does not hold for Keep Team and Save Agent, nor for a question
  that was open when a phone started the turn (`main_window_agents.py:727-732`); so two
  threads may read, change and write back the local state across each other, and a
  grant reported as kept is lost (`local_state.py:204-221`); an edit that fails half way
  leaves its new Agents behind once the turn ends, since what a retry would reuse is
  kept per turn (`workflow_authoring.py:34-35`); a definition with a line break other than a
  newline, or a retired model, is refused as "different content" when the keeping of its
  team is repeated after a failed write (`retention.py:254-263`), though "An identical
  definition already present at the same scope is a successful retry" (`store.py:243-244`).
* *persistence*: "only runs once the finished turn is safely on disk"
  (`main_window.py:738-739`) speaks of a save that has merely been started; two conversations
  whose first messages begin with like words, as those of all handoffs do, share a file
  when they are named in the same second, and the later save replaces the other's turns
  (`persistence.py:51-60`, `121-124`).
* *shell*: after a process died between two calls, a command runs in the workspace
  root although its start was announced with another directory (`events.py:83`).
* *relay*: unregistering by device id takes the session of a newer socket
  (`websocket.py:302`), and a phone told that it is not paired throws its token away
  (`socket.ts:124-126`); a welcome that fails leaves a session behind, since it stands
  before the `try`; a `pair.error` of the desktop names no phone, so the phone never
  hears of a refusal (`manager.py:315-325`); a restart forgets the pairings; a phone with an
  expired token is served all the same, and its screen learns of it by an `auth.error`.
* *companion*: the manager closes a chat and forgets the asking phone at the end of the
  first stream, so that the answer of a turn that called a tool first is sent to nobody
  (`manager.py:621-627`), though "A stream can end mid-turn" (`main_window.py:757`); a
  refused message still switches the current conversation (`manager.py:553-559`); a chat
  whose closing message is lost after its first delta, or whose screen was unavailable
  when it came, leaves the screen waiting until the person cancels, since the watchdog is
  gone (`Chat.tsx:68-69`, `124-125`); a cancel from any phone cancels any turn
  (`manager.py:568-570`).

### Fairness

* `Workflow`: the coordinator is one thread that never gives up its turn, and each
  child run returns, because a provider stream ends or its own timeout fires. Stop
  is never assumed.
* `TaskTurn`: each loop, each call that has begun and `request_cancel` go on; a model
  may propose tools only `MaxRounds` times.
* `Consent`: the tool thread goes on, a handler that has begun ends, and a posted
  event is taken in the end (strongly fair: pressing Stop for ever does not starve
  a queue that hands events out in order). A person need not answer.
* `ShellSession`: a tool call that can go on does, and its clock runs out
  (`collect_boundaries` looks at it between any two items). The process is never assumed
  to do anything.
* `Worktree`, `ApplyPatch`, `AutoSave`, `Companion`, `Relay` and `Authoring` check safety
  only. That the phone's screen comes back is stated as safety: for whoever waits without
  a watchdog something is still under way.

## What is proved

`WorkflowProofs` proves, for every number of Steps and every set of runnable plans,
what `workflow` checks for three Steps: `TypeOK`, `MutationExclusive`,
`QuiescentRetention`, `ImplementsDag`, and three facts that the run covers through
`ImplementsDag` and deadlock checking: `InputsReady` (a Step only starts behind
predecessors that succeeded), `NeverStuck` (the "could not settle every Step" error
is unreachable) and `RunsOnce`. The assumptions are those of `WorkflowPlan`: the
number of Steps is a positive natural number and every plan is `Runnable`.

None of the properties is inductive by itself. That an editing Step runs alone says
nothing of the Steps submitted in the next three steps of the launch loop; one has
to know what a *round* is. `IInv` is the conjunction of

* `PhaseInv`: what each phase leaves in the variables of the round;
* `RoundInv`: launched Steps and those still to launch are disjoint and unsettled;
* `LiveInv`: a live worker belongs to the round, so a wave never overlaps the last;
* `ExclusiveInv`: a Step of the round that may edit is the whole round;
* `InputsInv`: what a Step of the round waits for has succeeded, and stays so;
* `ReplyInv`, `OutcomeInv`: answers and recorded outcomes agree, outside the round
  and for the Steps that never ran;
* `ProgressInv`: the round is not empty while nobody has stopped it;
* `QuietInv`: no worker is live once the worktree is being retained.

There is one lemma per action (`StopPreserves` ... `ProjectPreserves`), over four
lemmas about the scheduler: a nonempty set of Steps has a first member, a wave is
made of ready Steps and contains an editing one only alone, and while a Step is
unsettled some Step is ready or blocked (by the least unsettled one, whose
predecessors all come earlier). Refinement then takes one lemma per step that
`DagRun` can see, and one for those it cannot.

What a run reports at its end, `HonestReport`, and what a stop may still start,
`StopHeeded`, need a second invariant on top of the first, `RInv`: a Step starts late only
out of the round that the stop ends (`LateInv`); the coordinator reaches the report
with every Step settled or the flag up (`SettledInv`); a Step is skipped because of
what it waits for, until those a stop left over are (`SkipInv`); at most one Step that
never ran is reported stopped (`StandInInv`); the observer was last shown what is
recorded (`ShownInv`); a completed run hands on what its terminal branches said
(`SaidInv`); and a worktree is open from the first write to `_checkpoint`
(`ClosedInv`).

`WorktreeProofs` proves `TypeOK`, `RecordsTrue`, `WorkKept` and `OnlyAsApproved` for any set of
change sets, branches and cases of what may go wrong, and any number of commits. What a
restart finds is the file, what the manager acts on
is its memory, and a failed save makes them differ. So `Books` says of each of the two
that it is `Sound` for what Git holds, and of the file in which few ways it lags
`Behind`; `SlotInv` who holds the slot; `AtInv` what each step of an operation knows
of its change set from the step before; and `Primary` what a merge needs: commits are
over the ones they were made on (`History`), a result is over its base (`Results`), and
what comes before the merge was the check, unless the user moved since.

`ApplyPatchProofs` proves `TypeOK`, `FilesAccountedFor` and `StaleNeverLands` for any number of
files and of saves by the person. The properties speak of the end of the call; what
makes them inductive is where it is. The files before `at` have been written and those
after it have not, and on the way back it is the other way round (`Unwritten`, `Kept`,
`NothingLeft`); a file that was written left its bytes in `original` and its copy in
`backup` (`Originals`); all were shown before the question (`AllShown`); and a number of a
save is used once (`Numbers`), so that a file changed during the question never verifies
(`Moved`).

`ConsentProofs` proves `TypeOK` and `OnlyOnYes` for any number of turns, requests and events. A
yes is given to a card or a dialog on the GUI thread and used by the tool thread.
`Asking` says that the slot and the dialog are those of the request that is waited for;
`Mail`, that an event in the queue is posted once and tells of nothing already answered;
`Backed`, that whatever stands for an approval, an acceptance or a rejection goes back to
the person's own. `TypeOK` bounds the queue of the GUI thread, and that bound is a
theorem only with `Backlog`: what the tool thread can still post before it must wait.

`StoreProofs` proves, of `AutoSave`, `TypeOK`, `OwnFile`, `TurnsKept` and `HandoffAsked`
for any number of turns, time stamps and generations, and any slugs. `OwnFile` needs
`Own`: the path of the live conversation, the file every save works on, and every notice
that will still be heeded name a file that the conversation they belong to took for its
own; and `Past`, that no save or notice is of a generation to come. `Named` says that a
save past choosing its name has one. `TurnsKept`, that no finished turn is lost, needs
`KInv`: a turn is of one conversation (`Finite`, `OwnTurns`); a turn that settles is in no
save yet (`Settling`); unless a conversation was reopened while a save of it was under
way, a finished turn is on the screen, in a save or in a file, and whatever a save may
overwrite it writes again, or the turns that it does not are excused (`KeptInv`); and a
name in use is the only one of its conversation (`NameInv`). `HandoffAsked` is an action
property; `Requested`, proved inductive on its own, says that a pending handoff, unless
excused, is of the turn that runs or has just finished.

Of `Authoring` it proves `AuthoringTypeOK`, `KeptIsThere`, `GrantsHonoured` and
`OneEditAtATime` for any Agents, teams, limits and numbers of edits, changes and faults.
What the two threads keep is four writes, so the invariant says how far each is
(`Progress`): what was defined stays defined, what was read of the grants is still so
unless two saves crossed, and behind its save a job's grants are written. `Wishes` says
that a person's grant speaks for no Agent that is being kept but "write", which is what
the preflight looked for; `Departing`, that a deletion, or a question about one, never
meets an Agent the tool thread keeps, because a build's Agents are new and the question
stays with those that were there before the turn began; `Untouched`, that stores nobody
changed hold only what was kept, as it is read back, from which `RetryOpen` follows.
`OneEditAtATime` needs `Edits`, that the history is a chain of graphs one edit apart with
its cursor on the file, and `Plans`, that an update is one edit from the graph it was made
from.

`ShellSessionProofs` proves `TypeOK`, `ToldOfReset` and `ResultTrue` for any number of
calls, shells, directories and pieces of output. The strengthening `CountedOn` says that
between calls, and in a call that found its shell alive, `believed` is the shell held;
`Recorded`, that a collected stdout boundary brought a completion record. `ResultTrue`,
that a call returns all of what the command wrote and nothing else, unless it says
otherwise, needs `RInv`: outside of calls a live shell has nothing on its way; during one,
each stream is in the order in which the shell wrote it, and what was collected plus what
is still in the pipe, the reader and the queue is what was written. The texts on their way
are counted, so four lemmas say what appending to and taking from a stream does to their
number.

`PhoneProofs` proves, of `Relay`, `TypeOK`, `PairingHolds` and `PairingKept` for any
number of phones, sockets and codes. Both properties speak of a phone that is served. The
invariant says how it came to be: each socket follows a break and those to come have no
handler (`Numbered`); a session names no socket before its hello and the newest one from
then on, unless it was taken (`Held`); the token a phone holds is claimed by the hello
that is under way, or has expired, or the session is authenticated by now (`Tokens`); a
code still to be used is the newest and has paired nobody (`Unused`); and whatever a phone
is recognised by, stored, held, claimed or on its way, goes back to a code that paired it
(`Known`).

Of `Companion`, for the same phones, it proves `ChatTypeOK` and `Answered` for any number
of phones, chats, rounds and faults. The invariant follows a chat: a phone sends its own,
each once (`Coming`); the pending one was taken and is of the phone noted with it, and the
one whose turn runs was taken too (`Taken`); a thread still at work has signalled streams
only, and the last signal of a turn is that it is through (`Thread`); what is on its way
back is the phone's own and of that chat's turn (`Going`); and what a screen waits for is
under way, or was missed (`Awaited`).

`TaskTurnProofs` proves `TypeOK`, `SteeringHeeded`, `StopIsFinal`, `CallsClosed` and
`ResultsFaithful` for any number of children, corrections and rounds, and any blocks of
calls. It is three invariants, one on top of the other.

* *Corrections.* The history of a loop is the first corrections, up to its cursor, and
  what it heard is that history (`Cursor`); an answer is taken with the corrections it
  had (`Replied`); a loop has an ending exactly when it is over (`Stage`); a task that is
  over accepts nothing (`Closed`). With `SteeringHeeded` they are inductive together, and
  `StopIsFinal` follows from one step of them.
* *Calls.* A call is in progress only while its loop is in a round (`BusyInv`). In a round
  the flushed calls are resolved, those behind one that is not dispatched are untried, a
  call returns nothing only after a stop, and one that is not a read is alone (`InOrder`);
  a result that is flushed, and a shell call's own, is behind the block (`AnswerInv`); a
  child works only under a running delegate call (`TeamInv`).
* *Order.* Results behind the block ascend, and are of flushed calls or of the one shell
  call that is next (`LogBounded`); a call that runs alone is the next to be flushed
  (`SerialNext`); and what a tool returned is there once it is flushed (`RealHeld`).

Below them are lemmas about the operators of the model: `Ordered` enumerates a set of
numbers, once and in increasing order (proved by the least counterexample, for there is no
induction here); a flush takes exactly the calls up to the first unresolved one, and appends
their results in order; a repair answers every call and keeps what was there.
`ResultsFaithful` is the only theorem with a hypothesis of its own, that no observer
raises: one that raises on the result of a shell call leaves two results for it (*tool calls*
above). `CallsClosed` and the others hold with observers that raise.

The assumptions are those named in the modules: the first conversation is one of them,
every conversation has a slug, bounds are natural numbers, the root is a directory, the
desktop is no phone, the Agents on disk, generated and to be born differ, and none has the
name of a tag of the model.

Only model-checked: liveness (`Terminates`, `StopUnblocksShown`, `CallsReturn`), which is
outside this prover. Every invariant and every other action property of a passing run
is a theorem too, and so is the refinement `ImplementsDag`. `OwnFileAlways` is refuted.

## Not modelled

A task whose conversation is reset, or whose workspace is switched, under it discards its
corrections (`invalidate`, `turn_updates.py:77-81`, `97-98`, called from `qt_bridge.py:437-438`
and `604-605`); `TaskTurn` ends its tasks with the conversation they began in.
The Cloudflare relay and the companion's browsing commands (the first is another
program beside `src/relay`, the second only read); replay of a conversation into the
chat view; the sandbox policy, hunk matching and syntax checks, which are pure text.
Rosters, and the compilation of teams and specs into graphs, are pure
checks that end in the plan `Workflow` starts from. Providers, validation of
command output, code intelligence, settings, updater and the GUI hold no protocol
state of their own; what they contribute (how a stream ends, that an observer may
raise, that a person presses Stop) is a choice in the models.

## Plan

The order is that of importance: first what can lose a person's work or their
consent, then what can lose a message.

1. Done: `Workflow` with its abstract promise and proofs, `Worktree`, `TaskTurn`,
   `ApplyPatch`, `Consent`, `AutoSave`, `ShellSession`, `Companion`, `Relay`,
   `Authoring`.
2. Proofs: of `Workflow`, `Worktree`, `ApplyPatch`, `Consent`, `AutoSave`, `ShellSession`,
   `Relay`, `TaskTurn`, `Companion` and `Authoring` every safety property is proved, for
   `AutoSave` all but the refuted one. Left are
   lemmas about the steps towards the ends that liveness promises: that what a wait is for
   is always under way.
3. `Steering`, an abstract specification of the log of corrections (each correction
   reaches every live loop before that loop's next tool, or is reported as not
   delivered), refined by `TaskTurn`.
4. `Relay` and `Companion` composed: the queues of one are the sessions of the other.
5. `WorkflowHelpers`: the recorder and the depth of nesting, composed with `Workflow`.
6. The pure algorithms (`graph_dag`,
   outcome projection) against reference definitions over bounded inputs.
