----------------------------- MODULE Authoring ------------------------------
(***************************************************************************)
(* Agents and Workflows that are kept, and the edits of a saved Workflow.   *)
(*                                                                          *)
(* Two threads of Aura write the same three stores.  The tool thread of a   *)
(* turn creates and updates Workflows for a model (WorkflowAuthoring); the  *)
(* GUI thread keeps the team a run generated, or one of its Agents          *)
(* (AgentTeamRetention), edits, undoes and deletes in the Agents window.    *)
(* Keeping is several writes: the Agents' definitions one by one, their     *)
(* grants in the local-state file (read, changed, written back), and the    *)
(* graph; each may fail and leave the rest for a retry.  The window refuses *)
(* its changes while a turn runs, but looks only before it asks "Delete?"   *)
(* or for a name, and a phone can start a turn while that question is open; *)
(* Keep Team and Save Agent do not look at all.                             *)
(*                                                                          *)
(* A graph is the sequence of edits that made it, newest last, each with    *)
(* the Agents the graph then uses; <<>> is no file.  An Agent's definition, *)
(* as its file is read back, is "own", what was written, "altered", what    *)
(* the parser makes of a text that does not survive it (a line break other  *)
(* than a newline, a retired model), or "edited".  Generated Agents ask for *)
(* "write"; an Agent without a recorded grant may read.                     *)
(*                                                                          *)
(* A definition named X_Something beside X is X with a plausible defect,    *)
(* used by the mutation runs of PROJECT.json only.                          *)
(***************************************************************************)
EXTENDS Naturals, Sequences

CONSTANTS
  Saved,      \* Agents on disk from the start
  Team,       \* Agents a run generated, which its card offers to keep
  Unborn,     \* ids the builds of this run may give to new Agents
  Reuses,     \* sets of Agents a model takes into a new Workflow beside a new one
  Lossy,      \* sets of Agents whose text the parser may alter, one for each run
  Limit,      \* states a history holds (DEFAULT_HISTORY_LIMIT)
  MaxEdits,   \* bound: edits of the run
  MaxChanges, \* bound: what a person changes about Agents
  MaxFaults,  \* bound: writes that fail
  MaxEvents   \* bound: edits, changes and failed writes together

ASSUME AgentsAssumption ==
  /\ Saved \cap Team = {} /\ Saved \cap Unborn = {} /\ Team \cap Unborn = {}
  /\ {"none", "workflow", "rename", "team"} \cap (Saved \cup Team \cup Unborn) = {}
ASSUME BoundsAssumption ==
  /\ Limit \in Nat \ {0, 1}
  /\ MaxEdits \in Nat /\ MaxChanges \in Nat /\ MaxFaults \in Nat /\ MaxEvents \in Nat

Agents == Saved \cup Team \cup Unborn

ASSUME ReusesAssumption == Reuses \subseteq SUBSET Agents
ASSUME LossyAssumption == Lossy \subseteq SUBSET (Team \cup Unborn)

Threads == {"tool", "gui"}
Edit == [n : 0 .. MaxEdits, uses : SUBSET Agents]

VARIABLES
  lossy,    \* the Agents whose text the parser alters
  defs,     \* the definition files, as they are read back
  grants,   \* permissions in the local-state file
  graph,    \* the Workflow that is edited, on disk
  files,    \* Workflows that were kept or created: "team", "new"
  hist,     \* its GraphHistory
  shown,    \* the graph the Agents window holds
  doc,      \* the document the chat last showed of it, to a person or a model
  built,    \* the build a retry of this turn reuses (_pending, _pending_updates)
  turn,     \* a turn runs
  dialog,   \* the question that is open over the Agents window
  kept,     \* what the card says is kept: "team", or one of its Agents
  job       \* what each thread is in the middle of

\* Bounds, and history variables, which only the properties read.
VARIABLES
  edits,     \* edits so far
  changes,  \* Agents edited, deleted or granted something by a person so far
  faults,   \* failed writes so far
  born,     \* ids given to new Agents
  wish,     \* the grant a person chose for an Agent and nobody changed since
  told,     \* Agents reported as saved that a person left alone since
  crossed,  \* a save of the local state overwrote one made since its own read
  outside   \* the Workflow's file was last written by somebody else

stores == <<defs, grants, graph, files>>
window == <<hist, shown, doc, dialog, kept>>
turnVars == <<built, turn>>
counts == <<edits, changes, faults, born>>
ghosts == <<wish, told, crossed, outside>>
authoringVars == <<lossy, stores, window, turnVars, job, counts, ghosts>>

-----------------------------------------------------------------------------
(* What the stores say.                                                     *)

Defined == {a \in Agents : defs[a] # "none"}
Permission(a) == IF grants[a] = "none" THEN "read" ELSE grants[a]
Uses(g) == g[Len(g)].uses

\* What the definition file of a new Agent is read back as.
ReadBack(a) == IF a \in lossy THEN "altered" ELSE "own"

NoDocument == [graph |-> <<>>, agents |-> <<>>]

\* A Workflow with its Agents and their grants, which its revision is made of;
\* none when the file or the definition of an Agent is missing.
Document ==
  IF graph # <<>> /\ Uses(graph) \subseteq Defined
  THEN [graph |-> graph, agents |-> [a \in Uses(graph) |-> <<defs[a], Permission(a)>>]]
  ELSE NoDocument

\* What is to be kept: new Agents, and the reused ones as they were read.
Facts(new, reused) ==
  [new |-> new,
   asked |-> [a \in new \cup reused |-> IF a \in new THEN "write" ELSE Permission(a)],
   was |-> [a \in reused |-> defs[a]]]

TeamFacts ==
  [new |-> Team,
   asked |-> [a \in Team \cup Saved |-> IF a \in Team THEN "write" ELSE "read"],
   was |-> [a \in Saved |-> "own"]]

Preflight_OverExplicit(f) ==
  LET existing == f.new \cap Defined IN
  /\ \A a \in existing : defs[a] = "own"
  /\ \A a \in DOMAIN f.was : defs[a] = f.was[a]
  /\ \A a \in DOMAIN f.was \ existing : Permission(a) = f.asked[a]

\* Nothing of what is to be kept contradicts what is on disk: only an Agent
\* whose definition was written and whose grant was not may differ.  A
\* definition is compared as it is read back, so that one the parser alters is
\* refused as "different content" although this same keeping wrote it.
Preflight(f) ==
  LET existing == f.new \cap Defined IN
  /\ \A a \in existing : defs[a] = "own"
  /\ \A a \in DOMAIN f.was : defs[a] = f.was[a]
  /\ \A a \in existing \cup DOMAIN f.was :
       \/ Permission(a) = f.asked[a]
       \/ a \in existing /\ grants[a] = "none"

NoGrants == [a \in Agents |-> "none"]
NoFacts == [new |-> {}, asked |-> <<>>, was |-> <<>>]
Idle == [pc |-> "idle", kind |-> "none", facts |-> NoFacts, left |-> {},
         graph |-> <<>>, base |-> NoDocument, read |-> NoGrants]
NoBuild == [kind |-> "none", facts |-> NoFacts, graph |-> <<>>, base |-> NoDocument]

AuthoringInit ==
  /\ lossy \in Lossy
  /\ defs = [a \in Agents |-> IF a \in Saved THEN "own" ELSE "none"]
  /\ grants = NoGrants
  /\ graph = <<[n |-> 0, uses |-> Saved]>> /\ files = {}
  /\ hist = [states |-> <<>>, at |-> 0]
  /\ shown = graph /\ doc = Document
  /\ built = NoBuild /\ turn = FALSE /\ dialog = "none" /\ kept = {}
  /\ job = [t \in Threads |-> Idle]
  /\ edits = 0 /\ changes = 0 /\ faults = 0 /\ born = {}
  /\ wish = NoGrants /\ told = {}
  /\ crossed = FALSE /\ outside = FALSE

Free(t) == job[t].pc = "idle"
Ends(t) == job' = [job EXCEPT ![t] = Idle]

\* The bounds leave room for one more.
Room == edits + changes + faults < MaxEvents
CanEdit == edits < MaxEdits /\ Room
Changed == changes < MaxChanges /\ Room /\ changes' = changes + 1
Fault == faults < MaxFaults /\ Room /\ faults' = faults + 1

\* The window and the cards read the stores again; a card not while a turn
\* runs, and it keeps what it shows when the document cannot be loaded.
Refreshed ==
  /\ shown' = graph'
  /\ doc' = IF turn \/ Document' = NoDocument THEN doc ELSE Document'

-----------------------------------------------------------------------------
(* Edits and their history (WorkflowEdits, GraphHistory).                   *)

\* The history of the Workflow; it starts again from a file it did not write.
History ==
  IF hist.states # <<>> /\ hist.states[hist.at] = graph THEN hist
  ELSE [states |-> <<graph>>, at |-> 1]

Pushed_Untrimmed(h, g) ==
  LET states == Append(SubSeq(h.states, 1, h.at), g) IN
  [states |-> states, at |-> Len(states)]

Pushed(h, g) ==
  LET states == Append(SubSeq(h.states, 1, h.at), g) IN
  IF Len(states) > Limit THEN [states |-> Tail(states), at |-> Limit]
  ELSE [states |-> states, at |-> Len(states)]

Checked_AnyGraph(before) == before # <<>> /\ graph # <<>>

\* An edit is saved over the graph it was made from, and over no other.  A lock
\* keeps other edits out between the comparison and the save; an outside write
\* and the window's Delete, which do not take it, fall before or after both.
Checked(before) == before # <<>> /\ before = graph

SaveEdit(before, after) ==
  /\ Checked(before)
  /\ graph' = after
  /\ hist' = Pushed(History, after)
  /\ outside' = FALSE
  /\ UNCHANGED faults

\* The save fails; a step has its cursor put back.
SaveFails == Fault /\ hist' = History /\ UNCHANGED <<graph, outside>>

SaveStep(redo) ==
  LET at == IF redo THEN History.at + 1 ELSE History.at - 1 IN
  /\ at \in DOMAIN History.states
  /\ \/ /\ graph' = History.states[at]
        /\ hist' = [History EXCEPT !.at = at]
        /\ outside' = FALSE
        /\ UNCHANGED faults
     \/ SaveFails

NewEdit(g, uses) == Append(g, [n |-> edits + 1, uses |-> uses])

-----------------------------------------------------------------------------
(* The Agents window.                                                       *)

\* No question is open, and the GUI thread is in the middle of nothing.
AtWindow == Free("gui") /\ dialog = "none"

\* _mutations_allowed
Allowed == AtWindow /\ ~turn

\* An edit of the canvas.  The lock of the edits is the tool thread's while
\* that is in the middle of one.
Commit ==
  /\ Free("tool") /\ Checked(shown) /\ CanEdit
  /\ LET g == NewEdit(shown, Uses(shown)) IN
     \/ SaveEdit(shown, g) /\ shown' = g /\ edits' = edits + 1
     \/ SaveFails /\ UNCHANGED <<shown, edits>>
  /\ UNCHANGED <<defs, grants, files, doc, kept, turnVars, job, changes, born, wish, told, crossed>>

CanvasEdit == Allowed /\ Commit /\ UNCHANGED dialog

CanvasStep ==
  /\ Allowed /\ Checked(shown)
  /\ \E redo \in BOOLEAN : SaveStep(redo)
  /\ shown' = graph'
  /\ UNCHANGED <<defs, grants, files, doc, dialog, kept, turnVars, job, edits, changes, born,
                 wish, told, crossed>>

\* Undo on the card of a Workflow.  Its answer is the document, so that a step
\* to a graph with a missing Agent is reported as an error.
CardUndo ==
  /\ Allowed /\ doc # NoDocument /\ doc = Document
  /\ SaveStep(FALSE)
  /\ UNCHANGED <<defs, grants, files, dialog, kept, turnVars, job, edits, changes, born,
                 wish, told, crossed>>
  /\ IF Document' = NoDocument THEN UNCHANGED <<shown, doc>> ELSE Refreshed

\* The window is drawn again: when it opens, or some time after a change.
Redraw ==
  /\ AtWindow
  /\ UNCHANGED <<stores, hist, dialog, kept, turnVars, job, counts, ghosts>>
  /\ Refreshed

\* The person grants an Agent something else.
SetPermission(a, p) ==
  /\ Allowed /\ a \in Defined
  /\ grants' = [grants EXCEPT ![a] = p]
  /\ wish' = [wish EXCEPT ![a] = p]
  /\ Changed /\ told' = told \ {a}
  /\ UNCHANGED <<defs, graph, files, window, turnVars, job, edits, faults, born, crossed, outside>>

\* The person saves another text for an Agent.
EditAgent(a) ==
  /\ Allowed /\ defs[a] \in {"own", "altered"}
  /\ defs' = [defs EXCEPT ![a] = "edited"]
  /\ Changed /\ told' = told \ {a}
  /\ UNCHANGED <<grants, graph, files, window, turnVars, job, edits, faults, born,
                 wish, crossed, outside>>

\* A question opens: a new name, or is this to be deleted?
Question(q) ==
  /\ Allowed
  /\ \/ q \in Defined
     \/ q \in {"workflow", "rename"} /\ shown # <<>>
  /\ dialog' = q
  /\ UNCHANGED <<stores, hist, shown, doc, kept, turnVars, job, counts, ghosts>>

Decline ==
  /\ dialog # "none"
  /\ dialog' = "none"
  /\ UNCHANGED <<stores, hist, shown, doc, kept, turnVars, job, counts, ghosts>>

Rename == dialog = "rename" /\ Commit /\ dialog' = "none"

\* The file goes, whoever is about to save it, and the window reads again.
DeleteWorkflow ==
  /\ dialog = "workflow" /\ graph # <<>>
  /\ graph' = <<>> /\ dialog' = "none"
  /\ UNCHANGED <<defs, grants, files, hist, kept, turnVars, job, counts, ghosts>>
  /\ Refreshed

\* The definition goes first, then what was decided about the Agent (forget).
DeleteAgent(a) ==
  /\ dialog = a /\ a \in Defined
  /\ defs' = [defs EXCEPT ![a] = "none"]
  /\ dialog' = "none"
  /\ job' = [job EXCEPT !["gui"] = [Idle EXCEPT !.pc = "load", !.kind = "delete",
                                                !.facts = Facts({a}, {})]]
  /\ wish' = [wish EXCEPT ![a] = "none"]
  /\ Changed /\ told' = told \ {a}
  /\ UNCHANGED <<grants, graph, files, hist, shown, doc, kept, turnVars, edits, faults, born,
                 crossed, outside>>

-----------------------------------------------------------------------------
(* Keeping (AgentTeamRetention), on either thread.                          *)

StartKeeping(t, kind, f, g, base) ==
  /\ Preflight(f)
  /\ job' = [job EXCEPT ![t] =
       [Idle EXCEPT !.pc = IF f.new = {} THEN "commit" ELSE "define", !.kind = kind,
                    !.facts = f, !.left = f.new, !.graph = g, !.base = base]]

\* Keep Team, and Save Agent for one of its Agents, until they succeed.
Keep ==
  /\ AtWindow /\ "team" \notin kept
  /\ StartKeeping("gui", "team", TeamFacts, <<>>, NoDocument)
  /\ UNCHANGED <<stores, window, turnVars, counts, ghosts>>

SaveAgent(a) ==
  /\ AtWindow /\ a \notin kept
  /\ StartKeeping("gui", "agent", [new |-> {a}, asked |-> [b \in {a} |-> "write"], was |-> <<>>],
           <<>>, NoDocument)
  /\ UNCHANGED <<stores, window, turnVars, counts, ghosts>>

\* A definition that is there already has to be the one that is asked for.
Define(t) ==
  /\ job[t].pc = "define"
  /\ \E a \in job[t].left :
       IF defs[a] \in {"none", "own"}
       THEN /\ defs' = [defs EXCEPT ![a] = IF @ = "none" THEN ReadBack(a) ELSE @]
            /\ job' = [job EXCEPT ![t].left = @ \ {a},
                                  ![t].pc = IF job[t].left = {a} THEN "load" ELSE @]
       ELSE Ends(t) /\ UNCHANGED defs
  /\ UNCHANGED <<grants, graph, files, window, turnVars, counts, ghosts>>

\* The local state is read; an Agent that is there again is not forgotten.
Load(t) ==
  /\ job[t].pc = "load"
  /\ IF job[t].kind = "delete" /\ job[t].facts.new \subseteq Defined THEN Ends(t)
     ELSE job' = [job EXCEPT ![t].pc = "save", ![t].read = grants]
  /\ UNCHANGED <<stores, window, turnVars, counts, ghosts>>

AfterSave(kind) == IF kind = "agent" THEN "tell" ELSE "commit"

\* It is written back with the change, if it is one: set_permissions, and
\* retain_available_agent and forget, which change the list of available Agents
\* too, so that they may write without a change to the grants.
SaveState(t) ==
  /\ job[t].pc = "save"
  /\ LET new == [a \in Agents |->
                  IF a \notin job[t].facts.new THEN job[t].read[a]
                  ELSE IF job[t].kind = "delete" THEN "none" ELSE "write"]
     IN \/ new = job[t].read /\ UNCHANGED <<grants, crossed>>
        \/ /\ new # job[t].read \/ job[t].kind \in {"agent", "delete"}
           /\ grants' = new /\ crossed' = (crossed \/ grants # job[t].read)
  /\ IF job[t].kind = "delete" THEN Ends(t)
     ELSE job' = [job EXCEPT ![t].pc = AfterSave(job[t].kind), ![t].read = NoGrants]
  /\ UNCHANGED <<defs, graph, files, window, turnVars, counts,
                 wish, told, outside>>

\* The graph is written: a new file, or over the revision that was updated
\* (WorkflowAuthoring.update), which has to be the current one still.
Create(t) ==
  /\ job[t].pc = "commit" /\ job[t].kind \in {"team", "new"}
  /\ files' = files \cup {job[t].kind}
  /\ job' = [job EXCEPT ![t].pc = "tell"]
  /\ UNCHANGED <<defs, grants, graph, window, turnVars, counts, ghosts>>

Update(t) ==
  /\ job[t].pc = "commit" /\ job[t].kind = "update"
  /\ IF Document = job[t].base /\ Checked(job[t].base.graph)
     THEN \/ /\ SaveEdit(job[t].base.graph, job[t].graph)
             /\ job' = [job EXCEPT ![t].pc = "tell"]
          \/ SaveFails /\ Ends(t)
     ELSE Ends(t) /\ UNCHANGED <<graph, hist, outside, faults>>
  /\ UNCHANGED <<defs, grants, files, shown, doc, dialog, kept, turnVars, edits, changes, born,
                 wish, told, crossed>>

Writing(t) ==
  \/ job[t].pc \in {"define", "load", "save"}
  \/ job[t].pc = "commit" /\ job[t].kind # "update"

WriteFails_Unnoticed(t) ==
  /\ Writing(t)
  /\ Fault
  /\ IF job[t].pc = "save" /\ job[t].kind # "delete"
     THEN job' = [job EXCEPT ![t].pc = AfterSave(job[t].kind)]
     ELSE Ends(t)
  /\ UNCHANGED <<stores, window, turnVars, edits, changes, born, ghosts>>

\* A write fails; the call, or the click, reports it and may be repeated.
WriteFails(t) ==
  /\ Writing(t)
  /\ Fault /\ Ends(t)
  /\ UNCHANGED <<stores, window, turnVars, edits, changes, born, ghosts>>

\* "Kept", "Saved": the card hides its button, the window is drawn again.
TellCard ==
  LET j == job["gui"] IN
  /\ j.pc = "tell"
  /\ kept' = kept \cup (IF j.kind = "team" THEN {"team"} ELSE j.facts.new)
  /\ told' = told \cup j.facts.new
  /\ UNCHANGED <<stores, hist, dialog, turnVars, counts, wish, crossed, outside>>
  /\ Refreshed /\ Ends("gui")

\* A tool's answer is the document, so that it reports an error when an Agent
\* went missing although the graph is saved.
TellTool ==
  LET j == job["tool"]
      shows == IF j.kind = "update" THEN Document # NoDocument ELSE Uses(j.graph) \subseteq Defined
  IN
  /\ j.pc = "tell"
  /\ doc' = IF j.kind = "update" /\ shows THEN Document ELSE doc
  /\ told' = IF shows THEN told \cup j.facts.new ELSE told
  /\ Ends("tool")
  /\ UNCHANGED <<stores, hist, shown, dialog, kept, turnVars, counts,
                 wish, crossed, outside>>

-----------------------------------------------------------------------------
(* A turn and its tools (WorkflowAuthoring).                                *)

TurnStarts ==
  /\ ~turn /\ Free("gui")
  /\ turn' = TRUE
  /\ UNCHANGED <<stores, window, built, job, counts, ghosts>>

\* The next turn has an authoring context of its own, with nothing to retry.
TurnIsOver ==
  /\ turn /\ Free("gui") /\ Free("tool")
  /\ turn' = FALSE /\ built' = NoBuild
  /\ shown' = graph /\ doc' = IF Document = NoDocument THEN doc ELSE Document
  /\ UNCHANGED <<stores, hist, dialog, kept, job, counts, ghosts>>

AtTool == turn /\ Free("tool")

Inspect ==
  /\ AtTool /\ Document # NoDocument
  /\ doc' = Document
  /\ UNCHANGED <<stores, hist, shown, dialog, kept, turnVars, job, counts, ghosts>>

\* A revision of the Workflow the model was shown, which must be the current one.
Current == doc # NoDocument /\ doc = Document

\* A new Workflow, or a revision of the one it saw; a new Agent in either.
Build(kind, new, reused) ==
  /\ AtTool /\ CanEdit
  /\ new \cap born = {} /\ reused \subseteq Defined /\ new \cup reused # {}
  /\ IF kind = "update" THEN Current ELSE "new" \notin files
  /\ LET f == Facts(new, reused)
         base == IF kind = "update" THEN doc ELSE NoDocument
         g == NewEdit(base.graph, new \cup reused)
     IN /\ built' = [kind |-> kind, facts |-> f, graph |-> g, base |-> base]
        /\ StartKeeping("tool", kind, f, g, base)
  /\ edits' = edits + 1 /\ born' = born \cup new
  /\ UNCHANGED <<stores, window, turn, changes, faults, ghosts>>

\* The same call again in the same turn takes the build it had.
Retry ==
  /\ AtTool /\ built # NoBuild
  /\ built.kind = "update" => Current /\ doc = built.base
  /\ StartKeeping("tool", built.kind, built.facts, built.graph, built.base)
  /\ UNCHANGED <<stores, window, turnVars, counts, ghosts>>

ToolUndo ==
  /\ AtTool /\ Current
  /\ SaveStep(FALSE)
  /\ UNCHANGED <<defs, grants, files, shown, dialog, kept, turnVars, job, edits, changes, born,
                 wish, told, crossed>>
  /\ doc' = IF Document' = NoDocument THEN doc ELSE Document'

-----------------------------------------------------------------------------
\* Another window of Aura, Git or an editor writes the Workflow's file.
WrittenOutside ==
  /\ graph # <<>> /\ CanEdit
  /\ graph' = <<[n |-> edits + 1, uses |-> Uses(graph)]>>
  /\ edits' = edits + 1 /\ outside' = TRUE
  /\ UNCHANGED <<defs, grants, files, window, turnVars, job, changes, faults, born,
                 wish, told, crossed>>

Keeping(t) == Define(t) \/ Load(t) \/ SaveState(t) \/ Create(t) \/ Update(t) \/ WriteFails(t)

Person ==
  \/ CanvasEdit \/ CanvasStep \/ CardUndo \/ Redraw \/ Keep
  \/ Decline \/ Rename \/ DeleteWorkflow
  \/ \E a \in Agents : \/ EditAgent(a) \/ DeleteAgent(a)
                       \/ \E p \in {"read", "write"} : SetPermission(a, p)
  \/ \E a \in Team : SaveAgent(a)
  \/ \E q \in Agents \cup {"workflow", "rename"} : Question(q)

\* An update goes on with the Agents the Workflow has.
Model ==
  \/ Inspect \/ Retry \/ ToolUndo
  \/ \E new \in {{}} \cup {{a} : a \in Unborn} :
       \/ \E reused \in Reuses : Build("new", new, reused)
       \/ doc # NoDocument /\ Build("update", new, Uses(doc.graph))

AuthoringNext ==
  /\ \/ Person \/ Model \/ TurnStarts \/ TurnIsOver \/ WrittenOutside
     \/ \E t \in Threads : Keeping(t)
     \/ TellCard \/ TellTool
  /\ UNCHANGED lossy

AuthoringSpec == AuthoringInit /\ [][AuthoringNext]_authoringVars

-----------------------------------------------------------------------------
(* Properties.                                                              *)

Grant == {"none", "read", "write"}

AuthoringTypeOK ==
  /\ lossy \in Lossy
  /\ defs \in [Agents -> {"none", "own", "altered", "edited"}]
  /\ grants \in [Agents -> Grant] /\ wish \in [Agents -> Grant]
  /\ \A g \in {graph, shown, doc.graph} :
       \A i \in DOMAIN g : g[i] \in Edit
  /\ files \subseteq {"team", "new"} /\ kept \subseteq Team \cup {"team"}
  /\ Len(hist.states) <= Limit /\ hist.at \in 0 .. Len(hist.states)
  /\ turn \in BOOLEAN /\ dialog \in Agents \cup {"none", "workflow", "rename"}
  /\ \A t \in Threads :
       /\ job[t].pc \in {"idle", "define", "load", "save", "commit", "tell"}
       /\ job[t].left \subseteq job[t].facts.new
       /\ job[t].read \in [Agents -> Grant]
  /\ ~turn => Free("tool") /\ built = NoBuild
  /\ edits \in 0 .. MaxEdits /\ changes \in 0 .. MaxChanges /\ faults \in 0 .. MaxFaults
  /\ born \subseteq Unborn /\ told \subseteq Agents
  /\ crossed \in BOOLEAN /\ outside \in BOOLEAN

\* What was kept is there: an Agent reported as saved has its definition, as
\* the parser reads that, and the grant it asked for until a person changes that, and a kept team has its
\* Workflow, unless two saves of the local state crossed each other.
KeptIsThere ==
  /\ ~crossed => \A a \in told : defs[a] = ReadBack(a) /\ grants[a] = "write"
  /\ "team" \in kept => "team" \in files

\* A grant a person chose is never replaced by one that a build asked for.
WishesStand == ~crossed => \A a \in Agents : wish[a] # "none" => grants[a] = wish[a]

\* However many of its writes failed, keeping the team is still possible as
\* long as the person has changed none of its Agents and no definition was
\* written that the parser alters: that one shuts the team out for good.
RetryOpen ==
  changes = 0 /\ (\A a \in Team \cap lossy : defs[a] = "none") => Preflight(TeamFacts)

GrantsHonoured == WishesStand /\ RetryOpen

\* One graph differs from the other by its latest edit.
OneApart(g, h) ==
  \/ Len(h) = Len(g) + 1 /\ SubSeq(h, 1, Len(g)) = g
  \/ Len(g) = Len(h) + 1 /\ SubSeq(g, 1, Len(h)) = h

\* The history's cursor is on the file Aura wrote last, and its states follow
\* each other.
CursorTrue ==
  /\ hist.states # <<>> /\ graph # <<>> /\ ~outside => hist.states[hist.at] = graph
  /\ \A i \in 1 .. Len(hist.states) - 1 : OneApart(hist.states[i], hist.states[i + 1])

\* Whoever edits or takes back, canvas, card or model, the file moves by exactly
\* one edit: no edit is swallowed by one made from an older graph, and an undo
\* takes back one edit and no more, even after saves that failed.
OneEditAtATime ==
  [][/\ CursorTrue'
     /\ graph' # graph /\ graph' # <<>> /\ ~outside' => OneApart(graph, graph')]_authoringVars
=============================================================================
