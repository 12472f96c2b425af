------------------------------ MODULE Worktree ------------------------------
(***************************************************************************)
(* The life of writable Agents' change sets: AgentWorktreeManager          *)
(* (aura/agents/worktree.py) over Git and its record file state.json.      *)
(*                                                                         *)
(* The manager runs one operation at a time under its lock, but an         *)
(* operation is a series of Git commands and saves, and Aura may die       *)
(* between any two of them: "at" says which one comes next.  The lock is   *)
(* free while a child works and while a person is asked to approve.        *)
(*                                                                         *)
(* A definition named X_Something beside X is X with a plausible defect,   *)
(* used by the mutation runs of PROJECT.json only.                         *)
(***************************************************************************)
EXTENDS Integers, FiniteSets

CONSTANTS
  ChangeSets,  \* the change sets that may be created
  MaxHead,     \* bound on the commits the primary repository may receive
  Branches,    \* what may be checked out in the primary worktree
  Worlds,      \* what may go wrong, in each of the cases considered
  NoOne        \* no change set

ASSUME BoundsAssumption == MaxHead \in Nat /\ Branches # {}
ASSUME WorldsAssumption ==
  Worlds \subseteq [savesFail : BOOLEAN, crashes : BOOLEAN, wanders : BOOLEAN,
                    sets : SUBSET ChangeSets, commits : 0 .. MaxHead]
ASSUME NoOneAssumption == NoOne \notin ChangeSets

VARIABLES
  world,    \* the case, which never changes
  mem,      \* _records: what the manager holds for each change set
  disk,     \* state.json, written whole
  active,   \* _active_id, the writable slot
  pending,  \* a workspace switch waits for the slot
  at,       \* the next step of the operation under way, or "idle"
  cs,       \* the change set that operation is about
  why,      \* what the operation is for
  token,    \* record.token(), taken before an approval is asked for
  tree,     \* the linked worktree: absent, clean or edited
  ref,      \* its branch: absent, at the base, or ahead of it by edits
  base,     \* record.base_sha, frozen when a change set is created
  home,     \* record.primary_ref, frozen with it
  head,     \* HEAD of the primary worktree, a commit numbered as it was made
  on,       \* the branch checked out there
  dirty,    \* the primary worktree has uncommitted changes
  made,     \* the last commit made on a primary branch
  over,     \* what each of these commits holds: itself and all its ancestors
  became,   \* the commit that is the result of a change set, once it is among them
  landed,   \* history: change sets whose result reached the primary worktree
  dropped,  \* history: change sets whose discard a person approved
  moved     \* history: the user was there between the last check and the merge

book  == <<mem, disk>>
slot  == <<active, pending>>
git   == <<tree, ref>>
user  == <<head, on, dirty, made, over>>
past  == <<base, home, became, landed, dropped, moved>>
vars  == <<world, book, slot, at, cs, why, token, git, user, past>>

SavesFail == world.savesFail  \* writing the record file may fail
Crashes   == world.crashes    \* Aura may die and be started again
Wanders   == world.wanders    \* the user may leave the branch or the commit

InCase(n) == n <= world.commits  \* bound: the commits of this case

Steps  == {"add", "addFailed", "undoAdd", "activate", "commit", "stage", "committed",
           "sweep", "swept", "dropRef", "forget", "ask", "merge", "landed"}
Free   == {"idle", "child", "asked"}
Reasons == {"none", "create", "checkpoint", "discard", "empty", "apply", "drop", "landed"}

Records == [state  : {"none", "creating", "active", "recovery", "empty", "ready",
                      "applied", "discarding"},
            path   : BOOLEAN,     \* worktree_path is recorded
            result : BOOLEAN]     \* result_sha is recorded

NoRecord == [state |-> "none", path |-> FALSE, result |-> FALSE]

Commits == 0 .. MaxHead

Unborn == -1

TypeOK ==
  /\ world \in Worlds
  /\ mem \in [ChangeSets -> Records]
  /\ disk \in [ChangeSets -> Records]
  /\ active \in ChangeSets \cup {NoOne}
  /\ pending \in BOOLEAN
  /\ at \in Steps \cup Free
  /\ cs \in ChangeSets \cup {NoOne}
  /\ why \in Reasons
  /\ token \in Records
  /\ tree \in [ChangeSets -> {"absent", "clean", "edited"}]
  /\ ref \in [ChangeSets -> {"absent", "base", "ahead"}]
  /\ head \in Commits /\ made \in Commits
  /\ on \in Branches
  /\ dirty \in BOOLEAN /\ moved \in BOOLEAN
  /\ over \in [Commits -> SUBSET Commits]
  /\ base \in [ChangeSets -> {Unborn} \cup Commits]
  /\ became \in [ChangeSets -> {Unborn} \cup Commits]
  /\ home \in [ChangeSets -> Branches]
  /\ landed \subseteq ChangeSets
  /\ dropped \subseteq ChangeSets

Init ==
  /\ world \in Worlds
  /\ mem = [c \in ChangeSets |-> NoRecord]
  /\ disk = mem
  /\ active = NoOne
  /\ pending = FALSE
  /\ at = "idle"
  /\ cs = NoOne
  /\ why = "none"
  /\ token = NoRecord
  /\ tree = [c \in ChangeSets |-> "absent"]
  /\ ref = [c \in ChangeSets |-> "absent"]
  /\ head = 0
  /\ \E b \in Branches : on = b /\ home = [c \in ChangeSets |-> b]
  /\ dirty = FALSE
  /\ made = 0
  /\ over = [n \in Commits |-> IF n = 0 THEN {0} ELSE {}]
  /\ base = [c \in ChangeSets |-> Unborn]
  /\ became = base
  /\ landed = {}
  /\ dropped = {}
  /\ moved = FALSE
-----------------------------------------------------------------------------
(* Saving and the slot. *)

With(state) == [mem EXCEPT ![cs].state = state]
Forgotten   == [mem EXCEPT ![cs] = NoRecord]

Saved(m)  == disk' = m
SaveFails == SavesFail /\ disk' = disk
(* try: save, except: pass *)
TriedToSave(m) == Saved(m) \/ SaveFails

Rest == at' = "idle" /\ cs' = NoOne /\ why' = "none" /\ token' = NoRecord
Go(step, reason) == at' = step /\ cs' = cs /\ why' = reason /\ token' = token

(* _release_active; a workspace switch that waited for it reloads the book.*)
Release(m) ==
  /\ active' = NoOne
  /\ pending' = FALSE
  /\ mem' = IF pending THEN disk' ELSE m

(* The way a failed operation leaves: only a checkpoint holds the slot.    *)
InCheckpoint == why \in {"checkpoint", "discard", "empty"}
Leave_WithoutFinally(m) == mem' = m /\ UNCHANGED slot /\ Rest

Leave(m) ==
  /\ IF InCheckpoint THEN Release(m) ELSE mem' = m /\ UNCHANGED slot
  /\ Rest
-----------------------------------------------------------------------------
(* create: the record first, then the linked worktree on its own branch. *)

(* prepare, then the journal.  When this save fails the record is dropped  *)
(* again and nothing has changed.                                          *)
Create(c) ==
  /\ at = "idle"
  /\ active = NoOne
  /\ base[c] = Unborn /\ c \in world.sets
  /\ ~dirty
  /\ mem' = [mem EXCEPT ![c] = [state |-> "creating", path |-> TRUE, result |-> FALSE]]
  /\ Saved(mem')
  /\ base' = [base EXCEPT ![c] = head]
  /\ home' = [home EXCEPT ![c] = on]
  /\ at' = "add" /\ cs' = c /\ why' = "create" /\ token' = token
  /\ UNCHANGED <<slot, git, user, became, landed, dropped, moved>>

(* git worktree add -b: it may fail having made the branch, or both; and   *)
(* what is not an AgentWorktreeError leaves the record as it is.           *)
Add ==
  /\ at = "add"
  /\ \/ /\ tree' = [tree EXCEPT ![cs] = "clean"]
        /\ ref' = [ref EXCEPT ![cs] = "base"]
        /\ UNCHANGED mem
        /\ Go("activate", why)
     \/ /\ \/ UNCHANGED git
           \/ ref' = [ref EXCEPT ![cs] = "base"] /\ UNCHANGED tree
           \/ ref' = [ref EXCEPT ![cs] = "base"] /\ tree' = [tree EXCEPT ![cs] = "clean"]
        /\ mem' = With("recovery")
        /\ Go("addFailed", why)
     \/ Rest /\ UNCHANGED <<git, mem>>
  /\ UNCHANGED <<disk, slot, user, past>>

KeepFailedAdd ==
  /\ at = "addFailed"
  /\ \/ Saved(mem) /\ Go("undoAdd", why)
     \/ SaveFails /\ Rest
  /\ UNCHANGED <<mem, slot, git, user, past>>

UndoAdd_AlwaysForgets ==
  /\ at = "undoAdd"
  /\ \/ /\ tree[cs] = "clean"
        /\ tree' = [tree EXCEPT ![cs] = "absent"]
        /\ UNCHANGED ref
     \/ UNCHANGED git
  /\ Go("forget", why)
  /\ UNCHANGED <<book, slot, user, past>>

(* cleanup_failed: a clean worktree, then the branch; either may stay.     *)
UndoAdd ==
  /\ at = "undoAdd"
  /\ \/ /\ tree[cs] = "clean"
        /\ tree' = [tree EXCEPT ![cs] = "absent"]
        /\ Go("undoAdd", why)
        /\ UNCHANGED ref
     \/ /\ tree[cs] = "absent"
        /\ ref' = [ref EXCEPT ![cs] = "absent"]
        /\ Go("forget", why)
        /\ UNCHANGED tree
     \/ Rest /\ UNCHANGED git
  /\ UNCHANGED <<book, slot, user, past>>

(* The slot is taken, then saved; a failed save hands the slot back.       *)
Activate ==
  /\ at = "activate"
  /\ \/ /\ mem' = With("active")
        /\ Saved(mem')
        /\ active' = cs
        /\ Go("child", "none")
     \/ /\ SavesFail
        /\ mem' = With("recovery")
        /\ TriedToSave(mem')
        /\ UNCHANGED active
        /\ Rest
  /\ UNCHANGED <<pending, git, user, past>>
-----------------------------------------------------------------------------
(* The child at work in its worktree, outside the lock. *)

ChildEdits ==
  /\ at = "child"
  /\ \/ tree[cs] = "clean" /\ tree' = [tree EXCEPT ![cs] = "edited"] /\ UNCHANGED ref
     \/ /\ tree[cs] = "edited" /\ ref[cs] = "base"
        /\ tree' = [tree EXCEPT ![cs] = "clean"] /\ UNCHANGED ref
     \/ /\ tree[cs] = "edited"
        /\ tree' = [tree EXCEPT ![cs] = "clean"]
        /\ ref' = [ref EXCEPT ![cs] = "ahead"]
  /\ UNCHANGED <<book, slot, at, cs, why, token, user, past>>

(* The child has returned, however it ended: recover(worktree).            *)
ChildReturns ==
  /\ at = "child"
  /\ Go("commit", "checkpoint")
  /\ UNCHANGED <<book, slot, git, user, past>>
-----------------------------------------------------------------------------
(* checkpoint: one commit directly above the base. *)

(* reset --soft drops the child's own commits and keeps their edits.       *)
Stage ==
  /\ at = "commit"
  /\ tree[cs] # "absent"
  /\ tree' = [tree EXCEPT ![cs] = IF ref[cs] = "ahead" THEN "edited" ELSE @]
  /\ ref' = [ref EXCEPT ![cs] = "base"]
  /\ Go("stage", why)
  /\ UNCHANGED <<book, slot, user, past>>

CommitEdits ==
  /\ at = "stage"
  /\ tree[cs] = "edited"
  /\ tree' = [tree EXCEPT ![cs] = "clean"]
  /\ ref' = [ref EXCEPT ![cs] = "ahead"]
  /\ Go("committed", why)
  /\ UNCHANGED <<book, slot, user, past>>

CommitNothing_Unchanged ==
  /\ at = "stage"
  /\ tree[cs] = "clean"
  /\ mem' = With("unchanged")
  /\ Go("sweep", "empty")
  /\ UNCHANGED <<disk, slot, git, user, past>>

CommitNothing ==
  /\ at = "stage"
  /\ tree[cs] = "clean"
  /\ mem' = With("empty")
  /\ Go("sweep", "empty")
  /\ UNCHANGED <<disk, slot, git, user, past>>

(* Git may fail at any of these steps: the record says recovery.  Any      *)
(* other exception leaves the record alone.  Both give the slot back.      *)
CheckpointFails ==
  /\ at \in {"commit", "stage", "committed"}
  /\ \/ TriedToSave(With("recovery")) /\ Leave(With("recovery"))
     \/ UNCHANGED disk /\ Leave(mem)
  /\ UNCHANGED <<git, user, past>>

RecordReady ==
  /\ at = "committed"
  /\ LET m == [mem EXCEPT ![cs].state = "ready", ![cs].result = TRUE]
     IN \/ Saved(m) /\ mem' = m /\ UNCHANGED slot /\ Go("sweep", why)
        \/ SaveFails /\ Leave(m)
  /\ UNCHANGED <<git, user, past>>
-----------------------------------------------------------------------------
(* Taking the worktree away, for each of the operations that do. *)

AfterSweep ==
  CASE why = "checkpoint" -> "idle" [] why = "discard" -> "ask" [] why = "apply" -> "ask"
    [] OTHER -> "dropRef"

(* What an operation does when its worktree cannot be taken away: a ready  *)
(* result stays ready, an empty one goes to recovery, and a result that    *)
(* landed stays pending.                                                   *)
Refused ==
  CASE why \in {"checkpoint", "discard"} ->
         \/ /\ Saved(mem)
            /\ Release(mem)
            /\ IF why = "discard" THEN Go("ask", why) ELSE Rest
         \/ SaveFails /\ Leave(mem)
    [] why = "empty" -> TriedToSave(With("recovery")) /\ Leave(With("recovery"))
    [] why = "landed" -> TriedToSave(mem) /\ Leave(mem)
    [] OTHER -> UNCHANGED disk /\ Leave(mem)

Removable_EvenEdited == TRUE

(* git worktree remove, without --force, and only after status said clean. *)
Removable == tree[cs] # "edited"

(* _cleanup_clean_worktree. *)
Sweep ==
  /\ at = "sweep"
  /\ \/ /\ Removable
        /\ tree' = [tree EXCEPT ![cs] = "absent"]
        /\ mem' = [mem EXCEPT ![cs].path = FALSE]
        /\ Go(IF mem[cs].path THEN "swept" ELSE AfterSweep, why)
        /\ UNCHANGED <<disk, slot>>
     \/ /\ Refused
        /\ \/ UNCHANGED tree
           \/ Removable /\ tree' = [tree EXCEPT ![cs] = "absent"]
  /\ UNCHANGED <<ref, user, past>>

(* ... and the save of the emptied path.                                   *)
Swept ==
  /\ at = "swept"
  /\ \/ /\ Saved(mem)
        /\ IF why \in {"checkpoint", "discard"} THEN Release(mem)
                                               ELSE UNCHANGED <<mem, slot>>
        /\ IF why = "checkpoint" THEN Rest ELSE Go(AfterSweep, why)
     \/ IF why = "landed" THEN SavesFail /\ TriedToSave(mem) /\ Leave(mem)
                          ELSE SaveFails /\ Leave(mem)
  /\ UNCHANGED <<git, user, past>>

Expected == IF mem[cs].result THEN "ahead" ELSE "base"

(* delete_exact_ref: only the commit on record, and only when no worktree  *)
(* has it checked out.                                                     *)
DropRef ==
  /\ at = "dropRef"
  /\ \/ /\ tree[cs] = "absent"
        /\ ref[cs] \in {"absent", Expected}
        /\ ref' = [ref EXCEPT ![cs] = "absent"]
        /\ Go("forget", why)
        /\ UNCHANGED <<book, slot>>
     \/ Refused /\ UNCHANGED ref
  /\ UNCHANGED <<tree, user, past>>

(* The record goes, then the file is saved without it.  When that fails    *)
(* an approved discard and a landed result come back as pending.           *)
Forget ==
  /\ at = "forget"
  /\ \/ Saved(Forgotten) /\ Leave(Forgotten)
     \/ IF why \in {"drop", "landed"} THEN SavesFail /\ TriedToSave(mem) /\ Leave(mem)
                                      ELSE SaveFails /\ Leave(Forgotten)
  /\ UNCHANGED <<git, user, past>>
-----------------------------------------------------------------------------
(* The root's decisions: apply and discard, each behind an approval. *)

(* apply: a retained worktree goes first.                                  *)
Apply(c) ==
  /\ at = "idle"
  /\ mem[c].state = "ready" /\ mem[c].result
  /\ at' = "sweep" /\ cs' = c /\ why' = "apply" /\ token' = token
  /\ UNCHANGED <<book, slot, git, user, past>>

(* discard: what was decided before is finished; edits that exist only in  *)
(* a worktree are committed first; anything else goes to approval.         *)
Discard(c) ==
  /\ at = "idle"
  /\ mem[c] # NoRecord
  /\ \/ /\ mem[c].state = "applied"
        /\ at' = "sweep" /\ why' = "landed" /\ UNCHANGED active
     \/ /\ mem[c].state = "discarding"
        /\ at' = IF mem[c].path THEN "sweep" ELSE "dropRef"
        /\ why' = "drop" /\ UNCHANGED active
     \/ /\ mem[c].state \notin {"applied", "discarding", "ready"}
        /\ mem[c].path
        /\ active = NoOne
        /\ at' = "commit" /\ why' = "discard" /\ active' = c
     \/ /\ mem[c].state \notin {"applied", "discarding"}
        /\ mem[c].state # "ready" => ~mem[c].path
        /\ at' = "ask" /\ why' = "discard" /\ UNCHANGED active
  /\ cs' = c /\ token' = token
  /\ UNCHANGED <<book, pending, git, user, past>>

(* verify_primary_unchanged *)
Untouched == on = home[cs] /\ head = base[cs] /\ ~dirty

(* The facts the person is shown; an apply checks them before asking.      *)
Ask ==
  /\ at = "ask"
  /\ \/ /\ why = "apply" => Untouched /\ ref[cs] = "ahead"
        /\ token' = mem[cs]
        /\ at' = "asked" /\ UNCHANGED <<cs, why>>
     \/ why = "apply" /\ Rest
  /\ UNCHANGED <<book, slot, git, user, past>>

Reject ==
  /\ at = "asked"
  /\ Rest
  /\ UNCHANGED <<book, slot, git, user, past>>

StillApproved_AsAsked ==
  /\ mem[cs].state = "ready"
  /\ mem[cs] = token
  /\ ref[cs] = "ahead"

(* apply, after the approval: the record, the primary worktree and the     *)
(* result must still be what was approved.                                 *)
StillApproved ==
  /\ mem[cs].state = "ready"
  /\ mem[cs] = token
  /\ Untouched
  /\ ref[cs] = "ahead"

ApproveApply ==
  /\ at = "asked"
  /\ why = "apply"
  /\ \/ StillApproved /\ Go("merge", why)
     \/ Rest
  /\ UNCHANGED <<book, slot, git, user, past>>

(* The commit a result is: the one it already became, or the next one.     *)
ResultCommit == IF became[cs] = Unborn THEN made + 1 ELSE became[cs]
Holding(n)   == over[base[cs]] \cup {n}

(* git merge --ff-only: whatever is checked out by now, HEAD need only be  *)
(* something the result is built on, or the result itself.                 *)
FastForward == head \in Holding(ResultCommit)

(* When it worked HEAD is the result, which reading HEAD back confirms;    *)
(* what is dirty stays as it is, or Git refuses.                           *)
Merge ==
  /\ at = "merge"
  /\ \/ /\ FastForward
        /\ ResultCommit \in Commits /\ InCase(ResultCommit)
        /\ head' = ResultCommit
        /\ became' = [became EXCEPT ![cs] = ResultCommit]
        /\ over' = [over EXCEPT ![ResultCommit] = Holding(ResultCommit)]
        /\ made' = IF ResultCommit > made THEN ResultCommit ELSE made
        /\ landed' = landed \cup {cs}
        /\ Go("landed", why)
     \/ Rest /\ UNCHANGED <<head, made, over, became, landed>>
  /\ moved' = FALSE
  /\ UNCHANGED <<book, slot, git, on, dirty, base, home, dropped>>

(* The landing is recorded once the merge is seen to have worked; reading  *)
(* the branch back may fail, or find that somebody moved it.               *)
RecordLanded ==
  /\ at = "landed"
  /\ \/ /\ mem' = With("applied")
        /\ \/ Saved(mem') /\ Go("dropRef", "landed")
           \/ SavesFail /\ TriedToSave(mem') /\ Rest
     \/ UNCHANGED book /\ Rest
  /\ UNCHANGED <<slot, git, user, past>>

(* discard, after the approval: journal it, then delete.                   *)
ApproveDiscard ==
  /\ at = "asked"
  /\ why = "discard"
  /\ \/ /\ mem[cs] = token
        /\ mem' = With("discarding")
        /\ dropped' = dropped \cup {cs}
        /\ \/ Saved(mem') /\ Go(IF mem[cs].path THEN "sweep" ELSE "dropRef", "drop")
           \/ SaveFails /\ Rest
     \/ /\ mem[cs] # token
        /\ Rest
        /\ UNCHANGED <<book, dropped>>
  /\ UNCHANGED <<slot, git, user, base, home, became, landed, moved>>
-----------------------------------------------------------------------------
(* Around the manager. *)

(* set_workspace_root, away and back: at once, or when the slot is free.   *)
SwitchWorkspace ==
  /\ at \in Free
  /\ IF active = NoOne THEN mem' = disk /\ UNCHANGED pending
                       ELSE pending' = TRUE /\ UNCHANGED mem
  /\ UNCHANGED <<disk, active, at, cs, why, token, git, user, past>>

(* The user commits, leaves or clears edits, or goes to another branch or  *)
(* commit (checkout, reset), in the primary worktree.                      *)
UserWorks ==
  /\ \/ /\ made < MaxHead /\ InCase(made + 1)
        /\ head' = made + 1 /\ made' = made + 1
        /\ over' = [over EXCEPT ![made + 1] = over[head] \cup {made + 1}]
        /\ UNCHANGED <<on, dirty>>
     \/ dirty' = ~dirty /\ UNCHANGED <<head, on, made, over>>
     \/ /\ Wanders
        /\ \E n \in 0 .. made, b \in Branches : head' = n /\ on' = b
        /\ UNCHANGED <<dirty, made, over>>
  /\ moved' = (at = "merge")
  /\ UNCHANGED <<book, slot, at, cs, why, token, git, base, home, became, landed, dropped>>

(* Somebody edits a retained worktree, where its recovery path points.     *)
LateEdit(c) ==
  /\ tree[c] = "clean"
  /\ tree' = [tree EXCEPT ![c] = "edited"]
  /\ UNCHANGED <<book, slot, at, cs, why, token, ref, user, past>>

(* Aura dies, with its child, and is started again on the same workspace.  *)
Crash ==
  /\ Crashes
  /\ mem' = disk
  /\ active' = NoOne
  /\ pending' = FALSE
  /\ moved' = FALSE
  /\ Rest
  /\ UNCHANGED <<disk, git, user, base, home, became, landed, dropped>>

Manager ==
  \/ Add \/ KeepFailedAdd \/ UndoAdd \/ Activate
  \/ Stage \/ CommitEdits \/ CommitNothing \/ CheckpointFails \/ RecordReady
  \/ Sweep \/ Swept \/ DropRef \/ Forget \/ Ask \/ Merge \/ RecordLanded

Root ==
  \/ \E c \in ChangeSets : Create(c) \/ Apply(c) \/ Discard(c)
  \/ ChildReturns \/ Reject \/ ApproveApply \/ ApproveDiscard

Next ==
  /\ \/ Crash \/ Manager \/ Root \/ ChildEdits \/ SwitchWorkspace \/ UserWorks
     \/ \E c \in ChangeSets : LateEdit(c)
  /\ UNCHANGED world

Spec == Init /\ [][Next]_vars
-----------------------------------------------------------------------------
(* Properties. *)

(* Edits are never lost: uncommitted ones leave a worktree only into a     *)
(* commit, and a commit goes away only when it landed, when a person       *)
(* approved its discard, or back into the worktree.                        *)
KeepsWork(c) ==
  /\ tree[c] = "edited" => tree'[c] = "edited" \/ ref'[c] = "ahead" \/ at = "child"
  /\ ref[c] = "ahead" /\ ref'[c] # "ahead" =>
       tree'[c] = "edited" \/ c \in landed \cup dropped
WorkKept == [][\A c \in ChangeSets : KeepsWork(c)]_vars

(* No failure strands the writable slot, or a workspace switch that waits  *)
(* for it: with no child at work the slot is free.                         *)
SlotFree == at \in {"idle", "ask", "asked"} => active = NoOne /\ ~pending

(* "Retained": whatever Git still holds of a change set, its record is on  *)
(* disk, so a restart finds it.                                            *)
Journaled ==
  \A c \in ChangeSets : tree[c] # "absent" \/ ref[c] # "absent" => disk[c] # NoRecord

(* The file tells the truth after any restart, whichever save failed: what *)
(* is there has a record; a record that offers a result still has its      *)
(* commit, unless that landed or a person approved its discard; one that   *)
(* says applied has landed; and nobody is noted as at work who is not.     *)
RecordsTrue ==
  /\ Journaled /\ SlotFree
  /\ \A c \in ChangeSets :
       /\ disk[c].state = "ready" => ref[c] = "ahead" \/ c \in landed \cup dropped
       /\ disk[c].state = "applied" => c \in landed

(* A result lands where it was made, on an unchanged branch without edits, *)
(* or where the user went after the last check; and wherever that is, no   *)
(* commit the checkout held is lost to it.                                 *)
LandsInPlace ==
  at = "merge" /\ at' = "landed" =>
    /\ Untouched \/ moved
    /\ over[head] \subseteq over'[head']

(* A commit is given up only when the person was shown that commit and not *)
(* merely a recovery path.                                                 *)
GivenUpAsShown == \A c \in dropped' \ dropped : ref[c] = "ahead" => token.result

(* What an approval leads to is what it showed, whatever the user does     *)
(* while it waits, and between the last check and the merge nothing worse  *)
(* than a fast forward of what the user went to.                           *)
OnlyAsApproved == [][LandsInPlace /\ GivenUpAsShown]_vars
=============================================================================
