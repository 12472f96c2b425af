----------------------------- MODULE ApplyPatch -----------------------------
(***************************************************************************)
(* One apply_patch call: propose in memory, show it to a person, check     *)
(* that nothing moved, then back up and write file after file, rolling     *)
(* back when a later file cannot be written.                               *)
(*   aura/conversation/tools/write_transaction.py   patch, several files   *)
(*   aura/conversation/tools/_write_mixin.py        write and delete       *)
(*   aura/conversation/tools/fs_write.py            snapshots, staleness   *)
(*   aura/conversation/tools/backup.py                                     *)
(*                                                                         *)
(* Each read, check, copy or replacement of a file is a step, and the user *)
(* may save or delete any of the files between two of them.  A file's      *)
(* content is the number of the save that produced it, or the agent's.     *)
(*                                                                         *)
(* A definition named X_Something beside X is X with a plausible defect,   *)
(* used by the mutation runs of PROJECT.json only.                         *)
(***************************************************************************)
EXTENDS Integers

CONSTANTS MaxFiles,   \* bound: files of one patch
          MaxSaves    \* bound: what the user does to the files meanwhile

ASSUME MaxFilesAssumption == MaxFiles \in Nat \ {0}
ASSUME MaxSavesAssumption == MaxSaves \in Nat

Files    == 1..MaxFiles
Versions == 1..(MaxSaves + 1)   \* 1 is what the workspace held at first
Missing  == 0
Agents   == -1                  \* the content the call proposes
NotYet   == -2
Unhashed == -3                  \* a snapshot that knows only that it exists
NoFacts  == -4                  \* a snapshot that could not be taken

VARIABLES
  op,         \* patch, write (create and replace) or delete
  last,       \* the files of the call are 1..last
  content,    \* the workspace
  saves,      \* how often the user has changed a file
  phase,
  at,         \* the file the call is working on
  shown,      \* old_content, as the person is shown it
  snapshot,   \* _target_snapshot
  original,   \* original_bytes
  backup,     \* the copy under .aura/backups, or Missing
  restored,   \* _rollback's ok
  outcome,    \* what the call reports
  touched,    \* history: files the user changed after they were shown
  moved       \* history: those changed while the person was being asked

proposal == <<op, last, shown, snapshot>>
progress == <<phase, at, outcome>>
commit   == <<original, backup, restored>>
world    == <<content, saves, touched, moved>>
vars     == <<proposal, progress, commit, world>>

Targets == 1..last

Clean    == {"refused", "rejected", "stale", "failed", "rolled_back"}
Outcomes == Clean \cup {"none", "applied", "partial", "raised"}

TypeOK ==
  /\ op \in {"patch", "write", "delete"}
  /\ last \in Files /\ (op # "patch" => last = 1)
  /\ content \in [Files -> Versions \cup {Missing, Agents}]
  /\ saves \in 0..MaxSaves
  /\ phase \in {"propose", "snapshot", "ask", "verify", "read", "backup", "land",
                "restore", "done"}
  /\ at \in Files
  /\ shown \in [Files -> Versions \cup {Missing, NotYet}]
  /\ snapshot \in [Files -> Versions \cup {Missing, NotYet, Unhashed, NoFacts}]
  /\ original \in [Files -> Versions \cup {NotYet}]
  /\ backup \in [Files -> Versions \cup {Missing}]
  /\ restored \in BOOLEAN
  /\ outcome \in Outcomes /\ (outcome # "none" <=> phase = "done")
  /\ touched \subseteq Files
  /\ moved \subseteq Targets

Init ==
  /\ op \in {"patch", "write", "delete"}
  /\ last \in IF op = "patch" THEN Files ELSE {1}
  /\ content \in [Files -> {1, Missing}]
  /\ saves = 0
  /\ phase = "propose"
  /\ at = 1
  /\ shown = [f \in Files |-> NotYet]
  /\ snapshot = [f \in Files |-> NotYet]
  /\ original = [f \in Files |-> NotYet]
  /\ backup = [f \in Files |-> Missing]
  /\ restored = TRUE
  /\ outcome = "none"
  /\ touched = {}
  /\ moved = {}

Go(step, file) == phase' = step /\ at' = file /\ outcome' = outcome
End(how)       == phase' = "done" /\ at' = at /\ outcome' = how
-----------------------------------------------------------------------------
(* The user, in an editor beside Aura. *)

Change(f, c) ==
  /\ phase # "done"
  /\ saves < MaxSaves
  /\ saves' = saves + 1
  /\ content' = [content EXCEPT ![f] = c]
  /\ touched' = IF shown[f] = NotYet THEN touched ELSE touched \cup {f}
  /\ moved' = IF phase = "ask" THEN moved \cup ({f} \cap Targets) ELSE moved
  /\ UNCHANGED <<proposal, progress, commit>>

UserSaves(f)   == Change(f, saves + 2)
UserDeletes(f) == content[f] # Missing /\ Change(f, Missing)
-----------------------------------------------------------------------------
(* The proposal. *)

(* No target may be missing unless it is to be written whole; a hunk, a    *)
(* hash or the syntax of the candidate may refuse the rest.                *)
Refuse ==
  /\ phase = "propose"
  /\ End("refused")
  /\ UNCHANGED <<proposal, commit, world>>

(* propose_patch_file reads a file once, for the text and for the hash.    *)
ProposePatch ==
  /\ phase = "propose"
  /\ op = "patch"
  /\ content[at] # Missing
  /\ shown' = [shown EXCEPT ![at] = content[at]]
  /\ snapshot' = [snapshot EXCEPT ![at] = content[at]]
  /\ IF at < last THEN Go("propose", at + 1) ELSE Go("ask", 1)
  /\ UNCHANGED <<op, last, commit, world>>

(* propose_write does too, when there is a file ... *)
ProposeWrite ==
  /\ phase = "propose"
  /\ op = "write"
  /\ shown' = [shown EXCEPT ![at] = content[at]]
  /\ IF content[at] = Missing
     THEN Go("snapshot", at) /\ UNCHANGED snapshot
     ELSE Go("ask", 1) /\ snapshot' = [snapshot EXCEPT ![at] = content[at]]
  /\ UNCHANGED <<op, last, commit, world>>

(* ... and looks again whether there is one when it saw none.              *)
SnapshotWrite ==
  /\ phase = "snapshot"
  /\ op = "write"
  /\ snapshot' = [snapshot EXCEPT ![at] = IF content[at] = Missing THEN Missing ELSE Unhashed]
  /\ Go("ask", 1)
  /\ UNCHANGED <<op, last, shown, commit, world>>

(* _handle_delete reads the text for the person first ... *)
ProposeDelete ==
  /\ phase = "propose"
  /\ op = "delete"
  /\ content[at] # Missing
  /\ shown' = [shown EXCEPT ![at] = content[at]]
  /\ Go("snapshot", at)
  /\ UNCHANGED <<op, last, snapshot, commit, world>>

(* ... and the bytes for the hash second; an unreadable file has none.     *)
SnapshotDelete ==
  /\ phase = "snapshot"
  /\ op = "delete"
  /\ \E s \in IF content[at] = Missing THEN {NoFacts} ELSE {content[at], Unhashed, NoFacts} :
       snapshot' = [snapshot EXCEPT ![at] = s]
  /\ Go("ask", 1)
  /\ UNCHANGED <<op, last, shown, commit, world>>
-----------------------------------------------------------------------------
(* The approval. *)

Approve ==
  /\ phase = "ask"
  /\ Go("verify", 1)
  /\ UNCHANGED <<proposal, commit, world>>

Reject ==
  /\ phase = "ask"
  /\ End("rejected")
  /\ UNCHANGED <<proposal, commit, world>>

(* stale_approval_reason: the file exists as it did, with the same hash.   *)
Fresh(f) ==
  \/ snapshot[f] = content[f]
  \/ snapshot[f] = Unhashed /\ content[f] # Missing

AfterVerify == IF op = "patch" THEN "read" ELSE "backup"

Verify_FirstOnly ==
  /\ phase = "verify"
  /\ Fresh(at)
  /\ Go(AfterVerify, 1)
  /\ UNCHANGED <<proposal, commit, world>>

(* verify_transaction_not_stale: every file before any file is touched.    *)
Verify ==
  /\ phase = "verify"
  /\ Fresh(at)
  /\ IF at < last THEN Go("verify", at + 1) ELSE Go(AfterVerify, 1)
  /\ UNCHANGED <<proposal, commit, world>>

(* A file that cannot be hashed now counts as changed. *)
Stale ==
  /\ phase = "verify"
  /\ ~Fresh(at) \/ snapshot[at] \in Versions
  /\ End("stale")
  /\ UNCHANGED <<proposal, commit, world>>
-----------------------------------------------------------------------------
(* The commit, one file at a time. *)

(* An OSError: a patch rolls back what it wrote, anything else raises.     *)
Fails ==
  IF op # "patch" THEN End("raised")
  ELSE IF at = 1 THEN End("failed") ELSE Go("restore", at - 1)

ReadOriginal ==
  /\ phase = "read"
  /\ \/ /\ content[at] # Missing
        /\ original' = [original EXCEPT ![at] = content[at]]
        /\ Go("backup", at)
     \/ Fails /\ UNCHANGED original
  /\ UNCHANGED <<proposal, backup, restored, world>>

(* backup_existing: what is there is copied; an exception of the copy is   *)
(* nobody's to catch.                                                      *)
BackUp ==
  /\ phase = "backup"
  /\ \/ backup' = [backup EXCEPT ![at] = content[at]] /\ Go("land", at)
     \/ End("raised") /\ UNCHANGED backup
  /\ UNCHANGED <<proposal, original, restored, world>>

Land_ThenBacksUp ==
  /\ phase = "land"
  /\ \/ /\ op = "delete" => content[at] # Missing
        /\ content' = [content EXCEPT ![at] = IF op = "delete" THEN Missing ELSE Agents]
        /\ backup' = [backup EXCEPT ![at] = content'[at]]
        /\ IF at < last THEN Go("read", at + 1) ELSE End("applied")
     \/ Fails /\ UNCHANGED <<content, backup>>
  /\ UNCHANGED <<proposal, original, restored, saves, touched, moved>>

(* atomic_write_bytes, or unlink. *)
Land ==
  /\ phase = "land"
  /\ \/ /\ op = "delete" => content[at] # Missing
        /\ content' = [content EXCEPT ![at] = IF op = "delete" THEN Missing ELSE Agents]
        /\ IF at < last THEN Go("read", at + 1) ELSE End("applied")
     \/ Fails /\ UNCHANGED content
  /\ UNCHANGED <<proposal, commit, saves, touched, moved>>

Restore_Unchecked ==
  /\ phase = "restore"
  /\ \/ content' = [content EXCEPT ![at] = original[at]]
     \/ UNCHANGED content
  /\ IF at > 1 THEN Go("restore", at - 1) ELSE End("rolled_back")
  /\ UNCHANGED <<proposal, commit, saves, touched, moved>>

(* _rollback: the newest written file first; one that cannot be restored   *)
(* does not keep the others from being.                                    *)
Restore ==
  /\ phase = "restore"
  /\ \/ content' = [content EXCEPT ![at] = original[at]] /\ UNCHANGED restored
     \/ restored' = FALSE /\ UNCHANGED content
  /\ IF at > 1 THEN Go("restore", at - 1)
     ELSE End(IF restored' THEN "rolled_back" ELSE "partial")
  /\ UNCHANGED <<proposal, original, backup, saves, touched, moved>>

(* The call has reported. *)
Reported == phase = "done" /\ UNCHANGED vars

Next ==
  \/ Refuse \/ ProposePatch \/ ProposeWrite \/ SnapshotWrite \/ ProposeDelete \/ SnapshotDelete
  \/ Approve \/ Reject \/ Verify \/ Stale
  \/ ReadOriginal \/ BackUp \/ Land \/ Restore \/ Reported
  \/ \E f \in Files : UserSaves(f) \/ UserDeletes(f)

Spec == Init /\ [][Next]_vars
-----------------------------------------------------------------------------
(* Properties. *)

(* A call that says nothing was applied, or that all of it was rolled      *)
(* back, has left none of its content in any file, whatever the user did   *)
(* and whichever file could not be written.                                *)
CleanMeansClean == outcome \in Clean => \A f \in Files : content[f] # Agents

(* What the person saw is never gone: until the user changes the file it   *)
(* is in the file or in its backup, also when the call ends in an error.   *)
Recoverable ==
  \A f \in Targets \ touched :
    shown[f] \in Versions => content[f] = shown[f] \/ backup[f] = shown[f]

(* When the user leaves the files alone the report is exact: applied means *)
(* every file is the agent's and every old one backed up; a clean outcome  *)
(* means every file is what was shown.                                     *)
ExactWhenAlone ==
  touched = {} =>
    /\ outcome = "applied" =>
         \A f \in Targets : /\ content[f] = IF op = "delete" THEN Missing ELSE Agents
                            /\ backup[f] = shown[f]
    /\ outcome \in Clean =>
         \A f \in Targets : shown[f] # NotYet => content[f] = shown[f]

(* What a call says of the files is so, and what a person had in them is   *)
(* still to be had, whichever read, copy or write fails and whatever the   *)
(* person does to the files meanwhile.                                     *)
FilesAccountedFor == CleanMeansClean /\ ExactWhenAlone /\ Recoverable

(* A file that was changed while the person was being asked stops the call *)
(* before anything of it lands, in whichever file of the call it was.      *)
StaleNeverLands ==
  (\E f \in moved : snapshot[f] \in Versions) =>
    outcome # "applied" /\ \A f \in Files : content[f] # Agents
=============================================================================
