--------------------------- MODULE ApplyPatchProofs ---------------------------
(***************************************************************************)
(* Proofs about ApplyPatch, for any number of files and of changes by the   *)
(* person: types, that the report is true of the files (FilesAccountedFor), *)
(* and that a file changed during the question stops the call               *)
(* (StaleNeverLands).                                                       *)
(*                                                                          *)
(* The properties speak of the end of the call, or of a file and its        *)
(* backup.  What makes them inductive is where the call is: the files in    *)
(* front of "at" have been written and those behind it have not, and on the *)
(* way back it is the other way round; a file that was written left its     *)
(* bytes in "original" and its copy in "backup"; and a number of a save is  *)
(* never used twice.                                                        *)
(***************************************************************************)
EXTENDS ApplyPatch, TLAPS

\* The file the call is at is one of its own; only a patch reads and rolls back.
InCall ==
  /\ at \in Targets
  /\ phase \in {"read", "restore"} => op = "patch"
  /\ phase = "snapshot" => op # "patch"
  /\ phase \in {"ask", "snapshot"} => at = 1

\* Files that do not hold the agent's bytes, by how far the call has come.
Unwritten ==
  /\ phase \in {"propose", "snapshot", "ask", "verify"} =>
       \A f \in Files : content[f] # Agents
  /\ phase \in {"read", "backup", "land"} => \A f \in at .. MaxFiles : content[f] # Agents
  /\ phase = "restore" /\ restored => \A f \in at + 1 .. MaxFiles : content[f] # Agents
  /\ phase = "done" => CleanMeansClean

\* Until something fails to be restored, everything has been.
NothingLeft == phase # "restore" /\ phase # "done" => restored

\* The bytes a rollback would put back are known.
Originals ==
  /\ phase \in {"backup", "land"} /\ op = "patch" =>
       \A f \in 1 .. at : original[f] \in Versions
  /\ phase = "read" => \A f \in 1 .. at - 1 : original[f] \in Versions
  /\ phase = "restore" => \A f \in 1 .. at : original[f] \in Versions

\* Every file of the call has been shown once the person is asked.
AllShown ==
  /\ phase = "propose" => \A f \in 1 .. at - 1 : shown[f] # NotYet
  /\ phase \notin {"propose", "done"} \/ outcome = "applied" =>
       \A f \in Targets : shown[f] # NotYet

\* A file of the call that the person left alone since it was shown.
Alone(f) == f \notin touched /\ shown[f] # NotYet

AsShown(f) == content[f] = shown[f]
Copied(f)  == backup[f] = shown[f]
Written(f) == Copied(f) /\ content[f] = (IF op = "delete" THEN Missing ELSE Agents)
Readable(f) == op = "patch" => original[f] = shown[f]

\* What such a file and its copies hold, by how far the call has come.
Kept ==
  \A f \in Targets : Alone(f) =>
    /\ phase \in {"propose", "snapshot", "ask", "verify"} => AsShown(f)
    /\ phase \in {"read", "backup", "land"} =>
         /\ f < at => Written(f) /\ Readable(f)
         /\ f >= at => AsShown(f)
         /\ f = at /\ phase # "read" => Readable(f)
         /\ f = at /\ phase = "land" => Copied(f)
    /\ phase = "restore" =>
         /\ f <= at => Written(f) /\ Readable(f)
         /\ f > at => AsShown(f) \/ (~restored /\ Copied(f))
    /\ outcome = "applied" => Written(f)
    /\ outcome \in Clean => AsShown(f)
    /\ phase = "done" => AsShown(f) \/ Copied(f)

\* The numbers of saves that were used so far.
Numbers ==
  \A f \in Files :
    content[f] <= saves + 1 /\ snapshot[f] <= saves + 1 /\ original[f] <= saves + 1

\* Changed while the person was asked, and known by what the file held then.
Overtaken(f) == f \in moved /\ snapshot[f] \in Versions

\* It never comes back to what it held, so that verifying it would fail.
Moved ==
  /\ phase \in {"propose", "snapshot"} => moved = {}
  /\ phase \in {"ask", "verify"} => \A f \in Files : Overtaken(f) => content[f] # snapshot[f]
  /\ phase = "verify" => \A f \in 1 .. at - 1 : ~Overtaken(f)
  /\ phase \in {"read", "backup", "land", "restore"} => \A f \in Files : ~Overtaken(f)
  /\ phase = "done" /\ (\E f \in Files : Overtaken(f)) => outcome \in Clean

IInv == TypeOK /\ InCall /\ Unwritten /\ NothingLeft /\ Originals /\ AllShown /\ Kept
        /\ Numbers /\ Moved

-----------------------------------------------------------------------------


\* What a person does to a file: the number of the save is a new one.
LEMMA UserChanges ==
  ASSUME TypeOK, NEW f \in Files, UserSaves(f) \/ UserDeletes(f)
  PROVE  \E c \in Versions \cup {Missing} : c \in {saves + 2, Missing} /\ Change(f, c)
<1>1. CASE UserSaves(f)
  <2>1. saves + 2 \in Versions
    BY <1>1, MaxSavesAssumption DEF TypeOK, UserSaves, Change, Versions
  <2> QED
    BY <1>1, <2>1 DEF UserSaves
<1>2. CASE UserDeletes(f)
  BY <1>2 DEF UserDeletes
<1> QED
  BY <1>1, <1>2

\* Contents, snapshots and originals are numbers, of saves or for something else.
LEMMA Readings ==
  ASSUME TypeOK, NEW f \in Files
  PROVE  content[f] \in Int /\ snapshot[f] \in Int /\ original[f] \in Int
<1> USE MaxSavesAssumption DEF TypeOK, Versions, Missing, Agents, NotYet, Unhashed, NoFacts
<1>1. content[f] \in Versions \cup {Missing, Agents}
  OBVIOUS
<1>2. snapshot[f] \in Versions \cup {Missing, NotYet, Unhashed, NoFacts}
  OBVIOUS
<1>3. original[f] \in Versions \cup {NotYet}
  OBVIOUS
<1> QED
  BY <1>1, <1>2, <1>3

LEMMA TypeStep == IInv /\ [Next]_vars => (TypeOK /\ InCall)'
<1> SUFFICES ASSUME IInv, [Next]_vars PROVE (TypeOK /\ InCall)'
  OBVIOUS
<1> USE MaxFilesAssumption, MaxSavesAssumption DEF IInv, TypeOK, InCall, Unwritten, Originals, Files, Versions, Targets,
      Missing, Agents, NotYet, Unhashed, NoFacts, Outcomes, Clean, Go, End, proposal, progress,
      commit, world
<1>1. CASE Refuse
  BY <1>1 DEF Refuse
<1>2. CASE ProposePatch
  BY <1>2, SMTT(30) DEF ProposePatch
<1>3. CASE ProposeWrite
  BY <1>3, SMTT(30) DEF ProposeWrite
<1>4. CASE SnapshotWrite
  BY <1>4 DEF SnapshotWrite
<1>5. CASE ProposeDelete
  BY <1>5 DEF ProposeDelete
<1>6. CASE SnapshotDelete
  BY <1>6 DEF SnapshotDelete
<1>7. CASE Approve
  BY <1>7 DEF Approve
<1>8. CASE Reject
  BY <1>8 DEF Reject
<1>9. CASE Verify
  BY <1>9 DEF Verify, AfterVerify, Fresh
<1>10. CASE Stale
  BY <1>10 DEF Stale, Fresh
<1>11. CASE ReadOriginal
  BY <1>11, SMTT(30) DEF ReadOriginal, Fails
<1>12. CASE BackUp
  BY <1>12 DEF BackUp
<1>13. CASE Land
  <2>1. content' \in [Files -> Versions \cup {Missing, Agents}]
    BY <1>13 DEF Land
  <2>2. CASE phase' = "restore" /\ at' = at - 1 /\ at # 1 /\ op = "patch" /\ UNCHANGED outcome
    BY <1>13, <2>1, <2>2 DEF Land
  <2>3. CASE Go("read", at + 1) /\ at < last
    BY <1>13, <2>1, <2>3 DEF Land
  <2>4. CASE \E how \in {"applied", "raised", "failed"} : End(how)
    BY <1>13, <2>1, <2>4 DEF Land
  <2> QED
    BY <1>13, <2>2, <2>3, <2>4 DEF Land, Fails
<1>14. CASE Restore
  <2>1. at \in 1 .. at /\ original[at] \in Versions
    BY <1>14 DEF Restore
  <2>2. content' \in [Files -> Versions \cup {Missing, Agents}] /\ restored' \in BOOLEAN
    BY <1>14, <2>1 DEF Restore
  <2>3. CASE at > 1 /\ Go("restore", at - 1)
    BY <1>14, <2>2, <2>3 DEF Restore
  <2>4. CASE \E how \in {"rolled_back", "partial"} : End(how)
    BY <1>14, <2>2, <2>4 DEF Restore
  <2> QED
    BY <1>14, <2>3, <2>4 DEF Restore
<1>15. CASE \E f \in Files : UserSaves(f) \/ UserDeletes(f)
  <2>1. PICK f \in Files, c \in Versions \cup {Missing} : Change(f, c)
    BY <1>15, UserChanges
  <2> QED
    BY <2>1 DEF Change
<1>16. CASE UNCHANGED vars
  BY <1>16 DEF vars
<1> QED
  BY <1>1, <1>2, <1>3, <1>4, <1>5, <1>6, <1>7, <1>8, <1>9, <1>10, <1>11, <1>12, <1>13, <1>14, <1>15, <1>16 DEF Next, Reported


LEMMA ContentStep == IInv /\ [Next]_vars => (Unwritten /\ NothingLeft /\ Originals)'
<1> SUFFICES ASSUME IInv, [Next]_vars PROVE (Unwritten /\ NothingLeft /\ Originals)'
  OBVIOUS
<1> USE MaxFilesAssumption, MaxSavesAssumption DEF IInv, TypeOK, InCall, Unwritten, Originals, NothingLeft, CleanMeansClean, Files, Versions, Targets,
      Missing, Agents, NotYet, Unhashed, NoFacts, Outcomes, Clean, Go, End, proposal, progress,
      commit, world
<1>1. CASE Refuse
  BY <1>1 DEF Refuse
<1>2. CASE ProposePatch
  BY <1>2 DEF ProposePatch
<1>3. CASE ProposeWrite
  BY <1>3 DEF ProposeWrite
<1>4. CASE SnapshotWrite
  BY <1>4 DEF SnapshotWrite
<1>5. CASE ProposeDelete
  BY <1>5 DEF ProposeDelete
<1>6. CASE SnapshotDelete
  BY <1>6 DEF SnapshotDelete
<1>7. CASE Approve
  BY <1>7 DEF Approve
<1>8. CASE Reject
  BY <1>8 DEF Reject
<1>9. CASE Verify
  BY <1>9 DEF Verify, AfterVerify, Fresh
<1>10. CASE Stale
  BY <1>10 DEF Stale, Fresh
<1>11. CASE ReadOriginal
  BY <1>11 DEF ReadOriginal, Fails
<1>12. CASE BackUp
  BY <1>12 DEF BackUp
<1>13. CASE Land
  BY <1>13, SMTT(30) DEF Land, Fails
<1>14. CASE Restore
  BY <1>14 DEF Restore
<1>15. CASE \E f \in Files : UserSaves(f) \/ UserDeletes(f)
  <2>1. PICK f \in Files, c \in Versions \cup {Missing} : Change(f, c)
    BY <1>15, UserChanges
  <2>2. \A g \in Files : content[g] # Agents => content'[g] # Agents
    BY <2>1 DEF Change
  <2> QED
    BY <2>1, <2>2 DEF Change
<1>16. CASE UNCHANGED vars
  BY <1>16 DEF vars
<1> QED
  BY <1>1, <1>2, <1>3, <1>4, <1>5, <1>6, <1>7, <1>8, <1>9, <1>10, <1>11, <1>12, <1>13, <1>14, <1>15, <1>16 DEF Next, Reported


LEMMA ShownStep == IInv /\ [Next]_vars => AllShown'
<1> SUFFICES ASSUME IInv, [Next]_vars PROVE AllShown'
  OBVIOUS
<1> USE MaxFilesAssumption, MaxSavesAssumption DEF IInv, TypeOK, InCall, AllShown, Files, Versions, Targets,
      Missing, Agents, NotYet, Unhashed, NoFacts, Outcomes, Clean, Go, End, proposal, progress,
      commit, world
<1>1. CASE Refuse
  BY <1>1 DEF Refuse
<1>2. CASE ProposePatch
  BY <1>2 DEF ProposePatch
<1>3. CASE ProposeWrite
  BY <1>3 DEF ProposeWrite
<1>4. CASE SnapshotWrite
  BY <1>4 DEF SnapshotWrite
<1>5. CASE ProposeDelete
  BY <1>5 DEF ProposeDelete
<1>6. CASE SnapshotDelete
  BY <1>6 DEF SnapshotDelete
<1>7. CASE Approve
  BY <1>7 DEF Approve
<1>8. CASE Reject
  BY <1>8 DEF Reject
<1>9. CASE Verify
  BY <1>9 DEF Verify, AfterVerify, Fresh
<1>10. CASE Stale
  BY <1>10 DEF Stale, Fresh
<1>11. CASE ReadOriginal
  BY <1>11 DEF ReadOriginal, Fails
<1>12. CASE BackUp
  BY <1>12 DEF BackUp
<1>13. CASE Land
  BY <1>13 DEF Land, Fails
<1>14. CASE Restore
  BY <1>14 DEF Restore
<1>15. CASE \E f \in Files : UserSaves(f) \/ UserDeletes(f)
  BY <1>15 DEF UserSaves, UserDeletes, Change
<1>16. CASE UNCHANGED vars
  BY <1>16 DEF vars
<1> QED
  BY <1>1, <1>2, <1>3, <1>4, <1>5, <1>6, <1>7, <1>8, <1>9, <1>10, <1>11, <1>12, <1>13, <1>14, <1>15, <1>16 DEF Next, Reported


LEMMA KeptStep == IInv /\ [Next]_vars => Kept'
<1> SUFFICES ASSUME IInv, [Next]_vars PROVE Kept'
  OBVIOUS
<1> USE MaxFilesAssumption, MaxSavesAssumption DEF IInv, TypeOK, InCall, Unwritten, Originals, AllShown, Kept, Alone, AsShown, Copied, Written, Readable, NothingLeft, Files, Versions, Targets,
      Missing, Agents, NotYet, Unhashed, NoFacts, Outcomes, Clean, Go, End, proposal, progress,
      commit, world
<1>1. CASE Refuse
  BY <1>1 DEF Refuse
<1>2. CASE ProposePatch
  BY <1>2 DEF ProposePatch
<1>3. CASE ProposeWrite
  BY <1>3 DEF ProposeWrite
<1>4. CASE SnapshotWrite
  BY <1>4 DEF SnapshotWrite
<1>5. CASE ProposeDelete
  BY <1>5 DEF ProposeDelete
<1>6. CASE SnapshotDelete
  BY <1>6 DEF SnapshotDelete
<1>7. CASE Approve
  BY <1>7 DEF Approve
<1>8. CASE Reject
  BY <1>8 DEF Reject
<1>9. CASE Verify
  BY <1>9 DEF Verify, AfterVerify, Fresh
<1>10. CASE Stale
  BY <1>10 DEF Stale, Fresh
<1>11. CASE ReadOriginal
  BY <1>11, SMTT(30) DEF ReadOriginal, Fails
<1>12. CASE BackUp
  BY <1>12 DEF BackUp
<1>13. CASE Land
  BY <1>13 DEF Land, Fails
<1>14. CASE Restore
  BY <1>14, SMTT(30) DEF Restore
<1>15. CASE \E f \in Files : UserSaves(f) \/ UserDeletes(f)
  <2>1. PICK f \in Files, c \in Versions \cup {Missing} : Change(f, c)
    BY <1>15, UserChanges
  <2>2. /\ \A g \in Files : g # f => content'[g] = content[g]
        /\ content'[f] # Agents
        /\ shown[f] = NotYet \/ f \in touched'
        /\ touched \subseteq touched'
    BY <2>1 DEF Change
  <2> QED
    BY <2>1, <2>2, SMTT(30) DEF Change
<1>16. CASE UNCHANGED vars
  BY <1>16 DEF vars
<1> QED
  BY <1>1, <1>2, <1>3, <1>4, <1>5, <1>6, <1>7, <1>8, <1>9, <1>10, <1>11, <1>12, <1>13, <1>14, <1>15, <1>16 DEF Next, Reported


LEMMA MovedStep == IInv /\ [Next]_vars => (Numbers /\ Moved)'
<1> SUFFICES ASSUME IInv, [Next]_vars PROVE (Numbers /\ Moved)'
  OBVIOUS
<1> USE MaxFilesAssumption, MaxSavesAssumption DEF IInv, TypeOK, InCall, Unwritten, Numbers, Moved, Overtaken, Files, Versions, Targets,
      Missing, Agents, NotYet, Unhashed, NoFacts, Outcomes, Clean, Go, End, proposal, progress,
      commit, world
<1>1. CASE Refuse
  BY <1>1 DEF Refuse
<1>2. CASE ProposePatch
  BY <1>2 DEF ProposePatch
<1>3. CASE ProposeWrite
  BY <1>3 DEF ProposeWrite
<1>4. CASE SnapshotWrite
  BY <1>4 DEF SnapshotWrite
<1>5. CASE ProposeDelete
  BY <1>5 DEF ProposeDelete
<1>6. CASE SnapshotDelete
  BY <1>6 DEF SnapshotDelete
<1>7. CASE Approve
  BY <1>7 DEF Approve
<1>8. CASE Reject
  BY <1>8 DEF Reject
<1>9. CASE Verify
  <2>1. ~Overtaken(at)
    BY <1>9 DEF Verify, Fresh
  <2>2. \A f \in 1 .. at : ~Overtaken(f)
    BY <1>9, <2>1 DEF Verify
  <2>3. CASE at < last /\ Go("verify", at + 1)
    BY <1>9, <2>2, <2>3 DEF Verify
  <2>4. CASE at = last /\ Go(AfterVerify, 1)
    <3>1. \A f \in Files : ~Overtaken(f)
      BY <2>2, <2>4
    <3> QED
      BY <1>9, <2>4, <3>1 DEF Verify, AfterVerify
  <2> QED
    BY <1>9, <2>3, <2>4 DEF Verify
<1>10. CASE Stale
  BY <1>10 DEF Stale, Fresh
<1>11. CASE ReadOriginal
  BY <1>11 DEF ReadOriginal, Fails
<1>12. CASE BackUp
  BY <1>12 DEF BackUp
<1>13. CASE Land
  BY <1>13 DEF Land, Fails
<1>14. CASE Restore
  <2>1. \A f \in Files : ~Overtaken(f)
    BY <1>14 DEF Restore
  <2>2. Numbers'
    BY <1>14 DEF Restore
  <2> QED
    BY <1>14, <2>1, <2>2 DEF Restore
<1>15. CASE \E f \in Files : UserSaves(f) \/ UserDeletes(f)
  <2>1. PICK f \in Files, c \in {saves + 2, Missing} : Change(f, c)
    BY <1>15, UserChanges
  <2>2. /\ saves' = saves + 1 /\ UNCHANGED <<snapshot, phase, at, outcome>>
        /\ content' = [content EXCEPT ![f] = c]
        /\ moved' = IF phase = "ask" THEN moved \cup ({f} \cap Targets) ELSE moved
    BY <2>1 DEF Change
  <2>3. Numbers'
    <3> SUFFICES ASSUME NEW g \in Files
                 PROVE  /\ content'[g] <= saves' + 1 /\ snapshot'[g] <= saves' + 1
                        /\ original'[g] <= saves' + 1
      OBVIOUS
    <3>1. saves \in Nat /\ saves' = saves + 1 /\ UNCHANGED <<snapshot, original>>
      BY <2>1, <2>2 DEF Change
    <3>2. content[g] \in Int /\ snapshot[g] \in Int /\ original[g] \in Int
      BY Readings
    <3>3. content[g] <= saves + 1 /\ snapshot[g] <= saves + 1 /\ original[g] <= saves + 1
      OBVIOUS
    <3>4. content'[g] = c \/ content'[g] = content[g]
      BY <2>2
    <3>5. c \in Int /\ c <= saves + 2
      BY <3>1
    <3> HIDE DEF IInv, TypeOK, Numbers, Moved
    <3> QED
      BY <3>1, <3>2, <3>3, <3>4, <3>5
  <2>4. snapshot[f] \in Versions => c # snapshot[f]
    BY <2>2
  <2>5. Moved'
    BY <2>2, <2>4
  <2> QED
    BY <2>3, <2>5
<1>16. CASE UNCHANGED vars
  BY <1>16 DEF vars
<1> QED
  BY <1>1, <1>2, <1>3, <1>4, <1>5, <1>6, <1>7, <1>8, <1>9, <1>10, <1>11, <1>12, <1>13, <1>14, <1>15, <1>16 DEF Next, Reported

LEMMA InitIInv == Init => IInv
<1> SUFFICES ASSUME Init PROVE IInv
  OBVIOUS
<1> USE MaxFilesAssumption, MaxSavesAssumption DEF Init, Files, Versions, Targets, Missing, Agents,
      NotYet, Outcomes, Clean
<1>1. last \in Files /\ (op # "patch" => last = 1)
  OBVIOUS
<1>2. TypeOK
  BY <1>1 DEF TypeOK
<1>3. InCall /\ Unwritten /\ NothingLeft /\ Originals /\ AllShown
  BY <1>1 DEF InCall, Unwritten, NothingLeft, Originals, AllShown
<1>4. Kept
  BY DEF Kept, Alone
<1>5. Numbers /\ Moved
  BY <1>1 DEF Numbers, Moved, Overtaken
<1> QED
  BY <1>2, <1>3, <1>4, <1>5 DEF IInv

LEMMA Inductive == IInv /\ [Next]_vars => IInv'
  BY TypeStep, ContentStep, ShownStep, KeptStep, MovedStep DEF IInv

LEMMA Invariant == Spec => []IInv
  BY InitIInv, Inductive, PTL DEF Spec

(* Every variable of a call keeps its type, and the call never works on a   *)
(* file that is not its own, for any number of files and changes.           *)
THEOREM TypeCorrect == Spec => []TypeOK
<1>1. IInv => TypeOK
  BY DEF IInv
<1> QED
  BY <1>1, Invariant, PTL

(* What the report of a call says of the files is true and nothing a person *)
(* had is gone, whichever read, copy or write fails and whatever the person *)
(* does to however many files meanwhile.                                    *)
THEOREM ReportIsTrue == Spec => []FilesAccountedFor
<1>1. IInv => FilesAccountedFor
  <2> SUFFICES ASSUME IInv PROVE FilesAccountedFor
    OBVIOUS
  <2>1. CleanMeansClean
    BY DEF IInv, TypeOK, Unwritten, CleanMeansClean, Clean
  <2>2. ExactWhenAlone
    BY DEF IInv, TypeOK, AllShown, Kept, Alone, Written, AsShown, Copied, ExactWhenAlone, Clean
  <2>3. Recoverable
    BY DEF IInv, TypeOK, Kept, Alone, Written, AsShown, Copied, Recoverable, Versions, NotYet,
           Targets, Files
  <2> QED
    BY <2>1, <2>2, <2>3 DEF FilesAccountedFor
<1> QED
  BY <1>1, Invariant, PTL

(* A file that was changed while the person was asked stops the call before *)
(* anything of it lands, whichever of its files that was.                   *)
THEOREM StaleStops == Spec => []StaleNeverLands
<1>1. IInv => StaleNeverLands
  <2> SUFFICES ASSUME IInv, NEW f \in moved, snapshot[f] \in Versions
               PROVE  outcome # "applied" /\ \A g \in Files : content[g] # Agents
    BY DEF StaleNeverLands
  <2>1. Overtaken(f) /\ f \in Files
    BY MaxFilesAssumption DEF IInv, TypeOK, Overtaken, Targets, Files
  <2>2. phase \in {"ask", "verify", "done"} /\ (phase = "done" => outcome \in Clean)
    BY <2>1 DEF IInv, TypeOK, Moved
  <2>3. outcome # "applied"
    BY <2>2 DEF IInv, TypeOK, Clean
  <2> QED
    BY <2>2, <2>3 DEF IInv, TypeOK, Unwritten, CleanMeansClean
<1> QED
  BY <1>1, Invariant, PTL
=============================================================================
