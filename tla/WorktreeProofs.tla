---------------------------- MODULE WorktreeProofs ----------------------------
(***************************************************************************)
(* Proofs about Worktree, for any set of change sets, any number of        *)
(* commits and branches, and whatever may fail or the user may do: that    *)
(* state.json tells the truth (RecordsTrue), that edits are never lost     *)
(* (WorkKept) and that what an approval leads to is what it showed         *)
(* (OnlyAsApproved).                                                       *)
(*                                                                         *)
(* What a restart finds is the file, what the manager acts on is its       *)
(* memory, and a failed save makes them differ.  So the invariant says     *)
(* three things: each of the two records is sound for what Git holds       *)
(* (Sound); the file lags behind memory in few ways only (Behind); and     *)
(* each step of an operation knows of its change set what the step before  *)
(* it established (AtInv), with the slot held by whom the step says.       *)
(* About the primary worktree the invariant knows the shape of its history *)
(* (Primary): a commit holds all that its ancestors hold, and a result     *)
(* holds what its base holds and itself.                                   *)
(***************************************************************************)
EXTENDS Worktree, TLAPS

\* A record of c that can be read back: it names what there is, and one that
\* offers, or is about to give up, a commit names that commit.
Sound(r, c) ==
  /\ r.state = "none" => r = NoRecord
  /\ r.state \in {"ready", "applied"} => r.result
  /\ ref[c] = "ahead" /\ (~r.path \/ r.state = "discarding") => r.result
  /\ tree[c] # "absent" \/ ref[c] # "absent" => r # NoRecord
  /\ r.state = "ready" => ref[c] = "ahead" \/ c \in landed \cup dropped
  /\ r.state = "applied" => c \in landed
  /\ r.state = "discarding" => c \in dropped

\* What a failed save may leave in the file and no longer in memory.
Behind(c) ==
  /\ disk[c] = NoRecord => mem[c] = NoRecord
  /\ mem[c].path => disk[c].path
  /\ disk[c].state = "ready" => mem[c].state = "ready" \/ c \in landed \cup dropped
  /\ disk[c].state = "discarding" => mem[c].state = "discarding"
  /\ base[c] = Unborn => disk[c] = NoRecord

Books == \A c \in ChangeSets : Sound(mem[c], c) /\ Sound(disk[c], c) /\ Behind(c)

\* Who holds the slot, by the operation under way.
Holds ==
  \/ at \in {"child", "commit", "stage", "committed"}
  \/ at \in {"sweep", "swept", "dropRef", "forget"} /\ InCheckpoint

SlotInv == IF Holds THEN active = cs ELSE active = NoOne /\ ~pending

\* What an operation knows of its change set between two steps.
Creating ==
  /\ why = "create" /\ ref[cs] # "ahead"
  /\ mem[cs].state \in {"creating", "recovery"} /\ mem[cs].path
  /\ at = "add" => tree[cs] = "absent" /\ ref[cs] = "absent"
  /\ at \in {"addFailed", "undoAdd"} => mem[cs].state = "recovery"

Working == why = "none" /\ mem[cs].state = "active" /\ mem[cs].path

Checkpointing ==
  /\ why \in {"checkpoint", "discard"}
  /\ mem[cs].state \notin {"ready", "applied", "discarding"} /\ mem[cs].path
  /\ at = "stage" => ref[cs] = "base"
  /\ at = "committed" => ref[cs] = "ahead"

\* Why a worktree, or a branch, is on its way out.
Cleaning ==
  \/ why \in {"checkpoint", "discard"} /\ at # "dropRef"
     /\ mem[cs].state = "ready" /\ (at = "sweep" => mem[cs].path)
  \/ why = "empty" /\ mem[cs].state = "empty" /\ ref[cs] = "base"
  \/ why = "apply" /\ mem[cs].state = "ready" /\ at # "dropRef"
  \/ why = "drop" /\ mem[cs].state = "discarding"
  \/ why = "landed" /\ mem[cs].state = "applied"

Leaving ==
  /\ why \in {"create", "empty", "drop", "landed"}
  /\ tree[cs] = "absent" /\ ref[cs] = "absent"
  /\ mem[cs].state = (CASE why = "empty" -> "empty" [] why = "drop" -> "discarding"
                        [] why = "landed" -> "applied" [] OTHER -> "recovery")

\* What the person is, or will be, shown of it.
Shown(r) ==
  \/ why = "apply"
  \/ /\ why = "discard" /\ r.state \notin {"applied", "discarding"}
     /\ ref[cs] = "ahead" => r.result

AtInv ==
  /\ at # "idle" => cs \in ChangeSets /\ mem[cs] # NoRecord
  /\ at \in {"add", "addFailed", "undoAdd", "activate"} => Creating
  /\ at = "child" => Working
  /\ at \in {"commit", "stage", "committed"} => Checkpointing
  /\ at \in {"sweep", "swept", "dropRef"} => Cleaning
  /\ at = "forget" => Leaving
  /\ at = "ask" => Shown(mem[cs])
  /\ at = "asked" => Shown(token)
  /\ at \in {"merge", "landed"} => why = "apply" /\ mem[cs].state = "ready"
  /\ at = "landed" => cs \in landed

\* The history of the primary worktree, and where the results belong in it.
History ==
  /\ head <= made
  /\ \A n \in Commits : IF n <= made THEN n \in over[n] /\ \A m \in over[n] : m <= made
                                    ELSE over[n] = {}
  /\ \A n \in Commits, m \in Commits : m \in over[n] => over[m] \subseteq over[n]

Results ==
  \A c \in ChangeSets :
    /\ base[c] # Unborn => base[c] <= made
    /\ became[c] # Unborn =>
         /\ base[c] # Unborn /\ became[c] <= made
         /\ over[became[c]] = over[base[c]] \cup {became[c]}

Primary == History /\ Results /\ (at = "merge" => Untouched \/ moved)

IInv == TypeOK /\ Books /\ SlotInv /\ AtInv /\ Primary

-----------------------------------------------------------------------------
\* The states a record may be in.
States == {"none", "creating", "active", "recovery", "empty", "ready", "applied",
     "discarding"}

Book == [ChangeSets -> Records]

\* Every way the manager writes a record leaves a book of records.
LEMMA Writes ==
  ASSUME mem \in Book
  PROVE  /\ NoRecord \in Records
         /\ \A s \in States : With(s) \in Book
         /\ Forgotten \in Book
         /\ [mem EXCEPT ![cs].path = FALSE] \in Book
         /\ [mem EXCEPT ![cs].state = "ready", ![cs].result = TRUE] \in Book
         /\ \A c \in ChangeSets :
              [mem EXCEPT ![c] = [state |-> "creating", path |-> TRUE, result |-> FALSE]] \in Book
<1>1. \A r \in Records, s \in States : [r EXCEPT !.state = s] \in Records
  BY DEF Records, States
<1>2. \A r \in Records : /\ [r EXCEPT !.path = FALSE] \in Records
                         /\ [[r EXCEPT !.state = "ready"] EXCEPT !.result = TRUE] \in Records
  BY DEF Records
<1>3. NoRecord \in Records /\ [state |-> "creating", path |-> TRUE, result |-> FALSE] \in Records
  BY DEF Records, NoRecord
<1> QED
  BY <1>1, <1>2, <1>3 DEF Book, With, Forgotten

\* Every step keeps the types.
LEMMA TypeStep == IInv /\ [Next]_vars => TypeOK'
<1> SUFFICES ASSUME IInv, [Next]_vars PROVE TypeOK'
  OBVIOUS
<1>b. TypeOK /\ (at = "merge" => cs \in ChangeSets /\ base[cs] \in Commits)
  BY DEF IInv, AtInv, Books, Behind, TypeOK
<1>0. mem \in Book /\ disk \in Book /\ TypeOK
  BY <1>b DEF TypeOK, Book
<1>a. /\ NoRecord \in Records /\ Forgotten \in Book
      /\ With("recovery") \in Book /\ With("active") \in Book /\ With("empty") \in Book
      /\ With("applied") \in Book /\ With("discarding") \in Book
      /\ [mem EXCEPT ![cs].path = FALSE] \in Book
      /\ [mem EXCEPT ![cs].state = "ready", ![cs].result = TRUE] \in Book
      /\ \A c \in ChangeSets :
           [mem EXCEPT ![c] = [state |-> "creating", path |-> TRUE, result |-> FALSE]] \in Book
  BY <1>0, Writes DEF States
<1> USE <1>0, <1>a DEF TypeOK, book, slot, git, user, past, Saved,
     SaveFails, TriedToSave, Rest, Go, Release, Leave, Steps, Free, Reasons
<1>w. UNCHANGED world
  BY DEF Next, vars
<1> USE <1>w
<1> USE DEF Book
<1>1. CASE Crash
  BY <1>1 DEF Crash
<1>2. CASE Add
  BY <1>2 DEF Add
<1>3. CASE KeepFailedAdd
  BY <1>3 DEF KeepFailedAdd
<1>4. CASE UndoAdd
  BY <1>4 DEF UndoAdd
<1>5. CASE Activate
  BY <1>5 DEF Activate
<1>6. CASE Stage
  BY <1>6 DEF Stage
<1>7. CASE CommitEdits
  BY <1>7 DEF CommitEdits
<1>8. CASE CommitNothing
  BY <1>8 DEF CommitNothing
<1>9. CASE CheckpointFails
  BY <1>9 DEF CheckpointFails
<1>10. CASE RecordReady
  BY <1>10 DEF RecordReady
<1>11. CASE Sweep
  <2>1. CASE Refused
    <3>1. mem' \in Book /\ disk' \in Book /\ active' \in ChangeSets \cup {NoOne} /\ pending' \in BOOLEAN
      BY <2>1 DEF Refused
    <3>2. /\ at' \in Steps \cup Free /\ cs' \in ChangeSets \cup {NoOne} /\ why' \in Reasons
          /\ token' \in Records
      BY <2>1 DEF Refused
    <3> QED
      BY <1>11, <3>1, <3>2 DEF Sweep
  <2>2. CASE ~Refused
    BY <1>11, <2>2 DEF Sweep, AfterSweep
  <2> QED
    BY <2>1, <2>2
<1>12. CASE Swept
  BY <1>12 DEF Swept, AfterSweep
<1>13. CASE DropRef
  <2>1. CASE Refused
    <3>1. mem' \in Book /\ disk' \in Book /\ active' \in ChangeSets \cup {NoOne} /\ pending' \in BOOLEAN
      BY <2>1 DEF Refused
    <3>2. /\ at' \in Steps \cup Free /\ cs' \in ChangeSets \cup {NoOne} /\ why' \in Reasons
          /\ token' \in Records
      BY <2>1 DEF Refused
    <3>3. ref' \in [ChangeSets -> {"absent", "base", "ahead"}]
      BY <1>13 DEF DropRef
    <3> QED
      BY <1>13, <3>1, <3>2, <3>3 DEF DropRef
  <2>2. CASE ~Refused
    BY <1>13, <2>2 DEF DropRef
  <2> QED
    BY <2>1, <2>2
<1>14. CASE Forget
  <2>1. mem' \in Book /\ disk' \in Book /\ active' \in ChangeSets \cup {NoOne} /\ pending' \in BOOLEAN
    BY <1>14 DEF Forget
  <2>2. /\ at' \in Steps \cup Free /\ cs' \in ChangeSets \cup {NoOne} /\ why' \in Reasons
        /\ token' \in Records
    BY <1>14 DEF Forget
  <2> QED
    BY <1>14, <2>1, <2>2 DEF Forget
<1>15. CASE Ask
  BY <1>15 DEF Ask
<1>16. CASE Merge
  <2>2. CASE FastForward /\ ResultCommit \in Commits
    <3>1. Holding(ResultCommit) \subseteq Commits
      <4>1. over[base[cs]] \subseteq Commits
        BY <1>b, <1>16 DEF Merge
      <4> QED
        BY <2>2, <4>1 DEF Holding
    <3>2. \/ /\ head' = ResultCommit /\ became' = [became EXCEPT ![cs] = ResultCommit]
             /\ over' = [over EXCEPT ![ResultCommit] = Holding(ResultCommit)]
             /\ made' \in {ResultCommit, made}
             /\ landed' = landed \cup {cs} /\ at' = "landed"
             /\ UNCHANGED <<cs, why, token>>
          \/ /\ UNCHANGED <<head, made, over, became, landed>>
             /\ at' = "idle" /\ cs' = NoOne /\ why' = "none" /\ token' = NoRecord
      BY <1>16 DEF Merge
    <3>3. /\ head' \in Commits /\ made' \in Commits
          /\ became' \in [ChangeSets -> {Unborn} \cup Commits]
          /\ over' \in [Commits -> SUBSET Commits]
      BY <2>2, <3>1, <3>2
    <3>4. landed' \subseteq ChangeSets
      BY <1>b, <1>16, <3>2 DEF Merge
    <3> QED
      BY <1>16, <3>2, <3>3, <3>4 DEF Merge
  <2>3. CASE ~(FastForward /\ ResultCommit \in Commits)
    BY <1>16, <2>3 DEF Merge
  <2> QED
    BY <2>2, <2>3
<1>17. CASE RecordLanded
  BY <1>17 DEF RecordLanded
<1>18. CASE ChildReturns
  BY <1>18 DEF ChildReturns
<1>19. CASE Reject
  BY <1>19 DEF Reject
<1>20. CASE ApproveApply
  BY <1>20 DEF ApproveApply, StillApproved
<1>21. CASE ApproveDiscard
  BY <1>21 DEF ApproveDiscard
<1>22. CASE ChildEdits
  BY <1>22 DEF ChildEdits
<1>23. CASE SwitchWorkspace
  BY <1>23 DEF SwitchWorkspace, Free
<1>24. CASE UserWorks
  <2>1. head' \in Commits /\ made' \in Commits /\ over' \in [Commits -> SUBSET Commits]
    <3>1. CASE UNCHANGED <<made, over>>
      <4>1. \A n \in 0 .. made : n \in Commits
        BY BoundsAssumption DEF Commits
      <4> QED
        BY <1>24, <3>1, <4>1, BoundsAssumption DEF UserWorks, Commits
    <3>2. CASE ~UNCHANGED <<made, over>>
      <4>1. /\ head' = made + 1 /\ made' = made + 1 /\ made < MaxHead
            /\ over' = [over EXCEPT ![made + 1] = over[head] \cup {made + 1}]
        BY <1>24, <3>2 DEF UserWorks
      <4>2. made + 1 \in Commits
        BY <4>1, BoundsAssumption DEF Commits
      <4>3. over[head] \cup {made + 1} \subseteq Commits
        BY <4>2
      <4> QED
        BY <4>1, <4>2, <4>3
    <3> QED
      BY <3>1, <3>2
  <2>2. on' \in Branches
    BY <1>24 DEF UserWorks
  <2>3. dirty' \in BOOLEAN /\ moved' \in BOOLEAN
    BY <1>24, Zenon DEF UserWorks, TypeOK
  <2> QED
    BY <1>24, <2>1, <2>2, <2>3 DEF UserWorks
<1>25. ASSUME NEW d \in ChangeSets, Create(d) PROVE TypeOK'
  BY <1>25 DEF Create
<1>26. ASSUME NEW d \in ChangeSets, Apply(d) PROVE TypeOK'
  BY <1>26 DEF Apply
<1>27. ASSUME NEW d \in ChangeSets, Discard(d) PROVE TypeOK'
  BY <1>27 DEF Discard
<1>28. ASSUME NEW d \in ChangeSets, LateEdit(d) PROVE TypeOK'
  BY <1>28 DEF LateEdit
<1>29. CASE UNCHANGED vars
  BY <1>29 DEF vars
<1> QED
  BY <1>1, <1>2, <1>3, <1>4, <1>5, <1>6, <1>7, <1>8, <1>9, <1>10, <1>11, <1>12, <1>13,
       <1>14, <1>15, <1>16, <1>17, <1>18, <1>19, <1>20, <1>21, <1>22, <1>23, <1>24,
       <1>25, <1>26, <1>27, <1>28, <1>29 DEF Next, Manager, Root

\* What the ways of writing a record do to the record of each change set.
LEMMA Written ==
  ASSUME mem \in Book, NEW c \in ChangeSets
  PROVE  /\ c # cs => /\ \A s \in States : With(s)[c] = mem[c]
                     /\ Forgotten[c] = mem[c]
                     /\ [mem EXCEPT ![cs].path = FALSE][c] = mem[c]
                     /\ [mem EXCEPT ![cs].state = "ready", ![cs].result = TRUE][c] = mem[c]
         /\ c = cs => /\ \A s \in States : /\ With(s)[c].state = s
                                          /\ With(s)[c].path = mem[c].path
                                          /\ With(s)[c].result = mem[c].result
                     /\ Forgotten[c] = NoRecord
                     /\ LET r == [mem EXCEPT ![cs].path = FALSE][c]
                        IN  r.state = mem[c].state /\ ~r.path /\ r.result = mem[c].result
                     /\ LET q == [mem EXCEPT ![cs].state = "ready", ![cs].result = TRUE][c]
                        IN  q.state = "ready" /\ q.path = mem[c].path /\ q.result
BY DEF Book, Records, With, Forgotten, States, NoRecord

\* What Books says of one change set.
Fine(c) == Sound(mem[c], c) /\ Sound(disk[c], c) /\ Behind(c)

\* Every step keeps both records of every change set sound: for the one it is
\* about by its case, for the others because their records only change hands.
LEMMA BooksStep == IInv /\ [Next]_vars => Books'
<1> SUFFICES ASSUME IInv, [Next]_vars, NEW c \in ChangeSets PROVE Fine(c)'
  BY DEF Books, Fine
<1>0. TypeOK /\ AtInv /\ mem \in Book /\ disk \in Book /\ Fine(c)
  BY DEF IInv, Books, Fine, TypeOK, Book
<1>r. Forgotten \in Book /\ \A s \in States : With(s) \in Book
  BY <1>0, Writes
<1>d. mem' \in Book /\ disk' \in Book
  BY <1>0, TypeStep DEF TypeOK, Book
<1>l. ASSUME NEW m \in Book
      PROVE  /\ m[c].path \in BOOLEAN /\ m[c].result \in BOOLEAN
             /\ m[c] = NoRecord <=> m[c].state = "none" /\ ~m[c].path /\ ~m[c].result
  BY DEF Book, Records, NoRecord
<1>n. /\ mem[c].path \in BOOLEAN /\ mem[c].result \in BOOLEAN
      /\ disk[c].path \in BOOLEAN /\ disk[c].result \in BOOLEAN
      /\ mem[c] = NoRecord <=> mem[c].state = "none" /\ ~mem[c].path /\ ~mem[c].result
      /\ disk[c] = NoRecord <=> disk[c].state = "none" /\ ~disk[c].path /\ ~disk[c].result
  BY <1>0, <1>l
<1>m. /\ mem'[c] = NoRecord <=> mem'[c].state = "none" /\ ~mem'[c].path /\ ~mem'[c].result
      /\ disk'[c] = NoRecord <=> disk'[c].state = "none" /\ ~disk'[c].path /\ ~disk'[c].result
      /\ mem'[c].path \in BOOLEAN /\ mem'[c].result \in BOOLEAN
      /\ disk'[c].path \in BOOLEAN /\ disk'[c].result \in BOOLEAN
  BY <1>d, <1>l
<1>t. /\ tree \in [ChangeSets -> {"absent", "clean", "edited"}]
      /\ ref \in [ChangeSets -> {"absent", "base", "ahead"}]
      /\ base \in [ChangeSets -> {Unborn} \cup Commits] /\ Unborn \notin Commits
      /\ head \in Commits
  BY <1>0 DEF TypeOK, Unborn, Commits
<1>w. ASSUME c # cs
      PROVE  /\ \A s \in States : With(s)[c] = mem[c]
             /\ Forgotten[c] = mem[c]
             /\ [mem EXCEPT ![cs].path = FALSE][c] = mem[c]
             /\ [mem EXCEPT ![cs].state = "ready", ![cs].result = TRUE][c] = mem[c]
  BY <1>0, <1>w, Written
<1>x. ASSUME c = cs
      PROVE  /\ \A s \in States : /\ With(s)[c].state = s
                                  /\ With(s)[c].path = mem[c].path
                                  /\ With(s)[c].result = mem[c].result
             /\ Forgotten[c] = NoRecord
             /\ LET r == [mem EXCEPT ![cs].path = FALSE][c]
                IN  r.state = mem[c].state /\ ~r.path /\ r.result = mem[c].result
             /\ LET q == [mem EXCEPT ![cs].state = "ready", ![cs].result = TRUE][c]
                IN  q.state = "ready" /\ q.path = mem[c].path /\ q.result
  BY <1>0, <1>x, Written
<1>o. ASSUME mem'[c] \in {mem[c], disk'[c]}, disk'[c] \in {mem[c], disk[c]},
             UNCHANGED <<ref[c], base>>, tree'[c] \in {tree[c], "absent"}, landed \subseteq landed', dropped \subseteq dropped'
      PROVE  Fine(c)'
  BY <1>0, <1>o DEF Fine, Sound, Behind
<1> DEFINE Put(s) == mem'[c].state = s /\ mem'[c].path = mem[c].path /\ mem'[c].result = mem[c].result
           PutDown(s) == disk'[c].state = s /\ disk'[c].path = mem[c].path /\ disk'[c].result = mem[c].result
<1> USE DEF States, book, slot, git, user, past, Saved, SaveFails, TriedToSave, Rest,
     Go, Release, Leave, InCheckpoint
<1> USE <1>0, <1>n, <1>m, <1>t DEF Fine, Sound, Behind, AtInv
<1>1. CASE Crash
  BY <1>1 DEF Crash
<1>2. CASE Add
  <2>1. CASE c # cs
    <3>1. mem'[c] \in {mem[c], disk'[c]} /\ disk'[c] \in {mem[c], disk[c]}
      BY <1>2, <2>1, <1>w DEF Add
    <3>2. UNCHANGED <<tree[c], ref[c], base>> /\ landed \subseteq landed' /\ dropped \subseteq dropped'
      BY <1>2, <2>1 DEF Add
    <3> QED
      BY <1>o, <3>1, <3>2
  <2>2. CASE c = cs
    <3>1. /\ mem'[c] = mem[c] \/ Put("recovery")
          /\ UNCHANGED <<disk, base, landed, dropped>>
          /\ UNCHANGED <<tree, ref>> \/ ref'[c] = "base"
      BY <1>2, <2>2, <1>x DEF Add, Creating
    <3>2. Creating
      BY <1>2 DEF Add
    <3> HIDE <1>0, <1>t DEF AtInv, Add
    <3> QED
      BY <1>0, <2>2, <3>1, <3>2 DEF Creating
  <2> QED
    BY <2>1, <2>2
<1>3. CASE KeepFailedAdd
  BY <1>3 DEF KeepFailedAdd
<1>4. CASE UndoAdd
  BY <1>4 DEF UndoAdd, Creating
<1>5. CASE Activate
  <2>1. CASE c # cs
    <3>1. mem'[c] \in {mem[c], disk'[c]} /\ disk'[c] \in {mem[c], disk[c]}
      BY <1>5, <2>1, <1>w DEF Activate
    <3>2. UNCHANGED <<tree[c], ref[c], base>> /\ landed \subseteq landed' /\ dropped \subseteq dropped'
      BY <1>5, <2>1 DEF Activate
    <3> QED
      BY <1>o, <3>1, <3>2
  <2>2. CASE c = cs
    <3>1. /\ Put("active") \/ Put("recovery")
          /\ disk'[c] \in {mem'[c], disk[c]}
          /\ UNCHANGED <<base, landed, dropped, tree, ref>>
      BY <1>5, <2>2, <1>x DEF Activate, Creating
    <3>2. Creating
      BY <1>5 DEF Activate
    <3> HIDE <1>0, <1>t DEF AtInv, Activate
    <3> QED
      BY <1>0, <2>2, <3>1, <3>2 DEF Creating
  <2> QED
    BY <2>1, <2>2
<1>6. CASE Stage
  BY <1>6 DEF Stage, Checkpointing
<1>7. CASE CommitEdits
  BY <1>7 DEF CommitEdits, Checkpointing
<1>8. CASE CommitNothing
  <2>1. CASE c # cs
    <3>1. mem'[c] \in {mem[c], disk'[c]} /\ disk'[c] \in {mem[c], disk[c]}
      BY <1>8, <2>1, <1>w DEF CommitNothing
    <3>2. UNCHANGED <<tree[c], ref[c], base>> /\ landed \subseteq landed' /\ dropped \subseteq dropped'
      BY <1>8, <2>1 DEF CommitNothing
    <3> QED
      BY <1>o, <3>1, <3>2
  <2>2. CASE c = cs
    <3>1. /\ Put("empty") /\ UNCHANGED <<disk, base, landed, dropped, tree, ref>> /\ ref[c] = "base"
      BY <1>8, <2>2, <1>x DEF CommitNothing, Checkpointing
    <3>2. Checkpointing
      BY <1>8 DEF CommitNothing
    <3> HIDE <1>0, <1>t DEF AtInv, CommitNothing
    <3> QED
      BY <1>0, <2>2, <3>1, <3>2 DEF Checkpointing
  <2> QED
    BY <2>1, <2>2
<1>9. CASE CheckpointFails
  <2>1. CASE c # cs
    <3>1. mem'[c] \in {mem[c], disk'[c]} /\ disk'[c] \in {mem[c], disk[c]}
      BY <1>9, <2>1, <1>w DEF CheckpointFails
    <3>2. UNCHANGED <<tree[c], ref[c], base>> /\ landed \subseteq landed' /\ dropped \subseteq dropped'
      BY <1>9, <2>1 DEF CheckpointFails
    <3> QED
      BY <1>o, <3>1, <3>2
  <2>2. CASE c = cs
    <3>1. /\ \/ Put("recovery") /\ disk'[c] \in {disk[c], mem'[c]}
             \/ mem'[c] = disk'[c] /\ (disk'[c] = disk[c] \/ PutDown("recovery"))
             \/ mem'[c] \in {mem[c], disk'[c]} /\ disk'[c] = disk[c]
          /\ UNCHANGED <<base, landed, dropped, tree, ref>>
      BY <1>9, <2>2, <1>x DEF CheckpointFails, Checkpointing
    <3>2. Checkpointing
      BY <1>9 DEF CheckpointFails
    <3> HIDE <1>0, <1>t DEF AtInv, CheckpointFails
    <3>3. CASE Put("recovery") /\ disk'[c] \in {disk[c], mem'[c]}
      BY <1>0, <2>2, <3>1, <3>2, <3>3 DEF Checkpointing
    <3>4. CASE mem'[c] = disk'[c] /\ (disk'[c] = disk[c] \/ PutDown("recovery"))
      BY <1>0, <2>2, <3>1, <3>2, <3>4 DEF Checkpointing
    <3>5. CASE mem'[c] \in {mem[c], disk'[c]} /\ disk'[c] = disk[c]
      BY <1>0, <2>2, <3>1, <3>2, <3>5 DEF Checkpointing
    <3> QED
      BY <3>1, <3>3, <3>4, <3>5
  <2> QED
    BY <2>1, <2>2
<1>10. CASE RecordReady
  <2>1. CASE c # cs
    <3>1. mem'[c] \in {mem[c], disk'[c]} /\ disk'[c] \in {mem[c], disk[c]}
      BY <1>10, <2>1, <1>w DEF RecordReady
    <3>2. UNCHANGED <<tree[c], ref[c], base>> /\ landed \subseteq landed' /\ dropped \subseteq dropped'
      BY <1>10, <2>1 DEF RecordReady
    <3> QED
      BY <1>o, <3>1, <3>2
  <2>2. CASE c = cs
    <3> DEFINE m == [mem EXCEPT ![cs].state = "ready", ![cs].result = TRUE]
    <3>0. m[c].state = "ready" /\ m[c].path = mem[c].path /\ m[c].result
      BY <2>2, <1>x
    <3>1. mem' \in {m, disk'} /\ disk' \in {disk, m}
      BY <1>10 DEF RecordReady
    <3>3. UNCHANGED <<base, landed, dropped, tree, ref>>
      BY <1>10 DEF RecordReady
    <3>2. Checkpointing /\ ref[c] = "ahead"
      BY <1>10, <2>2 DEF RecordReady, Checkpointing
    <3> HIDE DEF AtInv, m
    <3> QED
      BY <2>2, <3>0, <3>1, <3>3, <3>2 DEF Checkpointing
  <2> QED
    BY <2>1, <2>2
<1>11. CASE Sweep
  <2>1. CASE c # cs
    <3>1. mem'[c] \in {mem[c], disk'[c]} /\ disk'[c] \in {mem[c], disk[c]}
      BY <1>11, <2>1, <1>w DEF Sweep, Refused, Removable
    <3>2. UNCHANGED <<tree[c], ref[c], base>> /\ landed \subseteq landed' /\ dropped \subseteq dropped'
      BY <1>11, <2>1 DEF Sweep, Refused, Removable
    <3> QED
      BY <1>o, <3>1, <3>2
  <2>2. CASE c = cs
    <3>1. Cleaning
      BY <1>11 DEF Sweep
    <3>4. CASE ~Refused
      <4>0. mem' = [mem EXCEPT ![cs].path = FALSE] /\ UNCHANGED <<disk, ref, base, landed, dropped>>
            /\ tree' = [tree EXCEPT ![cs] = "absent"]
        BY <1>11, <3>4 DEF Sweep
      <4>1. /\ mem'[c].state = mem[c].state /\ ~mem'[c].path /\ mem'[c].result = mem[c].result
            /\ UNCHANGED <<disk, ref, base, landed, dropped>> /\ tree'[c] = "absent"
        BY <2>2, <4>0, <1>x
      <4> HIDE DEF AtInv
      <4> QED
        BY <2>2, <3>1, <4>1 DEF Cleaning
    <3>2. CASE Refused /\ why # "empty"
      <4>1. mem'[c] \in {mem[c], disk'[c]} /\ disk'[c] \in {mem[c], disk[c]}
        BY <3>2 DEF Refused
      <4>2. /\ UNCHANGED <<ref[c], base>> /\ tree'[c] \in {tree[c], "absent"}
            /\ landed \subseteq landed' /\ dropped \subseteq dropped'
        BY <1>11, <3>2 DEF Sweep
      <4> QED
        BY <1>o, <4>1, <4>2
    <3>3. CASE Refused /\ why = "empty"
      <4>1. \/ Put("recovery") /\ disk'[c] \in {disk[c], mem'[c]}
            \/ mem'[c] = disk'[c] /\ (disk'[c] = disk[c] \/ PutDown("recovery"))
        BY <3>3, <2>2, <1>x DEF Refused
      <4>2. /\ UNCHANGED <<ref, base, landed, dropped>> /\ tree'[c] \in {tree[c], "absent"}
        BY <1>11, <3>3 DEF Sweep
      <4> HIDE DEF AtInv
      <4> QED
        BY <2>2, <3>3, <3>1, <4>1, <4>2 DEF Cleaning
    <3> QED
      BY <3>2, <3>3, <3>4
  <2> QED
    BY <2>1, <2>2
<1>12. CASE Swept
  BY <1>12 DEF Swept, AfterSweep
<1>13. CASE DropRef
  <2>1. CASE c # cs
    <3>1. mem'[c] \in {mem[c], disk'[c]} /\ disk'[c] \in {mem[c], disk[c]}
      BY <1>13, <2>1, <1>w DEF DropRef, Refused, Expected
    <3>2. UNCHANGED <<tree[c], ref[c], base>> /\ landed \subseteq landed' /\ dropped \subseteq dropped'
      BY <1>13, <2>1 DEF DropRef, Refused, Expected
    <3> QED
      BY <1>o, <3>1, <3>2
  <2>2. CASE c = cs
    <3>1. Cleaning /\ at = "dropRef"
      BY <1>13 DEF DropRef
    <3>4. CASE at' = "forget"
      <4>1. /\ UNCHANGED <<mem, disk, tree, base, landed, dropped>>
            /\ tree[c] = "absent" /\ ref'[c] = "absent"
        BY <1>13, <2>2, <3>4 DEF DropRef, Refused
      <4> HIDE DEF AtInv
      <4> QED
        BY <2>2, <3>1, <4>1 DEF Cleaning
    <3>2. CASE Refused /\ at' # "forget" /\ why # "empty"
      <4>1. mem'[c] \in {mem[c], disk'[c]} /\ disk'[c] \in {mem[c], disk[c]}
        BY <3>2 DEF Refused
      <4>2. /\ UNCHANGED <<ref[c], base>> /\ tree'[c] \in {tree[c], "absent"}
            /\ landed \subseteq landed' /\ dropped \subseteq dropped'
        BY <1>13, <3>2 DEF DropRef
      <4> QED
        BY <1>o, <4>1, <4>2
    <3>3. CASE Refused /\ at' # "forget" /\ why = "empty"
      <4>1. \/ Put("recovery") /\ disk'[c] \in {disk[c], mem'[c]}
            \/ mem'[c] = disk'[c] /\ (disk'[c] = disk[c] \/ PutDown("recovery"))
        BY <3>3, <2>2, <1>x DEF Refused
      <4>2. /\ UNCHANGED <<ref, base, landed, dropped>> /\ tree'[c] \in {tree[c], "absent"}
        BY <1>13, <3>3 DEF DropRef
      <4> HIDE DEF AtInv
      <4> QED
        BY <2>2, <3>3, <3>1, <4>1, <4>2 DEF Cleaning
    <3> QED
      BY <1>13, <3>2, <3>3, <3>4 DEF DropRef
  <2> QED
    BY <2>1, <2>2
<1>14. CASE Forget
  <2>1. CASE c # cs
    <3>1. mem'[c] \in {mem[c], disk'[c]} /\ disk'[c] \in {mem[c], disk[c]}
      BY <1>14, <2>1, <1>w DEF Forget
    <3>2. UNCHANGED <<tree[c], ref[c], base>> /\ landed \subseteq landed' /\ dropped \subseteq dropped'
      BY <1>14, <2>1 DEF Forget
    <3> QED
      BY <1>o, <3>1, <3>2
  <2>2. CASE c = cs
    <3>1. Leaving /\ UNCHANGED <<tree, ref, base, landed, dropped>>
      BY <1>14 DEF Forget
    <3>2. \/ disk'[c] = NoRecord /\ mem'[c] = NoRecord
          \/ mem'[c] \in {mem[c], disk'[c]} /\ disk'[c] \in {mem[c], disk[c]}
          \/ why \notin {"drop", "landed"} /\ disk'[c] = disk[c] /\ mem'[c] \in {NoRecord, disk[c]}
      BY <1>14, <2>2, <1>x DEF Forget
    <3> HIDE DEF AtInv
    <3> QED
      BY <2>2, <3>1, <3>2, <1>r DEF Leaving
  <2> QED
    BY <2>1, <2>2
<1>15. CASE Ask
  BY <1>15 DEF Ask
<1>16. CASE Merge
  BY <1>16 DEF Merge
<1>17. CASE RecordLanded
  <2>1. CASE c # cs
    <3>1. mem'[c] \in {mem[c], disk'[c]} /\ disk'[c] \in {mem[c], disk[c]}
      BY <1>17, <2>1, <1>w DEF RecordLanded
    <3>2. UNCHANGED <<tree[c], ref[c], base>> /\ landed \subseteq landed' /\ dropped \subseteq dropped'
      BY <1>17, <2>1 DEF RecordLanded
    <3> QED
      BY <1>o, <3>1, <3>2
  <2>2. CASE c = cs
    BY <1>17, <2>2, <1>x DEF RecordLanded
  <2> QED
    BY <2>1, <2>2
<1>18. CASE ChildReturns
  BY <1>18 DEF ChildReturns
<1>19. CASE Reject
  BY <1>19 DEF Reject
<1>20. CASE ApproveApply
  BY <1>20 DEF ApproveApply, StillApproved
<1>21. CASE ApproveDiscard
  <2>1. CASE c # cs
    <3>1. mem'[c] \in {mem[c], disk'[c]} /\ disk'[c] \in {mem[c], disk[c]}
      BY <1>21, <2>1, <1>w DEF ApproveDiscard
    <3>2. UNCHANGED <<tree[c], ref[c], base>> /\ landed \subseteq landed' /\ dropped \subseteq dropped'
      BY <1>21, <2>1 DEF ApproveDiscard
    <3> QED
      BY <1>o, <3>1, <3>2
  <2>2. CASE c = cs
    <3>1. CASE mem[cs] = token
      <4>1. Put("discarding") /\ disk'[c] \in {disk[c], mem'[c]}
        BY <1>21, <2>2, <3>1, <1>x DEF ApproveDiscard
      <4>2. UNCHANGED <<base, landed, tree, ref>> /\ dropped' = dropped \cup {c}
        BY <1>21, <2>2, <3>1 DEF ApproveDiscard
      <4>3. Shown(mem[c]) /\ why = "discard"
        BY <1>21, <2>2, <3>1 DEF ApproveDiscard
      <4> HIDE DEF AtInv
      <4>4. mem[c].state \notin {"applied", "discarding"} /\ (ref[c] = "ahead" => mem[c].result)
        BY <2>2, <4>3 DEF Shown
      <4>5. mem[c] # NoRecord
        BY <1>21, <2>2 DEF ApproveDiscard, AtInv
      <4> QED
        BY <2>2, <4>1, <4>2, <4>4, <4>5
    <3>2. CASE mem[cs] # token
      BY <1>21, <3>2, <1>o DEF ApproveDiscard
    <3> QED
      BY <3>1, <3>2
  <2> QED
    BY <2>1, <2>2
<1>22. CASE ChildEdits
  BY <1>22 DEF ChildEdits, Working
<1>23. CASE SwitchWorkspace
  BY <1>23 DEF SwitchWorkspace, Free
<1>24. CASE UserWorks
  BY <1>24 DEF UserWorks
<1>25. ASSUME NEW d \in ChangeSets, Create(d) PROVE Fine(c)'
  BY <1>25 DEF Create
<1>26. ASSUME NEW d \in ChangeSets, Apply(d) PROVE Fine(c)'
  BY <1>26 DEF Apply
<1>27. ASSUME NEW d \in ChangeSets, Discard(d) PROVE Fine(c)'
  BY <1>27 DEF Discard
<1>28. ASSUME NEW d \in ChangeSets, LateEdit(d) PROVE Fine(c)'
  BY <1>28 DEF LateEdit
<1>29. CASE UNCHANGED vars
  BY <1>29 DEF vars
<1> QED
  BY <1>1, <1>2, <1>3, <1>4, <1>5, <1>6, <1>7, <1>8, <1>9, <1>10, <1>11, <1>12, <1>13,
       <1>14, <1>15, <1>16, <1>17, <1>18, <1>19, <1>20, <1>21, <1>22, <1>23, <1>24,
       <1>25, <1>26, <1>27, <1>28, <1>29 DEF Next, Manager, Root

\* Every step leaves the slot with whom the next step says.
LEMMA SlotStep == IInv /\ [Next]_vars => SlotInv'
<1> SUFFICES ASSUME IInv, [Next]_vars PROVE SlotInv'
  OBVIOUS
<1>0. /\ SlotInv /\ AtInv /\ at \in Steps \cup Free /\ NoOne \notin ChangeSets
      /\ mem[cs].path \in BOOLEAN \/ at = "idle"
  BY NoOneAssumption DEF IInv, AtInv, TypeOK, Records
<1> USE <1>0 DEF SlotInv, Holds, book, slot, git, user, past, Rest, Go, Release, Leave,
     InCheckpoint, Steps, Free
<1>1. CASE Crash
  BY <1>1 DEF Crash
<1>2. CASE Add
  BY <1>2 DEF Add
<1>3. CASE KeepFailedAdd
  BY <1>3 DEF KeepFailedAdd
<1>4. CASE UndoAdd
  BY <1>4 DEF UndoAdd, AtInv, Creating
<1>5. CASE Activate
  BY <1>5 DEF Activate
<1>6. CASE Stage
  BY <1>6 DEF Stage
<1>7. CASE CommitEdits
  BY <1>7 DEF CommitEdits
<1>8. CASE CommitNothing
  BY <1>8 DEF CommitNothing
<1>9. CASE CheckpointFails
  BY <1>9 DEF CheckpointFails, AtInv, Checkpointing
<1>10. CASE RecordReady
  BY <1>10 DEF RecordReady, AtInv, Checkpointing
<1>11. CASE Sweep
  BY <1>11 DEF Sweep, Refused, AfterSweep, AtInv, Cleaning
<1>12. CASE Swept
  BY <1>12 DEF Swept, AfterSweep, AtInv, Cleaning
<1>13. CASE DropRef
  BY <1>13 DEF DropRef, Refused, AtInv, Cleaning
<1>14. CASE Forget
  BY <1>14 DEF Forget, AtInv, Leaving
<1>15. CASE Ask
  BY <1>15 DEF Ask
<1>16. CASE Merge
  BY <1>16 DEF Merge
<1>17. CASE RecordLanded
  BY <1>17 DEF RecordLanded
<1>18. CASE ChildReturns
  BY <1>18 DEF ChildReturns
<1>19. CASE Reject
  BY <1>19 DEF Reject
<1>20. CASE ApproveApply
  BY <1>20 DEF ApproveApply, StillApproved
<1>21. CASE ApproveDiscard
  BY <1>21 DEF ApproveDiscard
<1>22. CASE ChildEdits
  BY <1>22 DEF ChildEdits
<1>23. CASE SwitchWorkspace
  BY <1>23 DEF SwitchWorkspace, Free
<1>24. CASE UserWorks
  BY <1>24 DEF UserWorks
<1>25. ASSUME NEW d \in ChangeSets, Create(d) PROVE SlotInv'
  BY <1>25 DEF Create
<1>26. ASSUME NEW d \in ChangeSets, Apply(d) PROVE SlotInv'
  BY <1>26 DEF Apply
<1>27. ASSUME NEW d \in ChangeSets, Discard(d) PROVE SlotInv'
  BY <1>27 DEF Discard
<1>28. ASSUME NEW d \in ChangeSets, LateEdit(d) PROVE SlotInv'
  BY <1>28 DEF LateEdit
<1>29. CASE UNCHANGED vars
  BY <1>29 DEF vars
<1> QED
  BY <1>1, <1>2, <1>3, <1>4, <1>5, <1>6, <1>7, <1>8, <1>9, <1>10, <1>11, <1>12, <1>13,
       <1>14, <1>15, <1>16, <1>17, <1>18, <1>19, <1>20, <1>21, <1>22, <1>23, <1>24,
       <1>25, <1>26, <1>27, <1>28, <1>29 DEF Next, Manager, Root

\* Every step establishes what the next one of its operation relies on.
LEMMA AtStep == IInv /\ [Next]_vars => AtInv'
<1> SUFFICES ASSUME IInv, [Next]_vars PROVE AtInv'
  OBVIOUS
<1>0. TypeOK /\ Books /\ SlotInv /\ AtInv /\ mem \in Book /\ disk \in Book
  BY DEF IInv, TypeOK, Book
<1>n. \A c \in ChangeSets :
        /\ mem[c].path \in BOOLEAN /\ mem[c].result \in BOOLEAN
        /\ disk[c].path \in BOOLEAN /\ disk[c].result \in BOOLEAN
        /\ mem[c] = NoRecord <=> mem[c].state = "none" /\ ~mem[c].path /\ ~mem[c].result
        /\ disk[c] = NoRecord <=> disk[c].state = "none" /\ ~disk[c].path /\ ~disk[c].result
  BY <1>0 DEF Book, Records, NoRecord
<1>d. mem' \in Book /\ disk' \in Book
  BY <1>0, TypeStep DEF TypeOK, Book
<1>m. \A c \in ChangeSets :
         mem'[c] = NoRecord <=> mem'[c].state = "none" /\ ~mem'[c].path /\ ~mem'[c].result
  BY <1>d DEF Book, Records, NoRecord
<1>x. ASSUME cs \in ChangeSets
      PROVE  /\ \A s \in States : /\ With(s)[cs].state = s
                                  /\ With(s)[cs].path = mem[cs].path
                                  /\ With(s)[cs].result = mem[cs].result
             /\ Forgotten[cs] = NoRecord
             /\ LET r == [mem EXCEPT ![cs].path = FALSE][cs]
                IN  r.state = mem[cs].state /\ ~r.path /\ r.result = mem[cs].result
             /\ LET q == [mem EXCEPT ![cs].state = "ready", ![cs].result = TRUE][cs]
                IN  q.state = "ready" /\ q.path = mem[cs].path /\ q.result
  BY <1>0, <1>x, Written
<1>t. /\ tree \in [ChangeSets -> {"absent", "clean", "edited"}]
      /\ ref \in [ChangeSets -> {"absent", "base", "ahead"}]
      /\ at \in Steps \cup Free
      /\ at # "idle" => Sound(mem[cs], cs) /\ Sound(disk[cs], cs) /\ Behind(cs)
  BY <1>0 DEF TypeOK, Books, AtInv
<1> USE <1>n, <1>m, <1>t, <1>0 DEF AtInv, States, book, slot, git, user, past, Saved,
     SaveFails, TriedToSave, Rest, Go, Release, Leave, Steps, Free
<1>1. CASE Crash
  BY <1>1 DEF Crash
<1>2. CASE Add
  BY <1>2, <1>x DEF Add, Creating
<1>3. CASE KeepFailedAdd
  BY <1>3, <1>x DEF KeepFailedAdd, Creating
<1>4. CASE UndoAdd
  BY <1>4, <1>x DEF UndoAdd, Creating, Leaving
<1>5. CASE Activate
  BY <1>5, <1>x DEF Activate, Creating, Working
<1>6. CASE Stage
  BY <1>6, <1>x DEF Stage, Checkpointing
<1>7. CASE CommitEdits
  BY <1>7, <1>x DEF CommitEdits, Checkpointing
<1>8. CASE CommitNothing
  BY <1>8, <1>x DEF CommitNothing, Checkpointing, Cleaning
<1>9. CASE CheckpointFails
  BY <1>9, <1>x DEF CheckpointFails
<1>10. CASE RecordReady
  <2> DEFINE m == [mem EXCEPT ![cs].state = "ready", ![cs].result = TRUE]
  <2>1. m[cs].state = "ready" /\ m[cs].path = mem[cs].path /\ m[cs].result
    BY <1>10, <1>x DEF RecordReady
  <2>2. at' = "idle" \/ (mem' = m /\ at' = "sweep")
    BY <1>10 DEF RecordReady
  <2>3. Checkpointing /\ UNCHANGED ref /\ (at' = "sweep" => cs' = cs /\ why' = why)
    BY <1>10 DEF RecordReady
  <2>4. cs \in ChangeSets
    BY <1>10 DEF RecordReady
  <2> HIDE DEF m
  <2> QED
    BY <2>1, <2>2, <2>3, <2>4 DEF Checkpointing, Cleaning
<1>11. CASE Sweep
  <2>1. CASE at' = "idle"
    BY <2>1
  <2>2. CASE at' # "idle" /\ mem' = mem
    <3>1. Cleaning /\ UNCHANGED ref /\ cs' = cs /\ why' = why /\ cs \in ChangeSets
      BY <1>11, <2>2 DEF Sweep, Refused
    <3>2. \/ at' = "swept" /\ mem[cs].path
          \/ at' = "ask" /\ why \in {"discard", "apply"}
          \/ at' = "dropRef" /\ why \notin {"checkpoint", "discard", "apply"}
      BY <1>11, <2>2 DEF Sweep, Refused, AfterSweep
    <3> QED
      BY <1>11, <2>2, <3>1, <3>2 DEF Sweep, Cleaning, Shown, Sound
  <2>3. CASE at' # "idle" /\ mem' = [mem EXCEPT ![cs].path = FALSE]
    <3>1. Cleaning /\ at = "sweep" /\ UNCHANGED ref /\ cs' = cs /\ why' = why /\ cs \in ChangeSets
      BY <1>11, <2>3 DEF Sweep, Refused
    <3>2. \/ at' = "swept" /\ mem[cs].path
          \/ at' = "ask" /\ why \in {"discard", "apply"}
          \/ at' = "dropRef" /\ why \notin {"checkpoint", "discard", "apply"}
      BY <1>11, <2>3 DEF Sweep, Refused, AfterSweep
    <3>3. mem'[cs].state = mem[cs].state /\ mem'[cs].result = mem[cs].result
      BY <2>3, <3>1, <1>x
    <3> QED
      BY <3>1, <3>2, <3>3 DEF Cleaning, Shown, Sound
  <2> QED
    BY <1>11, <2>1, <2>2, <2>3 DEF Sweep, Refused
<1>12. CASE Swept
  <2>1. CASE at' = "idle"
    BY <2>1
  <2>2. CASE at' # "idle"
    <3>1. Cleaning /\ mem' = mem /\ UNCHANGED ref /\ cs' = cs /\ why' = why /\ cs \in ChangeSets
      BY <1>12, <2>2 DEF Swept
    <3>2. \/ at' = "ask" /\ why \in {"discard", "apply"}
          \/ at' = "dropRef" /\ why \notin {"checkpoint", "discard", "apply"}
      BY <1>12, <2>2 DEF Swept, AfterSweep
    <3> QED
      BY <1>12, <3>1, <3>2 DEF Swept, Cleaning, Shown, Sound
  <2> QED
    BY <2>1, <2>2
<1>13. CASE DropRef
  BY <1>13, <1>x DEF DropRef, Refused, Expected, Cleaning, Leaving
<1>14. CASE Forget
  BY <1>14, <1>x DEF Forget
<1>15. CASE Ask
  BY <1>15, <1>x DEF Ask, Shown
<1>16. CASE Merge
  BY <1>16, <1>x DEF Merge
<1>17. CASE RecordLanded
  BY <1>17, <1>x DEF RecordLanded, Cleaning
<1>18. CASE ChildReturns
  BY <1>18, <1>x DEF ChildReturns, Working, Checkpointing
<1>19. CASE Reject
  BY <1>19, <1>x DEF Reject
<1>20. CASE ApproveApply
  BY <1>20, <1>x DEF ApproveApply, StillApproved
<1>21. CASE ApproveDiscard
  BY <1>21, <1>x DEF ApproveDiscard, Cleaning
<1>22. CASE ChildEdits
  BY <1>22, <1>x DEF ChildEdits, Working
<1>23. CASE SwitchWorkspace
  <2>1. UNCHANGED <<at, cs, why, token, ref>> /\ at \in Free
    BY <1>23 DEF SwitchWorkspace
  <2>2. CASE at = "child"
    <3>1. active = cs /\ cs # NoOne /\ Working
      BY <2>2, NoOneAssumption DEF SlotInv, Holds
    <3> QED
      BY <1>23, <2>1, <2>2, <3>1 DEF SwitchWorkspace, Working
  <2>3. CASE at = "asked"
    <3>1. mem'[cs] \in {mem[cs], disk[cs]}
      BY <1>23 DEF SwitchWorkspace
    <3> QED
      BY <2>1, <2>3, <3>1 DEF Shown, Behind
  <2> QED
    BY <2>1, <2>2, <2>3
<1>24. CASE UserWorks
  BY <1>24, <1>x DEF UserWorks, Creating, Working, Checkpointing, Cleaning, Leaving, Shown
<1>25. ASSUME NEW d \in ChangeSets, Create(d) PROVE AtInv'
  <2>1. tree[d] = "absent" /\ ref[d] = "absent"
    BY <1>25 DEF Create, Books, Sound, Behind
  <2>2. /\ mem'[d].state = "creating" /\ mem'[d].path
    BY <1>25 DEF Create, Book
  <2> HIDE DEF AtInv
  <2>3. /\ at' = "add" /\ cs' = d /\ why' = "create" /\ UNCHANGED <<tree, ref>>
    BY <1>25 DEF Create
  <2> QED
    BY <2>1, <2>2, <2>3 DEF AtInv, Creating
<1>26. ASSUME NEW d \in ChangeSets, Apply(d) PROVE AtInv'
  BY <1>26 DEF Apply, Cleaning
<1>27. ASSUME NEW d \in ChangeSets, Discard(d) PROVE AtInv'
  <2>1. Sound(mem[d], d) /\ mem'[d] = mem[d] /\ UNCHANGED <<mem, tree, ref>>
    BY <1>27 DEF Discard, Books
  <2> QED
    BY <1>27, <2>1 DEF Discard, Sound, Cleaning, Checkpointing, Shown
<1>28. ASSUME NEW d \in ChangeSets, LateEdit(d) PROVE AtInv'
  BY <1>28 DEF LateEdit, Creating, Working, Checkpointing, Cleaning, Leaving, Shown
<1>29. CASE UNCHANGED vars
  BY <1>29 DEF vars, Creating, Working, Checkpointing, Cleaning, Leaving, Shown
<1> QED
  BY <1>1, <1>2, <1>3, <1>4, <1>5, <1>6, <1>7, <1>8, <1>9, <1>10, <1>11, <1>12, <1>13,
       <1>14, <1>15, <1>16, <1>17, <1>18, <1>19, <1>20, <1>21, <1>22, <1>23, <1>24,
       <1>25, <1>26, <1>27, <1>28, <1>29 DEF Next, Manager, Root

\* A step that neither touches the primary worktree nor creates or merges
\* keeps what is known of it.
LEMMA PrimaryKept ==
  ASSUME Primary, UNCHANGED <<user, base, home, became, moved>>, at' # "merge" \/ UNCHANGED <<at, cs>>
  PROVE  Primary'
BY DEF Primary, History, Results, Untouched, user

\* Every step keeps the shape of the history, and who merges has just looked.
LEMMA PrimaryStep == IInv /\ [Next]_vars => Primary'
<1> SUFFICES ASSUME IInv, [Next]_vars PROVE Primary'
  OBVIOUS
<1>0. /\ TypeOK /\ Primary /\ AtInv /\ Commits \subseteq Nat
      /\ \A c \in ChangeSets : base[c] = Unborn => mem[c] = NoRecord
  BY BoundsAssumption DEF IInv, Books, Behind, Commits
<1>t. /\ head \in Commits /\ made \in Commits /\ over \in [Commits -> SUBSET Commits]
      /\ base \in [ChangeSets -> {Unborn} \cup Commits]
      /\ became \in [ChangeSets -> {Unborn} \cup Commits] /\ Unborn \notin Commits
      /\ made \in Nat
  BY <1>0 DEF TypeOK, Commits, Unborn
<1> USE DEF book, slot, git, past
<1>1. CASE Crash
  BY <1>0, <1>1 DEF Crash, Rest, user, Primary, History, Results
<1>2. CASE Add
  BY <1>0, <1>2, PrimaryKept DEF Add, Rest, Go, Leave
<1>3. CASE KeepFailedAdd
  BY <1>0, <1>3, PrimaryKept DEF KeepFailedAdd, Rest, Go, Leave
<1>4. CASE UndoAdd
  BY <1>0, <1>4, PrimaryKept DEF UndoAdd, Rest, Go, Leave
<1>5. CASE Activate
  BY <1>0, <1>5, PrimaryKept DEF Activate, Rest, Go, Leave
<1>6. CASE Stage
  BY <1>0, <1>6, PrimaryKept DEF Stage, Rest, Go, Leave
<1>7. CASE CommitEdits
  BY <1>0, <1>7, PrimaryKept DEF CommitEdits, Rest, Go, Leave
<1>8. CASE CommitNothing
  BY <1>0, <1>8, PrimaryKept DEF CommitNothing, Rest, Go, Leave
<1>9. CASE CheckpointFails
  BY <1>0, <1>9, PrimaryKept DEF CheckpointFails, Rest, Go, Leave
<1>10. CASE RecordReady
  BY <1>0, <1>10, PrimaryKept DEF RecordReady, Rest, Go, Leave
<1>11. CASE Sweep
  BY <1>0, <1>11, PrimaryKept DEF Sweep, Refused, AfterSweep, Rest, Go, Leave
<1>12. CASE Swept
  BY <1>0, <1>12, PrimaryKept DEF Swept, AfterSweep, Rest, Go, Leave
<1>13. CASE DropRef
  BY <1>0, <1>13, PrimaryKept DEF DropRef, Refused, Rest, Go, Leave
<1>14. CASE Forget
  BY <1>0, <1>14, PrimaryKept DEF Forget, Rest, Go, Leave
<1>15. CASE Ask
  BY <1>0, <1>15, PrimaryKept DEF Ask, Rest, Go, Leave
<1>16. CASE Merge
  <2>1. CASE at' # "landed"
    BY <1>0, <1>16, <2>1 DEF Merge, Rest, Go, Primary, History, Results
  <2>2. CASE at' = "landed"
    <3> DEFINE r == ResultCommit
    <3>1. /\ r \in Commits /\ head' = r /\ at' # "merge"
          /\ became' = [became EXCEPT ![cs] = r] /\ UNCHANGED base
          /\ over' = [over EXCEPT ![r] = Holding(r)]
          /\ made' = IF r > made THEN r ELSE made
      BY <1>16, <2>2 DEF Merge, Rest
    <3>2. cs \in ChangeSets /\ base[cs] \in Commits /\ base[cs] <= made
      BY <1>0, <1>t, <1>16 DEF Merge, AtInv, Primary, Results
    <3>3. CASE became[cs] # Unborn
      <4>1. r = became[cs] /\ r <= made /\ Holding(r) = over[r]
        BY <1>0, <3>2, <3>3 DEF ResultCommit, Holding, Primary, Results
      <4>2. over' = over /\ made' = made /\ became' = became
        BY <1>t, <3>1, <4>1
      <4> HIDE DEF r
      <4>3. head' = r /\ head' \in Commits
        BY <3>1
      <4>4. head' <= made'
        BY <4>1, <4>2, <4>3
      <4> QED
        BY <1>0, <3>1, <4>2, <4>3 DEF Primary, History, Results
    <3>4. CASE became[cs] = Unborn
      <4>1. r = made + 1 /\ made' = r /\ r \in Nat /\ over[r] = {}
        BY <1>0, <1>t, <3>1, <3>4 DEF ResultCommit, Primary, History
      <4>2. /\ over'[r] = over[base[cs]] \cup {r}
            /\ \A n \in Commits : n # r => over'[n] = over[n]
        BY <1>t, <3>1 DEF Holding
      <4>3. \A m \in over[base[cs]] : m \in Commits /\ m <= made /\ over[m] \subseteq over[base[cs]]
        BY <1>0, <1>t, <3>2 DEF Primary, History
      <4> HIDE DEF r
      <4>4. History'
        <5>1. head' <= made'
          BY <3>1, <4>1
        <5>2. ASSUME NEW n \in Commits
              PROVE  IF n <= made' THEN n \in over'[n] /\ \A m \in over'[n] : m <= made'
                                   ELSE over'[n] = {}
          BY <1>0, <1>t, <3>1, <4>1, <4>2, <4>3, <5>2 DEF Primary, History
        <5>3. ASSUME NEW n \in Commits, NEW m \in Commits, m \in over'[n]
              PROVE  over'[m] \subseteq over'[n]
          BY <1>0, <1>t, <3>1, <4>1, <4>2, <4>3, <5>3 DEF Primary, History
        <5> QED
          BY <5>1, <5>2, <5>3 DEF History
      <4>5. Results'
        <5> SUFFICES ASSUME NEW c \in ChangeSets
                     PROVE  /\ base[c] # Unborn => base[c] <= made'
                            /\ became'[c] # Unborn =>
                                 /\ base[c] # Unborn /\ became'[c] <= made'
                                 /\ over'[became'[c]] = over'[base[c]] \cup {became'[c]}
          BY <3>1 DEF Results
        <5>1. base[c] # Unborn => base[c] <= made
          BY <1>0 DEF Primary, Results
        <5>4. \A n \in Commits : n <= made => n # r /\ n <= made'
          BY <1>0, <1>t, <4>1
        <5>2. CASE c = cs
          <6>1. became'[c] = r /\ over'[base[c]] = over[base[c]]
            BY <1>t, <3>1, <3>2, <4>2, <5>2, <5>4
          <6>2. over'[became'[c]] = over'[base[c]] \cup {became'[c]}
            BY <4>2, <5>2, <6>1
          <6>3. base[c] # Unborn /\ base[c] <= made'
            BY <1>t, <3>2, <5>2, <5>4
          <6>4. became'[c] <= made'
            BY <4>1, <6>1
          <6> QED
            BY <6>2, <6>3, <6>4
        <5>3. CASE c # cs
          <6>1. became'[c] = became[c]
            BY <1>t, <3>1, <5>3
          <6>2. /\ base[c] # Unborn => base[c] \in Commits /\ base[c] <= made
                /\ became[c] # Unborn => became[c] \in Commits /\ became[c] <= made
                /\ became[c] # Unborn =>
                     base[c] # Unborn /\ over[became[c]] = over[base[c]] \cup {became[c]}
            BY <1>0, <1>t DEF Primary, Results
          <6> QED
            BY <4>2, <5>4, <6>1, <6>2
        <5> QED
          BY <5>2, <5>3
      <4> QED
        BY <3>1, <4>4, <4>5 DEF Primary
    <3> QED
      BY <3>3, <3>4
  <2> QED
    BY <2>1, <2>2
<1>17. CASE RecordLanded
  BY <1>0, <1>17, PrimaryKept DEF RecordLanded, Rest, Go, Leave
<1>18. CASE ChildReturns
  BY <1>0, <1>18, PrimaryKept DEF ChildReturns, Rest, Go, Leave
<1>19. CASE Reject
  BY <1>0, <1>19, PrimaryKept DEF Reject, Rest, Go, Leave
<1>20. CASE ApproveApply
  BY <1>0, <1>20 DEF ApproveApply, StillApproved, Untouched, Go, Rest, Primary, History,
     Results, user
<1>21. CASE ApproveDiscard
  BY <1>0, <1>21, PrimaryKept DEF ApproveDiscard, Rest, Go, Leave
<1>22. CASE ChildEdits
  BY <1>0, <1>22, PrimaryKept DEF ChildEdits
<1>23. CASE SwitchWorkspace
  BY <1>0, <1>23, PrimaryKept DEF SwitchWorkspace
<1>24. CASE UserWorks
  <2>1. UNCHANGED <<at, base, home, became>> /\ moved' = (at = "merge")
    BY <1>24 DEF UserWorks
  <2>2. CASE UNCHANGED <<made, over>>
    <3>1. head' <= made
      BY <1>0, <1>24, <2>2, <1>t DEF UserWorks, Primary, History
    <3> QED
      BY <1>0, <2>1, <2>2, <3>1 DEF Primary, History, Results
  <2>3. CASE ~UNCHANGED <<made, over>>
    <3>1. /\ made + 1 \in Commits /\ head' = made + 1 /\ made' = made + 1
          /\ over' = [over EXCEPT ![made + 1] = over[head] \cup {made + 1}]
      BY <1>24, <2>3, <1>t, BoundsAssumption DEF UserWorks, Commits
    <3>2. /\ over'[made + 1] = over[head] \cup {made + 1}
          /\ \A n \in Commits : n # made + 1 => over'[n] = over[n]
      BY <1>t, <3>1
    <3>3. \A m \in over[head] : m \in Commits /\ m <= made /\ over[m] \subseteq over[head]
      BY <1>0, <1>t DEF Primary, History
    <3>4. ASSUME NEW n \in Commits
          PROVE  IF n <= made' THEN n \in over'[n] /\ \A m \in over'[n] : m <= made'
                               ELSE over'[n] = {}
      BY <1>0, <1>t, <3>1, <3>2, <3>3, <3>4 DEF Primary, History
    <3>5. ASSUME NEW n \in Commits, NEW m \in Commits, m \in over'[n]
          PROVE  over'[m] \subseteq over'[n]
      BY <1>0, <1>t, <3>1, <3>2, <3>3, <3>5 DEF Primary, History
    <3>6. Results'
      <4> SUFFICES ASSUME NEW c \in ChangeSets
                   PROVE  /\ base[c] # Unborn => base[c] <= made'
                          /\ became[c] # Unborn =>
                               /\ base[c] # Unborn /\ became[c] <= made'
                               /\ over'[became[c]] = over'[base[c]] \cup {became[c]}
        BY <2>1 DEF Results
      <4>1. /\ base[c] # Unborn => base[c] \in Commits /\ base[c] <= made
            /\ became[c] # Unborn => became[c] \in Commits /\ became[c] <= made
            /\ became[c] # Unborn =>
                 base[c] # Unborn /\ over[became[c]] = over[base[c]] \cup {became[c]}
        BY <1>0, <1>t DEF Primary, Results
      <4>2. \A n \in Commits : n <= made => n # made + 1 /\ n <= made'
        BY <1>0, <1>t, <3>1
      <4> QED
        BY <3>2, <4>1, <4>2
    <3>7. History'
      BY <1>t, <3>1, <3>4, <3>5 DEF History
    <3> QED
      BY <2>1, <3>6, <3>7 DEF Primary
  <2> QED
    BY <2>2, <2>3
<1>25. ASSUME NEW d \in ChangeSets, Create(d) PROVE Primary'
  BY <1>0, <1>t, <1>25 DEF Create, user, Primary, History, Results
<1>26. ASSUME NEW d \in ChangeSets, Apply(d) PROVE Primary'
  BY <1>0, <1>26, PrimaryKept DEF Apply
<1>27. ASSUME NEW d \in ChangeSets, Discard(d) PROVE Primary'
  BY <1>0, <1>27, PrimaryKept DEF Discard
<1>28. ASSUME NEW d \in ChangeSets, LateEdit(d) PROVE Primary'
  BY <1>0, <1>28, PrimaryKept DEF LateEdit
<1>29. CASE UNCHANGED vars
  BY <1>0, <1>29, PrimaryKept DEF vars
<1> QED
  BY <1>1, <1>2, <1>3, <1>4, <1>5, <1>6, <1>7, <1>8, <1>9, <1>10, <1>11, <1>12, <1>13,
       <1>14, <1>15, <1>16, <1>17, <1>18, <1>19, <1>20, <1>21, <1>22, <1>23, <1>24,
       <1>25, <1>26, <1>27, <1>28, <1>29 DEF Next, Manager, Root

\* The invariant holds at the start, is kept by every step, and so always holds.
LEMMA InitInv == Init => IInv
<1> SUFFICES ASSUME Init PROVE IInv
  OBVIOUS
<1>1. NoRecord \in Records
  BY DEF NoRecord, Records
<1>2. TypeOK
  <2>1. mem \in [ChangeSets -> Records] /\ disk \in [ChangeSets -> Records] /\ token \in Records
    BY <1>1 DEF Init
  <2>2. /\ base \in [ChangeSets -> {Unborn} \cup Commits] /\ became = base
        /\ head \in Commits /\ made \in Commits /\ over \in [Commits -> SUBSET Commits]
    BY BoundsAssumption DEF Init, Commits
  <2>3. /\ tree \in [ChangeSets -> {"absent", "clean", "edited"}]
        /\ ref \in [ChangeSets -> {"absent", "base", "ahead"}]
    BY DEF Init
  <2> QED
    BY <2>1, <2>2, <2>3 DEF Init, TypeOK, Steps, Free, Reasons
<1>3. Books
  BY DEF Init, Books, Sound, Behind, NoRecord
<1>4. SlotInv /\ AtInv
  BY DEF Init, SlotInv, AtInv, Holds
<1>5. Primary
  BY DEF Init, Primary, History, Results, Commits
<1> QED
  BY <1>2, <1>3, <1>4, <1>5 DEF IInv

LEMMA Inductive == IInv /\ [Next]_vars => IInv'
<1>1. IInv => TypeOK
  BY DEF IInv
<1> QED
  BY <1>1, TypeStep, BooksStep, SlotStep, AtStep, PrimaryStep DEF IInv

LEMMA Invariance == Spec => []IInv
  BY InitInv, Inductive, PTL DEF Spec

(* Every variable has its type in every reachable state: the manager's     *)
(* writes leave records, steps and reasons of the kinds the code knows.    *)
THEOREM TypeCorrect == Spec => []TypeOK
<1>1. IInv => TypeOK
  BY DEF IInv
<1> QED
  BY Invariance, <1>1, PTL

(* The file is true after any restart, whichever save failed: what Git     *)
(* holds is on record, an offered result has its commit, an applied one    *)
(* has landed, and the slot is free when nobody works.                     *)
THEOREM RecordsAreTrue == Spec => []RecordsTrue
<1>1. IInv => RecordsTrue
  <2> SUFFICES ASSUME IInv PROVE RecordsTrue
    OBVIOUS
  <2>1. Journaled
    BY DEF IInv, Books, Sound, Journaled
  <2>2. SlotFree
    BY DEF IInv, SlotInv, Holds, SlotFree
  <2> QED
    BY <2>1, <2>2 DEF IInv, Books, Sound, RecordsTrue
<1> QED
  BY Invariance, <1>1, PTL

\* No step lets go of edits.
LEMMA KeepsStep ==
  IInv /\ [Next]_vars => \A c \in ChangeSets : KeepsWork(c)
<1> SUFFICES ASSUME IInv, [Next]_vars, NEW c \in ChangeSets PROVE KeepsWork(c)
  OBVIOUS
<1>0. /\ tree \in [ChangeSets -> {"absent", "clean", "edited"}]
      /\ ref \in [ChangeSets -> {"absent", "base", "ahead"}]
      /\ AtInv /\ Sound(mem[c], c)
  BY DEF IInv, TypeOK, Books
<1> USE <1>0 DEF KeepsWork, AtInv, book, slot, git, user, past, Go, Rest
<1>1. CASE Crash
  BY <1>1 DEF Crash
<1>2. CASE Add
  BY <1>2 DEF Add, Creating
<1>3. CASE KeepFailedAdd
  BY <1>3 DEF KeepFailedAdd
<1>4. CASE UndoAdd
  BY <1>4 DEF UndoAdd, Creating
<1>5. CASE Activate
  BY <1>5 DEF Activate
<1>6. CASE Stage
  BY <1>6 DEF Stage
<1>7. CASE CommitEdits
  BY <1>7 DEF CommitEdits
<1>8. CASE CommitNothing
  BY <1>8 DEF CommitNothing
<1>9. CASE CheckpointFails
  BY <1>9 DEF CheckpointFails
<1>10. CASE RecordReady
  BY <1>10 DEF RecordReady
<1>11. CASE Sweep
  BY <1>11 DEF Sweep, Removable
<1>12. CASE Swept
  BY <1>12 DEF Swept
<1>13. CASE DropRef
  BY <1>13 DEF DropRef, Cleaning, Sound
<1>14. CASE Forget
  BY <1>14 DEF Forget
<1>15. CASE Ask
  BY <1>15 DEF Ask
<1>16. CASE Merge
  BY <1>16 DEF Merge
<1>17. CASE RecordLanded
  BY <1>17 DEF RecordLanded
<1>18. CASE ChildReturns
  BY <1>18 DEF ChildReturns
<1>19. CASE Reject
  BY <1>19 DEF Reject
<1>20. CASE ApproveApply
  BY <1>20 DEF ApproveApply
<1>21. CASE ApproveDiscard
  BY <1>21 DEF ApproveDiscard
<1>22. CASE ChildEdits
  BY <1>22 DEF ChildEdits
<1>23. CASE SwitchWorkspace
  BY <1>23 DEF SwitchWorkspace, Free
<1>24. CASE UserWorks
  BY <1>24 DEF UserWorks
<1>25. ASSUME NEW d \in ChangeSets, Create(d) PROVE KeepsWork(c)
  BY <1>25 DEF Create
<1>26. ASSUME NEW d \in ChangeSets, Apply(d) PROVE KeepsWork(c)
  BY <1>26 DEF Apply
<1>27. ASSUME NEW d \in ChangeSets, Discard(d) PROVE KeepsWork(c)
  BY <1>27 DEF Discard
<1>28. ASSUME NEW d \in ChangeSets, LateEdit(d) PROVE KeepsWork(c)
  BY <1>28 DEF LateEdit
<1>29. CASE UNCHANGED vars
  BY <1>29 DEF vars
<1> QED
  BY <1>1, <1>2, <1>3, <1>4, <1>5, <1>6, <1>7, <1>8, <1>9, <1>10, <1>11, <1>12, <1>13,
       <1>14, <1>15, <1>16, <1>17, <1>18, <1>19, <1>20, <1>21, <1>22, <1>23, <1>24,
       <1>25, <1>26, <1>27, <1>28, <1>29 DEF Next, Manager, Root

(* Edits are never lost, whatever fails: they leave a worktree only into a *)
(* commit, and a commit goes only when landed, given up by a person, or    *)
(* back into its worktree.                                                 *)
THEOREM WorkIsKept == Spec => WorkKept
<1>1. IInv /\ [Next]_vars => [\A c \in ChangeSets : KeepsWork(c)]_vars
  BY KeepsStep
<1> QED
  BY Invariance, <1>1, PTL DEF Spec, WorkKept

\* The two steps that an approval leads to do what was shown.
LEMMA ApprovedStep == IInv /\ [Next]_vars => LandsInPlace /\ GivenUpAsShown
<1> DEFINE A == LandsInPlace /\ GivenUpAsShown
<1> SUFFICES ASSUME IInv, [Next]_vars PROVE A
  OBVIOUS
<1>0. AtInv /\ Primary /\ TypeOK
  BY DEF IInv
<1>p. at # "merge" /\ UNCHANGED dropped => A
  BY DEF LandsInPlace, GivenUpAsShown
<1> HIDE DEF A
<1> USE <1>p DEF book, slot, git, user, past
<1>1. CASE Crash
  BY <1>1 DEF Crash, Rest, A, LandsInPlace, GivenUpAsShown
<1>2. CASE Add
  BY <1>2 DEF Add
<1>3. CASE KeepFailedAdd
  BY <1>3 DEF KeepFailedAdd
<1>4. CASE UndoAdd
  BY <1>4 DEF UndoAdd
<1>5. CASE Activate
  BY <1>5 DEF Activate
<1>6. CASE Stage
  BY <1>6 DEF Stage
<1>7. CASE CommitEdits
  BY <1>7 DEF CommitEdits
<1>8. CASE CommitNothing
  BY <1>8 DEF CommitNothing
<1>9. CASE CheckpointFails
  BY <1>9 DEF CheckpointFails
<1>10. CASE RecordReady
  BY <1>10 DEF RecordReady
<1>11. CASE Sweep
  BY <1>11 DEF Sweep
<1>12. CASE Swept
  BY <1>12 DEF Swept
<1>13. CASE DropRef
  BY <1>13 DEF DropRef
<1>14. CASE Forget
  BY <1>14 DEF Forget
<1>15. CASE Ask
  BY <1>15 DEF Ask
<1>16. CASE Merge
  <2>1. GivenUpAsShown
    BY <1>16 DEF Merge, GivenUpAsShown
  <2>2. ASSUME at' = "landed" PROVE LandsInPlace
    <3>1. /\ FastForward /\ ResultCommit \in Commits /\ head' = ResultCommit
          /\ over' = [over EXCEPT ![ResultCommit] = Holding(ResultCommit)]
      BY <1>16, <2>2 DEF Merge, Rest
    <3>2. over'[head'] = Holding(ResultCommit)
      BY <1>0, <3>1 DEF TypeOK
    <3>3. cs \in ChangeSets /\ head \in Commits /\ base[cs] \in Commits
      BY <1>0, <1>16 DEF Merge, AtInv, TypeOK, IInv, Books, Behind
    <3>4. over[head] \subseteq Holding(ResultCommit)
      <4>1. CASE head \in over[base[cs]]
        BY <1>0, <3>3, <4>1 DEF Primary, History, Holding
      <4>2. CASE head = ResultCommit
        <5>1. became[cs] # Unborn
          <6>1. made \in Nat /\ head <= made
            BY <1>0, BoundsAssumption DEF TypeOK, Commits, Primary, History
          <6>2. head # made + 1
            BY <6>1
          <6> QED
            BY <4>2, <6>2 DEF ResultCommit
        <5> QED
          BY <1>0, <3>3, <4>2, <5>1 DEF Primary, Results, Holding, ResultCommit
      <4> QED
        BY <3>1, <4>1, <4>2 DEF FastForward, Holding
    <3>5. Untouched \/ moved
      BY <1>0, <1>16 DEF Merge, Primary
    <3> QED
      BY <3>2, <3>4, <3>5 DEF LandsInPlace
  <2>3. ASSUME at' # "landed" PROVE LandsInPlace
    BY <2>3 DEF LandsInPlace
  <2> QED
    BY <2>1, <2>2, <2>3 DEF A
<1>17. CASE RecordLanded
  BY <1>17 DEF RecordLanded
<1>18. CASE ChildReturns
  BY <1>18 DEF ChildReturns
<1>19. CASE Reject
  BY <1>19 DEF Reject
<1>20. CASE ApproveApply
  BY <1>20 DEF ApproveApply
<1>21. CASE ApproveDiscard
  BY <1>0, <1>21 DEF ApproveDiscard, AtInv, Shown, A, LandsInPlace, GivenUpAsShown
<1>22. CASE ChildEdits
  BY <1>22 DEF ChildEdits
<1>23. CASE SwitchWorkspace
  BY <1>23 DEF SwitchWorkspace, Free
<1>24. CASE UserWorks
  BY <1>24 DEF UserWorks, A, LandsInPlace, GivenUpAsShown
<1>25. ASSUME NEW d \in ChangeSets, Create(d) PROVE A
  BY <1>25 DEF Create
<1>26. ASSUME NEW d \in ChangeSets, Apply(d) PROVE A
  BY <1>26 DEF Apply
<1>27. ASSUME NEW d \in ChangeSets, Discard(d) PROVE A
  BY <1>27 DEF Discard
<1>28. ASSUME NEW d \in ChangeSets, LateEdit(d) PROVE A
  BY <1>28 DEF LateEdit, A, LandsInPlace, GivenUpAsShown
<1>29. CASE UNCHANGED vars
  BY <1>29 DEF vars, A, LandsInPlace, GivenUpAsShown
<1> QED
  BY <1>1, <1>2, <1>3, <1>4, <1>5, <1>6, <1>7, <1>8, <1>9, <1>10, <1>11, <1>12, <1>13,
       <1>14, <1>15, <1>16, <1>17, <1>18, <1>19, <1>20, <1>21, <1>22, <1>23, <1>24,
       <1>25, <1>26, <1>27, <1>28, <1>29 DEF Next, Manager, Root, A

(* A result lands where it was made, or where the user went after the     *)
(* last check, and no commit the checkout held is lost to it; a commit is  *)
(* given up only by a person who was shown it, however many steps lie      *)
(* between the question and the deed.                                      *)
THEOREM ApprovedOnly == Spec => OnlyAsApproved
<1>1. IInv /\ [Next]_vars => [LandsInPlace /\ GivenUpAsShown]_vars
  BY ApprovedStep
<1> QED
  BY Invariance, <1>1, PTL DEF Spec, OnlyAsApproved
=============================================================================
