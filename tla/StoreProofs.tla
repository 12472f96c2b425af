----------------------------- MODULE StoreProofs -----------------------------
(***************************************************************************)
(* Proofs about what Aura keeps in files: conversations (AutoSave), and    *)
(* Agents and Workflows (Authoring).                                       *)
(*                                                                         *)
(* Of AutoSave: types; that a conversation file holds its own conversation *)
(* as long as none is opened while a save is on its way; and that finished *)
(* turns are kept, in one file per conversation.  OwnFile alone is not     *)
(* inductive: a write puts what the thread copied where the thread was told *)
(* to.  What has to be known is that, of the current generation, the path, *)
(* the threads and the notices all belong to the conversation on the       *)
(* screen, and that a thread's path belongs to the conversation it copied, *)
(* of whatever generation it is.  KInv adds what TurnsKept needs: where    *)
(* each finished turn is while saves are on their way, and which names are *)
(* in use.                                                                 *)
(*                                                                         *)
(* Of Authoring: types; that what was reported as kept is there            *)
(* (KeptIsThere), that grants are honoured (GrantsHonoured), and that the  *)
(* file of a Workflow moves by one edit at a time (OneEditAtATime).        *)
(* KeepInv says how far each thread's job is and what the stores have to   *)
(* hold by then (Progress), that its preflight spoke for what a person     *)
(* granted (Wishes), and that no Agent is kept by one thread and deleted by *)
(* the other (Departing): a build's Agents are new, and a question stays   *)
(* with those that were there when it opened.  AuthInv adds the history,   *)
(* a chain of edits with its cursor on the file (Edits), and that an update *)
(* is planned one edit from the graph it was made from (Plans).            *)
(***************************************************************************)
EXTENDS AutoSave, Authoring, TLAPS

Assumptions ==
  FirstAssumption /\ SlugAssumption /\ BoundAssumption /\ NoPathAssumption /\ ContentAssumption

\* A turn starts only below the bound.
Bounded == running => made < MaxTurns

\* A thread that writes has a path.
Named == \A s \in saves : s.pc = "write" => s.file # NoPath

\* Nothing on its way is of a generation to come.
Past ==
  /\ \A s \in saves : s.at <= generation
  /\ \A i \in DOMAIN notices : notices[i].at <= generation

\* The current path is one the live conversation took.
OwnPath == path # NoPath => live \in takers[path]

\* A thread writes a conversation that took its path, and a thread of this
\* generation writes the live one.
OwnSaves ==
  \A s \in saves :
    /\ s.file # NoPath => s.conv \in takers[s.file]
    /\ s.at = generation => s.conv = live

\* A notice that will be heeded names a file the live conversation took.
OwnNotices ==
  \A i \in DOMAIN notices : notices[i].at = generation => live \in takers[notices[i].file]

OwnDisk == \A p \in Paths : Intact(p) => disk[p].conv \in takers[p]

Own == ~raced => OwnPath /\ OwnSaves /\ OwnNotices /\ OwnDisk

IInv == TypeOK /\ Bounded /\ Named /\ Past /\ Own

-----------------------------------------------------------------------------
(* Types.                                                                   *)

\* The name of the file an earlier run left.
LEMMA FirstPath == [slug |-> Slug[First], second |-> 0] \in Paths
  BY FirstAssumption, SlugAssumption, BoundAssumption DEF Paths

LEMMA InitTyped == Init => TypeOK /\ Bounded
<1> SUFFICES ASSUME Init PROVE TypeOK /\ Bounded
  OBVIOUS
<1> USE FirstAssumption, SlugAssumption, BoundAssumption, NoPathAssumption, ContentAssumption
<1>1. PICK p \in Paths :
        /\ path = p /\ newest = p
        /\ disk = [q \in Paths |-> IF q = p THEN [conv |-> First, turns |-> {0}] ELSE Absent]
        /\ takers = [q \in Paths |-> IF q = p THEN {First} ELSE {}]
  BY FirstPath DEF Init
<1>2. 0 \in Turns /\ {0} \subseteq Turns
  BY DEF Turns
<1>3. [conv |-> First, turns |-> {0}] \in Content
  BY <1>2 DEF Content
<1>4. disk \in [Paths -> Content \cup {Absent, Torn}]
  BY <1>1, <1>3
<1>5. notices \in Seq(Notice) /\ saves \subseteq Save
  BY DEF Init
<1>6. Bounded
  BY DEF Init, Bounded
<1>7. now \in 0 .. MaxSecond /\ generation \in Nat
  BY DEF Init
<1>8. path \in Paths \cup {NoPath} /\ newest \in Paths
  BY <1>1
<1>9. live \in Conversations /\ turns \subseteq Turns /\ made \in Turns /\ excused \subseteq Turns
  BY <1>2 DEF Init
<1>10. /\ running \in BOOLEAN /\ settling \in BOOLEAN
       /\ final \in {"none", "empty", "text"} /\ pending \in BOOLEAN /\ choosing \in BOOLEAN
       /\ raced \in BOOLEAN /\ split \in BOOLEAN
       /\ asked \in BOOLEAN /\ stray \in BOOLEAN
  BY DEF Init
<1> QED
  BY <1>1, <1>4, <1>5, <1>6, <1>7, <1>8, <1>9, <1>10 DEF TypeOK

LEMMA SaveTyped ==
  ASSUME NEW s \in Save
  PROVE  /\ s.conv \in Conversations /\ s.turns \subseteq Turns /\ s.at \in Nat
         /\ s.file \in Paths \cup {NoPath}
         /\ [s EXCEPT !.pc = "write"] \in Save
         /\ \A p \in Paths : [s EXCEPT !.file = p] \in Save
  BY DEF Save

LEMMA NewPathTyped ==
  ASSUME TypeOK, NEW s \in Save PROVE NewPath(s) \in Paths
  BY SaveTyped, SlugAssumption DEF TypeOK, NewPath, Paths

LEMMA OverwrittenTyped ==
  ASSUME TypeOK, NEW s PROVE Overwritten(s) \subseteq Turns
  BY DEF Overwritten, Intact, Content

LEMMA StartTyped == TypeOK /\ Start => made < MaxTurns /\ running' \in BOOLEAN
                                       /\ final' \in {"none", "empty", "text"}
  BY DEF TypeOK, Start

LEMMA NextTurn == TypeOK /\ Bounded /\ running => made + 1 \in Turns
  BY BoundAssumption DEF TypeOK, Bounded, Turns

LEMMA FinishedTyped ==
  ASSUME TypeOK, Bounded, NEW f \in {"none", "empty", "text"}, Finished(f)
  PROVE  /\ made' \in Turns /\ turns' \subseteq Turns /\ running' = FALSE
         /\ final' \in {"none", "empty", "text"} /\ settling' \in BOOLEAN
<1>1. made + 1 \in Turns
  BY BoundAssumption DEF TypeOK, Bounded, Finished, Turns
<1> QED
  BY <1>1 DEF TypeOK, Finished

LEMMA NewConversationTyped ==
  ASSUME TypeOK, NewConversation(Conversations)
  PROVE  /\ live' \in Conversations /\ turns' \subseteq Turns
         /\ path' \in Paths \cup {NoPath} /\ generation' \in Nat
  BY DEF TypeOK, NewConversation

\* A handoff starts one of the conversations.
LEMMA HandoffIsNew == NewConversation(HandedOff) => NewConversation(Conversations)
  BY DEF NewConversation, HandedOff

LEMMA AutoSavedTyped == TypeOK => AutoSaved \subseteq Save
  BY DEF TypeOK, AutoSaved, Save

LEMMA TypeStep == TypeOK /\ Bounded /\ Named /\ [Next]_vars => TypeOK' /\ Bounded'
<1> SUFFICES ASSUME TypeOK, Bounded, Named, [Next]_vars PROVE TypeOK' /\ Bounded'
  OBVIOUS
<1>1. CASE Send
  BY <1>1, StartTyped DEF Send, Start, TypeOK, Bounded
<1>2. CASE RequestHandoff
  <2>1. CASE Start /\ asked' = TRUE /\ UNCHANGED stray
    BY <1>2, <2>1, StartTyped DEF RequestHandoff, Start, TypeOK, Bounded
  <2>2. CASE stray' = TRUE /\ UNCHANGED <<running, final, asked>>
    BY <1>2, <2>2 DEF RequestHandoff, TypeOK, Bounded
  <2> QED
    BY <1>2, <2>1, <2>2 DEF RequestHandoff
<1>3. CASE TurnEnds
  <2>1. PICK f \in {"none", "empty", "text"} :
          Finished(f) /\ stray' = (stray \/ (f = "none" /\ pending)) /\ UNCHANGED pending
    BY <1>3 DEF TurnEnds
  <2> QED
    BY <2>1, FinishedTyped DEF Finished, TypeOK, Bounded
<1>4. CASE TurnFails
  <2>1. Finished("none") /\ pending' = FALSE /\ UNCHANGED stray
    BY <1>4 DEF TurnFails, ClearOnError
  <2> QED
    BY <2>1, FinishedTyped DEF Finished, TypeOK, Bounded
<1>5. CASE Settle
  <2>1. /\ live' \in Conversations /\ turns' \subseteq Turns
        /\ path' \in Paths \cup {NoPath} /\ generation' \in Nat
    BY <1>5, NewConversationTyped, HandoffIsNew DEF Settle, TypeOK
  <2>2. saves' \subseteq Save
    BY <1>5, AutoSavedTyped DEF Settle, TypeOK
  <2>3. pending' \in BOOLEAN /\ split' \in BOOLEAN /\ excused' \subseteq Turns
    BY <1>5 DEF Settle, TypeOK
  <2> QED
    BY <1>5, <2>1, <2>2, <2>3 DEF Settle, TypeOK, Bounded
<1>6. CASE New
  <2>1. excused' \subseteq Turns /\ stray' \in BOOLEAN
    BY <1>6, NextTurn DEF New, Replaced, Unsettled, TypeOK
  <2> QED
    BY <1>6, <2>1, NewConversationTyped DEF New, Replaced, TypeOK, Bounded
<1>7. ASSUME NEW p \in Paths, Open(p) \/ Choose(p) PROVE TypeOK' /\ Bounded'
  <2>0. ApplyLoaded(p) /\ choosing' \in BOOLEAN
    BY <1>7 DEF Open, Choose, TypeOK
  <2>1. excused' \subseteq Turns /\ stray' \in BOOLEAN /\ raced' \in BOOLEAN
    BY <2>0, NextTurn DEF ApplyLoaded, Replaced, Unsettled, TypeOK
  <2>2. live' \in Conversations /\ turns' \subseteq Turns
    BY <2>0 DEF ApplyLoaded, Intact, Content
  <2> QED
    BY <2>0, <2>1, <2>2 DEF ApplyLoaded, Replaced, TypeOK, Bounded
<1>8. ASSUME NEW s \in saves, Name(s) PROVE TypeOK' /\ Bounded'
  <2>1. NewPath(s) \in Paths /\ s.conv \in Conversations
    BY <1>8, SaveTyped, NewPathTyped DEF TypeOK
  <2>2. saves' \subseteq Save
    BY <1>8, <2>1, SaveTyped DEF Name, TypeOK
  <2>3. takers' \in [Paths -> SUBSET Conversations]
    BY <1>8, <2>1 DEF Name, TypeOK
  <2> QED
    BY <1>8, <2>2, <2>3 DEF Name, TypeOK, Bounded, gui
<1>9. ASSUME NEW s \in saves, Truncate(s) PROVE TypeOK' /\ Bounded'
  <2>1. s.file \in Paths /\ saves' \subseteq Save
    BY <1>9, SaveTyped DEF Truncate, TypeOK
  <2>2. disk' \in [Paths -> Content \cup {Absent, Torn}]
    BY <1>9, <2>1 DEF Truncate, TypeOK
  <2>3. excused' \subseteq Turns
    BY <1>9, OverwrittenTyped DEF Truncate, TypeOK
  <2> QED
    BY <1>9, <2>1, <2>2, <2>3 DEF Truncate, TypeOK, Bounded, gui
<1>10. ASSUME NEW s \in saves, Write(s) PROVE TypeOK' /\ Bounded'
  <2>1. s \in Save /\ s.file \in Paths
    BY <1>10, SaveTyped DEF Write, TypeOK, Named
  <2>2. PICK text \in {[conv |-> s.conv, turns |-> s.turns], Torn} :
          /\ disk' = [disk EXCEPT ![s.file] = text]
          /\ excused' \subseteq Overwritten(s) \cup excused \cup s.turns
    BY <1>10 DEF Write
  <2>3. text \in Content \cup {Absent, Torn}
    <3>1. s.conv \in Conversations /\ s.turns \subseteq Turns
      BY <2>1, SaveTyped
    <3>2. [conv |-> s.conv, turns |-> s.turns] \in Content
      BY <3>1 DEF Content
    <3> QED
      BY <2>2, <3>2
  <2>4. disk' \in [Paths -> Content \cup {Absent, Torn}] /\ excused' \subseteq Turns
    <3>1. disk' \in [Paths -> Content \cup {Absent, Torn}]
      BY <2>2, <2>3 DEF TypeOK
    <3>2. excused' \subseteq Turns
      BY <2>1, <2>2, SaveTyped, OverwrittenTyped DEF TypeOK
    <3> QED
      BY <3>1, <3>2
  <2>5. [file |-> s.file, at |-> s.at] \in Notice
    BY <2>1, SaveTyped DEF Notice
  <2>6. notices' \in Seq(Notice)
    BY <1>10, <2>5 DEF Write, TypeOK
  <2> QED
    BY <1>10, <2>1, <2>4, <2>6 DEF Write, TypeOK, Bounded, gui
<1>11. ASSUME NEW s \in saves, Fail(s) PROVE TypeOK' /\ Bounded'
  <2>1. excused' \subseteq Turns /\ saves' \subseteq Save
    BY <1>11, SaveTyped DEF Fail, TypeOK
  <2> QED
    BY <1>11, <2>1 DEF Fail, TypeOK, Bounded, gui
<1>12. CASE Deliver
  <2>1. Head(notices) \in Notice /\ notices' \in Seq(Notice)
    BY <1>12 DEF Deliver, TypeOK
  <2>2. path' \in Paths \cup {NoPath}
    BY <1>12, <2>1 DEF Deliver, TypeOK, Notice
  <2> QED
    BY <1>12, <2>1, <2>2 DEF Deliver, TypeOK, Bounded, history
<1>13. CASE Tick \/ OpenDialog \/ Dismiss
  <2>1. CASE Tick
    BY <2>1, BoundAssumption DEF Tick, TypeOK, Bounded, gui, history
  <2>2. CASE OpenDialog \/ Dismiss
    <3>1. /\ choosing' \in BOOLEAN
          /\ UNCHANGED <<live, turns, path, generation, running, settling, final, pending,
                         saves, notices, disk, newest, now, history>>
      BY <2>2 DEF OpenDialog, Dismiss
    <3> QED
      BY <3>1 DEF TypeOK, Bounded, history
  <2> QED
    BY <1>13, <2>1, <2>2
<1>14. CASE Restart
  <2>1. live' \in Conversations /\ turns' \subseteq Turns /\ path' \in Paths \cup {NoPath}
    BY <1>14 DEF Restart, TypeOK, Intact, Content
  <2>2. excused' \subseteq Turns
    BY <1>14, SaveTyped DEF Restart, TypeOK, Unsettled
  <2>3. notices' \in Seq(Notice) /\ saves' \subseteq Save
    BY <1>14 DEF Restart
  <2> QED
    BY <1>14, <2>1, <2>2, <2>3 DEF Restart, TypeOK, Bounded
<1>15. CASE UNCHANGED vars
  BY <1>15 DEF TypeOK, Bounded, vars, gui, history
<1> QED
  BY <1>1, <1>2, <1>3, <1>4, <1>5, <1>6, <1>7, <1>8, <1>9, <1>10, <1>11, <1>12,
     <1>13, <1>14, <1>15 DEF Next, Open, Choose

-----------------------------------------------------------------------------
(* Saves, notices and the path belong together.                             *)

LEMMA InitOwn == Init => Named /\ Past /\ Own
<1> SUFFICES ASSUME Init PROVE Named /\ Past /\ Own
  OBVIOUS
<1>1. PICK p \in Paths :
        /\ path = p /\ live = First /\ saves = {} /\ DOMAIN notices = {}
        /\ disk = [q \in Paths |-> IF q = p THEN [conv |-> First, turns |-> {0}] ELSE Absent]
        /\ takers = [q \in Paths |-> IF q = p THEN {First} ELSE {}]
  BY FirstPath DEF Init
<1>2. OwnPath
  BY <1>1 DEF OwnPath
<1>3. OwnDisk
  BY <1>1, ContentAssumption DEF OwnDisk, Intact
<1> QED
  BY <1>1, <1>2, <1>3 DEF Named, Past, Own, OwnSaves, OwnNotices

LEMMA NamedStep == TypeOK /\ Named /\ [Next]_vars => Named'
<1> SUFFICES ASSUME TypeOK, Named, [Next]_vars PROVE Named'
  OBVIOUS
<1>1. ASSUME NEW s \in saves, s \in Save PROVE [s EXCEPT !.pc = "write"].file = s.file
  BY DEF Save
<1>2. CASE Settle
  BY <1>2 DEF Settle, AutoSaved, Named
<1>3. ASSUME NEW s \in saves, Name(s) PROVE Named'
  <2>1. [s EXCEPT !.file = NewPath(s)].file # NoPath
    <3>1. NewPath(s) \in Paths
      BY NewPathTyped DEF TypeOK
    <3> QED
      BY <3>1, NoPathAssumption DEF TypeOK, Save
  <2> QED
    BY <1>3, <2>1 DEF Name, Named
<1>4. ASSUME NEW s \in saves, Truncate(s) PROVE Named'
  BY <1>1, <1>4 DEF Truncate, Named, TypeOK
<1>5. ASSUME NEW s \in saves, Write(s) \/ Fail(s) PROVE Named'
  BY <1>5 DEF Write, Fail, Named
<1>6. CASE Restart
  BY <1>6 DEF Restart, Named
<1>7. CASE Send \/ RequestHandoff \/ TurnEnds \/ TurnFails \/ New \/ Deliver \/ Tick
             \/ UNCHANGED vars \/ OpenDialog \/ Dismiss \/ \E p \in Paths : ApplyLoaded(p)
  BY <1>7 DEF Send, RequestHandoff, TurnEnds, TurnFails, Finished, New, Replaced, Deliver,
              Tick, OpenDialog, Dismiss, ApplyLoaded, vars, Named
<1> QED
  BY <1>2, <1>3, <1>4, <1>5, <1>6, <1>7 DEF Next, Open, Choose

LEMMA AtTyped ==
  ASSUME TypeOK
  PROVE  /\ \A s \in saves : s.at \in Nat
         /\ \A i \in DOMAIN notices : notices[i].at \in Nat
<1>1. \A s \in saves : s \in Save
  BY DEF TypeOK
<1>2. ASSUME NEW i \in DOMAIN notices PROVE notices[i] \in Notice
  BY DEF TypeOK
<1> QED
  BY <1>1, <1>2 DEF Save, Notice

LEMMA PastStep == TypeOK /\ Past /\ [Next]_vars => Past'
<1> SUFFICES ASSUME TypeOK, Past, [Next]_vars PROVE Past'
  OBVIOUS
<1>1. ASSUME NEW s \in saves, Name(s) \/ Truncate(s) PROVE Past'
  <2>1. \A r \in saves' : \E q \in saves : r.at = q.at
    BY <1>1 DEF Name, Truncate, TypeOK, Save
  <2> QED
    BY <1>1, <2>1 DEF Name, Truncate, Past, gui
<1>2. ASSUME NEW s \in saves, Write(s) PROVE Past'
  <2>1. s.at <= generation /\ generation' = generation
    BY <1>2 DEF Write, Past, gui
  <2>2. \A i \in DOMAIN notices' :
          (i \in DOMAIN notices /\ notices'[i] = notices[i]) \/ notices'[i].at = s.at
    BY <1>2 DEF Write, TypeOK
  <2> QED
    BY <1>2, <2>1, <2>2 DEF Write, Past
<1>3. ASSUME NEW s \in saves, Fail(s) PROVE Past'
  BY <1>3 DEF Fail, Past, gui
<1>4. CASE Deliver
  <2>1. \A i \in DOMAIN notices' :
          i + 1 \in DOMAIN notices /\ notices'[i] = notices[i + 1]
    BY <1>4 DEF Deliver, TypeOK
  <2> QED
    BY <1>4, <2>1 DEF Deliver, Past
<1>5. CASE Settle
  <2>1. generation <= generation' /\ generation \in Nat /\ generation' \in Nat
    BY <1>5, NewConversationTyped, HandoffIsNew DEF Settle, NewConversation, TypeOK
  <2>2. \A s \in saves' : s \in saves \/ s.at = generation
    BY <1>5 DEF Settle, AutoSaved
  <2>3. \A s \in saves' : s.at <= generation
    BY <2>1, <2>2 DEF Past
  <2>4. \A s \in saves' : s.at \in Nat
    BY <2>1, <2>2, AtTyped
  <2>5. \A i \in DOMAIN notices : notices[i].at \in Nat
    BY AtTyped
  <2> QED
    BY <1>5, <2>1, <2>3, <2>4, <2>5 DEF Settle, Past
<1>6. CASE New
  <2>1. /\ \A s \in saves : s.at \in Nat
        /\ \A i \in DOMAIN notices : notices[i].at \in Nat
    BY AtTyped
  <2> QED
    BY <1>6, <2>1 DEF New, NewConversation, Replaced, Past, TypeOK
<1>7. CASE Restart
  BY <1>7 DEF Restart, Past
<1>8. CASE Send \/ RequestHandoff \/ TurnEnds \/ TurnFails \/ Tick
             \/ UNCHANGED vars \/ OpenDialog \/ Dismiss \/ \E p \in Paths : ApplyLoaded(p)
  BY <1>8 DEF Send, RequestHandoff, TurnEnds, TurnFails, Finished, Replaced,
              Tick, OpenDialog, Dismiss, ApplyLoaded, vars, gui, Past
<1> QED
  BY <1>1, <1>2, <1>3, <1>4, <1>5, <1>6, <1>7, <1>8 DEF Next, Open, Choose

\* Nothing that belongs to the path, the threads, the notices or the disk moves.
LEMMA OwnUnmoved ==
  ASSUME Own, raced' = raced,
         UNCHANGED <<live, path, generation, saves, notices, disk, takers>>
  PROVE  Own'
  BY DEF Own, OwnPath, OwnSaves, OwnNotices, OwnDisk, Intact

\* A thread that takes a name.
LEMMA NameShape ==
  ASSUME TypeOK, NEW s \in saves, Name(s)
  PROVE  \E r \in Save :
           /\ saves' = (saves \ {s}) \cup {r}
           /\ r.conv = s.conv /\ r.turns = s.turns /\ r.at = s.at /\ r.pc = s.pc
           /\ r.file \in Paths /\ s.file = NoPath
           /\ takers' = [takers EXCEPT ![r.file] = @ \cup {s.conv}]
           /\ UNCHANGED <<gui, notices, disk, made, excused, raced, split>>
<1> DEFINE p == NewPath(s)
           r == [s EXCEPT !.file = p]
<1>1. s \in Save /\ p \in Paths
  BY NewPathTyped DEF TypeOK
<1>2. r \in Save /\ r.conv = s.conv /\ r.turns = s.turns /\ r.at = s.at /\ r.pc = s.pc /\ r.file = p
  BY <1>1 DEF Save
<1>3. saves' = (saves \ {s}) \cup {r} /\ takers' = [takers EXCEPT ![p] = @ \cup {s.conv}]
  BY DEF Name
<1> HIDE DEF r, p
<1> QED
  BY <1>1, <1>2, <1>3 DEF Name

LEMMA FilesTyped ==
  ASSUME TypeOK PROVE \A i \in DOMAIN notices : notices[i].file \in Paths
<1> SUFFICES ASSUME NEW i \in DOMAIN notices PROVE notices[i].file \in Paths
  OBVIOUS
<1>1. notices[i] \in Notice
  BY DEF TypeOK
<1> QED
  BY <1>1 DEF Notice

LEMMA OwnStep == TypeOK /\ Named /\ Past /\ Own /\ [Next]_vars => Own'
<1> SUFFICES ASSUME TypeOK, Named, Past, Own, [Next]_vars, ~raced'
             PROVE  OwnPath' /\ OwnSaves' /\ OwnNotices' /\ OwnDisk'
  BY DEF Own
<1> USE DEF Intact
<1>1. ~raced /\ OwnPath /\ OwnSaves /\ OwnNotices /\ OwnDisk
  <2>1. raced => raced'
    BY DEF Next, Open, Choose, Send, RequestHandoff, TurnEnds, TurnFails, Finished, Settle, New, ApplyLoaded,
           Name, Truncate, Write, Fail, Deliver, Tick, OpenDialog, Dismiss, Restart, vars, history, TypeOK
  <2> QED
    BY <2>1 DEF Own
<1>2. CASE Send \/ RequestHandoff \/ TurnEnds \/ TurnFails \/ Tick \/ OpenDialog \/ Dismiss
             \/ UNCHANGED vars
  <2>1. UNCHANGED <<live, path, generation, saves, notices, disk, takers>>
    BY <1>2 DEF Send, RequestHandoff, TurnEnds, TurnFails, Finished, Tick, OpenDialog, Dismiss, vars, gui,
                  history
  <2> QED
    BY <1>1, <2>1 DEF OwnPath, OwnSaves, OwnNotices, OwnDisk
<1>3. ASSUME NewConversation(Conversations), UNCHANGED <<notices, disk, takers>>,
             \A s \in saves' : s \in saves \/ (s.at = generation /\ s.conv = live
                                                /\ s.file = path)
      PROVE  OwnPath' /\ OwnSaves' /\ OwnNotices' /\ OwnDisk'
  <2>1. path' = NoPath /\ generation' = generation + 1 /\ generation \in Nat
    BY <1>3 DEF NewConversation, TypeOK
  <2>2. \A s \in saves' : s.at <= generation /\ s.at \in Nat
    BY <1>3, <2>1, AtTyped DEF Past
  <2>3. \A i \in DOMAIN notices : notices[i].at <= generation /\ notices[i].at \in Nat
    BY AtTyped DEF Past
  <2>4. \A s \in saves' : s.file # NoPath => s.conv \in takers[s.file]
    BY <1>1, <1>3 DEF OwnSaves, OwnPath
  <2> QED
    BY <1>1, <1>3, <2>1, <2>2, <2>3, <2>4 DEF OwnPath, OwnSaves, OwnNotices, OwnDisk
<1>4. CASE Settle
  <2>1. \A s \in saves' : s \in saves \/ (s.at = generation /\ s.conv = live
                                           /\ s.file = path)
    BY <1>4 DEF Settle, AutoSaved
  <2>2. CASE Handoff
    BY <1>3, <1>4, <2>1, <2>2, HandoffIsNew DEF Settle
  <2>3. CASE ~Handoff
    BY <1>1, <1>4, <2>1, <2>3 DEF Settle, OwnPath, OwnSaves, OwnNotices, OwnDisk
  <2> QED
    BY <2>2, <2>3
<1>5. CASE New
  BY <1>3, <1>5 DEF New, Replaced
<1>6. ASSUME NEW p \in Paths, ApplyLoaded(p) PROVE OwnPath' /\ OwnSaves' /\ OwnNotices' /\ OwnDisk'
  <2>1. ~InFlight
    BY <1>6 DEF ApplyLoaded
  <2>2. disk[p].conv \in takers[p]
    BY <1>1, <1>6 DEF ApplyLoaded, OwnDisk
  <2> QED
    BY <1>1, <1>6, <2>1, <2>2
       DEF ApplyLoaded, Replaced, InFlight, OwnPath, OwnSaves, OwnNotices, OwnDisk
<1>7. ASSUME NEW s \in saves, Name(s) PROVE OwnPath' /\ OwnSaves' /\ OwnNotices' /\ OwnDisk'
  <2>1. PICK r \in Save :
          /\ saves' = (saves \ {s}) \cup {r}
          /\ r.conv = s.conv /\ r.at = s.at /\ r.file \in Paths
          /\ takers' = [takers EXCEPT ![r.file] = @ \cup {s.conv}]
          /\ UNCHANGED <<live, path, generation, notices, disk>>
    BY <1>7, NameShape DEF gui
  <2>2. \A p \in Paths : takers[p] \subseteq takers'[p]
    BY <2>1 DEF TypeOK
  <2>3. s.conv \in takers'[r.file]
    BY <2>1 DEF TypeOK
  <2>4. \A q \in saves : q.file # NoPath => q.file \in Paths
    BY SaveTyped DEF TypeOK
  <2>5. \A i \in DOMAIN notices : notices[i].file \in Paths
    BY FilesTyped
  <2>6. OwnSaves'
    BY <1>1, <2>1, <2>2, <2>3, <2>4 DEF OwnSaves
  <2>7. OwnPath' /\ OwnNotices' /\ OwnDisk'
    BY <1>1, <2>1, <2>2, <2>5 DEF OwnPath, OwnNotices, OwnDisk, TypeOK
  <2> QED
    BY <2>6, <2>7
<1>8. ASSUME NEW s \in saves, Truncate(s)
      PROVE  OwnPath' /\ OwnSaves' /\ OwnNotices' /\ OwnDisk'
  <2> DEFINE r == [s EXCEPT !.pc = "write"]
  <2>1. r.file = s.file /\ r.conv = s.conv /\ r.at = s.at
    BY DEF TypeOK, Save
  <2>2. saves' = (saves \ {s}) \cup {r}
    BY <1>8 DEF Truncate
  <2> HIDE DEF r
  <2>3. OwnSaves'
    BY <1>1, <1>8, <2>1, <2>2 DEF Truncate, OwnSaves, gui
  <2>4. OwnDisk'
    BY <1>1, <1>8, ContentAssumption DEF Truncate, OwnDisk, TypeOK
  <2> QED
    BY <1>1, <1>8, <2>3, <2>4 DEF Truncate, gui, OwnPath, OwnNotices
<1>9. ASSUME NEW s \in saves, Write(s) PROVE OwnPath' /\ OwnSaves' /\ OwnNotices' /\ OwnDisk'
  <2>1. s.file # NoPath /\ s.conv \in takers[s.file] /\ (s.at = generation => s.conv = live)
    BY <1>1, <1>9 DEF Write, Named, OwnSaves
  <2>2. PICK text \in {[conv |-> s.conv, turns |-> s.turns], Torn} :
          disk' = [disk EXCEPT ![s.file] = text]
    BY <1>9 DEF Write
  <2>3. OwnDisk'
    BY <1>1, <1>9, <2>1, <2>2, ContentAssumption DEF OwnDisk, TypeOK, Write
  <2>4. \A i \in DOMAIN notices' :
          \/ i \in DOMAIN notices /\ notices'[i] = notices[i]
          \/ notices'[i] = [file |-> s.file, at |-> s.at]
    BY <1>9 DEF Write, TypeOK
  <2>5. OwnNotices'
    BY <1>1, <1>9, <2>1, <2>4 DEF Write, OwnNotices, gui
  <2> QED
    BY <1>1, <1>9, <2>3, <2>5 DEF Write, gui, OwnPath, OwnSaves
<1>10. ASSUME NEW s \in saves, Fail(s) PROVE OwnPath' /\ OwnSaves' /\ OwnNotices' /\ OwnDisk'
  BY <1>1, <1>10 DEF Fail, gui, OwnPath, OwnSaves, OwnNotices, OwnDisk
<1>11. CASE Deliver
  <2>1. \A i \in DOMAIN notices' :
          i + 1 \in DOMAIN notices /\ notices'[i] = notices[i + 1]
    BY <1>11 DEF Deliver, TypeOK
  <2>2. 1 \in DOMAIN notices /\ Head(notices) = notices[1]
    BY <1>11 DEF Deliver, TypeOK
  <2> QED
    BY <1>1, <1>11, <2>1, <2>2
       DEF Deliver, history, OwnPath, OwnSaves, OwnNotices, OwnDisk
<1>12. CASE Restart
  <2>1. OwnPath'
    BY <1>1, <1>12 DEF Restart, OwnPath, OwnDisk, TypeOK
  <2> QED
    BY <1>1, <1>12, <2>1 DEF Restart, OwnSaves, OwnNotices, OwnDisk
<1> QED
  BY <1>2, <1>4, <1>5, <1>6, <1>7, <1>8, <1>9, <1>10, <1>11, <1>12 DEF Next, Open, Choose

-----------------------------------------------------------------------------
(* A handoff request and its answer.                                        *)

\* As long as no request went astray, a request that is pending is that of the
\* turn that runs or settles, a turn that settles is on the screen, and only a
\* turn that runs has no final message yet.
Requested ==
  ~stray =>
    /\ pending => asked /\ (running \/ settling)
    /\ settling => made \in turns
    /\ pending /\ settling /\ final = "none" => running

LEMMA RequestedStep == TypeOK /\ Requested /\ [Next]_vars => Requested'
<1> SUFFICES ASSUME TypeOK, Requested, [Next]_vars, ~stray'
             PROVE  /\ pending' => asked' /\ (running' \/ settling')
                    /\ settling' => made' \in turns'
                    /\ pending' /\ settling' /\ final' = "none" => running'
  BY DEF Requested
<1> USE DEF Requested
<1>1. CASE Send
  BY <1>1 DEF Send, Start
<1>2. CASE RequestHandoff
  BY <1>2 DEF RequestHandoff, Start
<1>3. CASE TurnEnds
  <2>1. PICK f \in {"none", "empty", "text"} :
          Finished(f) /\ stray' = (stray \/ (f = "none" /\ pending)) /\ UNCHANGED pending
    BY <1>3 DEF TurnEnds
  <2>2. running /\ ~settling /\ settling' /\ made' \in turns' /\ UNCHANGED asked
    BY <2>1 DEF Finished
  <2>3. ~stray /\ ~(f = "none" /\ pending) /\ final' = f /\ pending' = pending
    BY <2>1 DEF Finished, TypeOK
  <2> QED
    BY <2>2, <2>3
<1>4. CASE TurnFails
  BY <1>4 DEF TurnFails, Finished, ClearOnError
<1>5. CASE Settle
  BY <1>5 DEF Settle, Handoff
<1>6. CASE New
  BY <1>6 DEF New, Replaced
<1>7. ASSUME NEW p \in Paths, ApplyLoaded(p)
      PROVE  /\ pending' => asked' /\ (running' \/ settling')
             /\ settling' => made' \in turns'
             /\ pending' /\ settling' /\ final' = "none" => running'
  BY <1>7 DEF ApplyLoaded, Replaced
<1>8. CASE Restart
  BY <1>8 DEF Restart
<1>9. CASE Deliver
  BY <1>9 DEF Deliver, history
<1>10. CASE Tick \/ OpenDialog \/ Dismiss \/ UNCHANGED vars \/ \E s \in saves : Name(s) \/ Truncate(s) \/ Write(s) \/ Fail(s)
  <2>1. UNCHANGED <<pending, running, settling, final, asked, stray, made, turns>>
    BY <1>10 DEF Tick, OpenDialog, Dismiss, Name, Truncate, Write, Fail, vars, gui, history
  <2> QED
    BY <2>1
<1> QED
  BY <1>1, <1>2, <1>3, <1>4, <1>5, <1>6, <1>7, <1>8, <1>9, <1>10 DEF Next, Open, Choose

-----------------------------------------------------------------------------
(* No finished turn is lost, and a conversation has one file.               *)

\* Nothing holds a turn that has not finished.
Finite ==
  /\ turns \subseteq 0 .. made
  /\ \A s \in saves : s.turns \subseteq 0 .. made
  /\ \A p \in Paths : Intact(p) => disk[p].turns \subseteq 0 .. made

\* A turn is of one conversation, wherever it is held.
OwnTurns ==
  \E of \in [Turns -> Conversations] :
    /\ \A t \in turns : of[t] = live
    /\ \A s \in saves : \A t \in s.turns : of[t] = s.conv
    /\ \A p \in Paths : Intact(p) => \A t \in disk[p].turns : of[t] = disk[p].conv

\* A turn that settles is on the screen, or was replaced; no save has it yet.
Settling ==
  settling => /\ made \in turns \cup excused
              /\ \A s \in saves : made \notin s.turns

\* A thread copied no more than what is on the screen by now.
CopiedInv == \A s \in saves : s.conv = live => s.turns \subseteq turns

\* Threads that save the same conversation at once, and a thread that writes
\* over what another wrote, may cost what they write.
CrossInv ==
  /\ \A s, r \in saves : s # r /\ s.conv = r.conv => s.turns \subseteq excused
  /\ \A s \in saves : s.pc = "write" /\ Intact(s.file) /\ disk[s.file].conv = s.conv =>
       s.turns \subseteq excused

\* What a thread may overwrite of its own conversation...
MayWrite(s, p) == s.conv = disk[p].conv /\ s.file \in {p, NoPath}

\* ... and what the next save may.
InPlay(p) ==
  \/ path \in {p, NoPath}
  \/ \E i \in DOMAIN notices : notices[i].at = generation /\ notices[i].file = p

\* Whatever is overwritten is written again.
OverInv ==
  \A p \in Paths : Intact(p) =>
    /\ \A s \in saves : MayWrite(s, p) => disk[p].turns \subseteq s.turns \cup excused
    /\ InPlay(p) /\ disk[p].conv = live => disk[p].turns \subseteq turns \cup excused

\* Where a finished turn can be.
Held(t) ==
  \/ t \in Unsettled
  \/ \E s \in saves : t \in s.turns
  \/ \E p \in Paths : Intact(p) /\ t \in disk[p].turns

HeldInv == \A t \in (0 .. made) \ excused : Held(t)

KeptInv == ~raced => CopiedInv /\ CrossInv /\ OverInv /\ HeldInv

\* The names a conversation uses.
Used(c, p) ==
  \/ Intact(p) /\ disk[p].conv = c
  \/ \E s \in saves : s.file = p /\ s.conv = c
  \/ c = live /\ path = p
  \/ c = live /\ \E i \in DOMAIN notices :
       notices[i].at = generation /\ notices[i].file = p

\* A conversation uses one name.
OneName ==
  \A c \in Conversations : \A p, q \in Paths : Used(c, p) /\ Used(c, q) => p = q

\* A thread without a name is the only one of a conversation without a file.
Unnamed ==
  \A s \in saves : s.file = NoPath =>
    /\ \A r \in saves : r.conv = s.conv => r = s
    /\ \A p \in Paths : ~Used(s.conv, p)

\* While the screen has no path, one is on its way if there is a file, and what
\* is saved is of this generation.
PathComes ==
  path = NoPath =>
    /\ \A s \in saves : s.conv = live => s.at = generation
    /\ \A p \in Paths : Intact(p) /\ disk[p].conv = live =>
         \E i \in DOMAIN notices : notices[i].at = generation

NameInv == ~raced /\ ~split => OneName /\ Unnamed /\ PathComes

\* All of it; it is inductive on top of IInv.
KInv == Finite /\ OwnTurns /\ Settling /\ KeptInv /\ NameInv

-----------------------------------------------------------------------------
(* What one step of a save does.                                            *)

LEMMA TruncateShape ==
  ASSUME TypeOK, NEW s \in saves, Truncate(s)
  PROVE  /\ \E r \in Save :
              /\ saves' = (saves \ {s}) \cup {r}
              /\ r.conv = s.conv /\ r.turns = s.turns /\ r.at = s.at /\ r.pc = "write"
              /\ r.file = s.file
         /\ s.file \in Paths /\ s.file # NoPath
         /\ ~Intact(s.file)'
         /\ \A p \in Paths : p # s.file => disk'[p] = disk[p]
         /\ excused' = excused \cup Overwritten(s)
         /\ UNCHANGED <<gui, notices, made, raced, split>>
<1> DEFINE r == [s EXCEPT !.pc = "write"]
<1>1. s \in Save /\ s.file \in Paths /\ s.file # NoPath
  BY DEF TypeOK, Save, Truncate
<1>2. /\ r \in Save /\ r.conv = s.conv /\ r.turns = s.turns /\ r.at = s.at /\ r.pc = "write"
      /\ r.file = s.file
  BY <1>1 DEF Save
<1>3. saves' = (saves \ {s}) \cup {r}
  BY DEF Truncate
<1> HIDE DEF r
<1>4. disk' = [disk EXCEPT ![s.file] = Torn]
  BY DEF Truncate
<1>5. disk'[s.file] = Torn /\ \A p \in Paths : p # s.file => disk'[p] = disk[p]
  BY <1>1, <1>4 DEF TypeOK
<1>6. ~Intact(s.file)'
  BY <1>5, ContentAssumption DEF Intact
<1> QED
  BY <1>1, <1>2, <1>3, <1>5, <1>6 DEF Truncate

\* A write puts the copy into the file, or spoils what another thread wrote.
Spoils(s) ==
  Intact(s.file) /\ ~Intact(s.file)' /\ excused' = Overwritten(s) \cup excused \cup s.turns

Puts(s) ==
  /\ Intact(s.file)' /\ disk'[s.file].conv = s.conv /\ disk'[s.file].turns = s.turns
  /\ excused' = Overwritten(s) \cup
       (IF \E r \in saves \ {s} : r.conv = s.conv THEN excused ELSE excused \ s.turns)

LEMMA WriteShape ==
  ASSUME TypeOK, Named, NEW s \in saves, Write(s)
  PROVE  /\ s.file \in Paths /\ s.pc = "write"
         /\ saves' = saves \ {s}
         /\ Spoils(s) \/ Puts(s)
         /\ \A p \in Paths : p # s.file => disk'[p] = disk[p]
         /\ UNCHANGED <<gui, made, raced, split>>
<1>1. s \in Save /\ s.file \in Paths /\ s.pc = "write"
  BY DEF TypeOK, Save, Write, Named
<1>2. PICK text \in {[conv |-> s.conv, turns |-> s.turns]}
                      \cup (IF Intact(s.file) THEN {Torn} ELSE {}) :
        /\ disk' = [disk EXCEPT ![s.file] = text]
        /\ excused' = Overwritten(s) \cup
             (IF text = Torn THEN excused \cup s.turns
              ELSE IF \E r \in saves \ {s} : r.conv = s.conv THEN excused
              ELSE excused \ s.turns)
  BY DEF Write
<1>3. disk'[s.file] = text /\ \A p \in Paths : p # s.file => disk'[p] = disk[p]
  BY <1>1, <1>2 DEF TypeOK
<1>4. CASE text = Torn
  <2>1. [conv |-> s.conv, turns |-> s.turns] \in Content
    BY <1>1 DEF Save, Content
  <2>2. Intact(s.file)
    BY <1>2, <1>4, <2>1, ContentAssumption
  <2>3. ~Intact(s.file)'
    BY <1>3, <1>4, ContentAssumption DEF Intact
  <2>4. Spoils(s)
    BY <1>2, <1>4, <2>2, <2>3 DEF Spoils
  <2> QED
    BY <1>1, <1>3, <2>4 DEF Write
<1>5. CASE text # Torn
  <2>1. text = [conv |-> s.conv, turns |-> s.turns]
    BY <1>2, <1>5
  <2>2. text \in Content
    BY <1>1, <2>1 DEF Save, Content
  <2>3. Intact(s.file)' /\ disk'[s.file].conv = s.conv /\ disk'[s.file].turns = s.turns
    BY <1>3, <2>1, <2>2 DEF Intact
  <2>4. Puts(s)
    BY <1>2, <1>5, <2>3 DEF Puts
  <2> QED
    BY <1>1, <1>3, <2>4 DEF Write
<1> QED
  BY <1>4, <1>5

\* The notices a step leaves: a write adds one, a delivery takes the first.
LEMMA WriteNotices ==
  ASSUME TypeOK, NEW s \in saves, Write(s)
  PROVE  /\ \A i \in DOMAIN notices : i \in DOMAIN notices' /\ notices'[i] = notices[i]
         /\ \E j \in DOMAIN notices' : notices'[j].file = s.file /\ notices'[j].at = s.at
         /\ \A i \in DOMAIN notices' :
              \/ i \in DOMAIN notices /\ notices'[i] = notices[i]
              \/ notices'[i].file = s.file /\ notices'[i].at = s.at
<1> DEFINE n == [file |-> s.file, at |-> s.at]
<1>1. notices' = Append(notices, n) /\ notices \in Seq(Notice)
  BY DEF Write, TypeOK
<1>2. n.file = s.file /\ n.at = s.at
  OBVIOUS
<1> HIDE DEF n
<1>3. /\ Len(notices') = Len(notices) + 1 /\ notices'[Len(notices) + 1] = n
      /\ DOMAIN notices = 1 .. Len(notices) /\ DOMAIN notices' = 1 .. Len(notices')
      /\ \A i \in 1 .. Len(notices) : notices'[i] = notices[i]
      /\ Len(notices) \in Nat
  BY <1>1
<1> QED
  BY <1>2, <1>3

LEMMA DeliverNotices ==
  ASSUME TypeOK, Deliver
  PROVE  /\ 1 \in DOMAIN notices /\ Head(notices) = notices[1] /\ notices[1].file \in Paths
         /\ \A i \in DOMAIN notices' : i + 1 \in DOMAIN notices /\ notices'[i] = notices[i + 1]
         /\ \A i \in DOMAIN notices : i # 1 => \E j \in DOMAIN notices' : notices'[j] = notices[i]
<1>1. notices # <<>> /\ notices' = Tail(notices) /\ notices \in Seq(Notice)
  BY DEF Deliver, TypeOK
<1>2. /\ Len(notices) \in Nat \ {0} /\ Len(notices') = Len(notices) - 1
      /\ DOMAIN notices = 1 .. Len(notices) /\ DOMAIN notices' = 1 .. Len(notices')
      /\ \A i \in 1 .. Len(notices') : notices'[i] = notices[i + 1]
      /\ Head(notices) = notices[1]
  BY <1>1
<1>3. notices[1] \in Notice
  BY <1>1, <1>2
<1>4. ASSUME NEW i \in DOMAIN notices, i # 1
      PROVE  \E j \in DOMAIN notices' : notices'[j] = notices[i]
  <2>1. i - 1 \in DOMAIN notices' /\ notices'[i - 1] = notices[(i - 1) + 1] /\ (i - 1) + 1 = i
    BY <1>2, <1>4
  <2> QED
    BY <2>1
<1> QED
  BY <1>2, <1>3, <1>4 DEF Notice

\* A settled turn is copied, unless there is nothing on the screen.
LEMMA SettleShape ==
  ASSUME TypeOK, Settle
  PROVE  \/ turns = {} /\ saves' = saves
         \/ \E r \in Save : /\ saves' = saves \cup {r}
                            /\ r.conv = live /\ r.turns = turns /\ r.file = path
                            /\ r.at = generation /\ r.pc = "open"
<1> DEFINE r == [id |-> made, conv |-> live, turns |-> turns, file |-> path,
                 at |-> generation, pc |-> "open"]
<1>1. r \in Save
  BY DEF TypeOK, Save
<1>2. saves' = saves \/ saves' = saves \cup {r}
  BY DEF Settle, AutoSaved
<1>3. (turns = {} /\ saves' = saves) \/ saves' = saves \cup {r}
  BY DEF Settle, AutoSaved
<1>4. /\ r.conv = live /\ r.turns = turns /\ r.file = path
      /\ r.at = generation /\ r.pc = "open"
  OBVIOUS
<1> HIDE DEF r
<1> QED
  BY <1>1, <1>3, <1>4

LEMMA FreshShape ==
  ASSUME TypeOK, NewConversation(Conversations)
  PROVE  /\ Fresh(live') /\ live' \in Conversations /\ turns' = {} /\ path' = NoPath
         /\ generation' = generation + 1
  BY DEF NewConversation

LEMMA FlagsStay ==
  ASSUME TypeOK, [Next]_vars
  PROVE  (raced => raced') /\ (split => split')
  BY DEF Next, Open, Choose, Send, RequestHandoff, TurnEnds, TurnFails, Finished, Settle, New, ApplyLoaded, Replaced,
         Name, Truncate, Write, Fail, Deliver, Tick, OpenDialog, Dismiss, Restart, vars, history, TypeOK

-----------------------------------------------------------------------------
(* Where turns come from.                                                   *)

\* A turn is copied along with its conversation and never made up: except when a
\* turn finishes, what is held was held before.
Copies ==
  /\ made' = made
  /\ \/ turns' = {}
     \/ live' = live /\ turns' = turns
     \/ \E p \in Paths : Intact(p) /\ live' = disk[p].conv /\ turns' = disk[p].turns
  /\ \A s \in saves' :
       \/ s.conv = live /\ s.turns = turns
       \/ \E r \in saves : s.conv = r.conv /\ s.turns = r.turns
  /\ \A p \in Paths : Intact(p)' =>
       \/ Intact(p) /\ disk'[p] = disk[p]
       \/ \E r \in saves : disk'[p].conv = r.conv /\ disk'[p].turns = r.turns

LEMMA Copied ==
  ASSUME TypeOK, Named, [Next]_vars
  PROVE  Copies \/ \E f \in {"none", "empty", "text"} : Finished(f)
<1>1. CASE TurnEnds \/ TurnFails
  BY <1>1 DEF TurnEnds, TurnFails
<1>2. CASE Send \/ RequestHandoff \/ Deliver \/ Tick \/ OpenDialog \/ Dismiss \/ UNCHANGED vars
  <2>1. UNCHANGED <<made, live, turns, saves, disk>>
    BY <1>2 DEF Send, RequestHandoff, Deliver, Tick, OpenDialog, Dismiss, vars, gui, history
  <2> QED
    BY <2>1 DEF Copies, Intact
<1>3. CASE Settle
  <2>1. UNCHANGED <<made, disk>> /\ (turns' = {} \/ (live' = live /\ turns' = turns))
    BY <1>3, HandoffIsNew DEF Settle, NewConversation
  <2> QED
    BY <1>3, <2>1, SettleShape DEF Copies, Intact
<1>4. CASE New
  BY <1>4 DEF New, NewConversation, Replaced, Copies, Intact
<1>5. ASSUME NEW p \in Paths, ApplyLoaded(p) PROVE Copies
  BY <1>5 DEF ApplyLoaded, Replaced, Copies, Intact
<1>6. ASSUME NEW s \in saves, Name(s) PROVE Copies
  <2>1. UNCHANGED <<made, live, turns, disk>>
    BY <1>6 DEF Name, gui
  <2> QED
    BY <1>6, <2>1, NameShape DEF Copies, Intact
<1>7. ASSUME NEW s \in saves, Truncate(s) PROVE Copies
  <2>1. UNCHANGED <<made, live, turns>>
    BY <1>7 DEF Truncate, gui
  <2>2. \A p \in Paths : Intact(p)' => Intact(p) /\ disk'[p] = disk[p]
    BY <1>7, TruncateShape DEF Intact
  <2> QED
    BY <1>7, <2>1, <2>2, TruncateShape DEF Copies
<1>8. ASSUME NEW s \in saves, Write(s) PROVE Copies
  <2>1. UNCHANGED <<made, live, turns>> /\ saves' = saves \ {s}
    BY <1>8 DEF Write, gui
  <2>2. ASSUME NEW p \in Paths, Intact(p)', p # s.file PROVE Intact(p) /\ disk'[p] = disk[p]
    BY <1>8, <2>2, WriteShape DEF Intact
  <2>3. Intact(s.file)' => disk'[s.file].conv = s.conv /\ disk'[s.file].turns = s.turns
    BY <1>8, WriteShape DEF Spoils, Puts
  <2> QED
    BY <2>1, <2>2, <2>3 DEF Copies
<1>9. ASSUME NEW s \in saves, Fail(s) PROVE Copies
  BY <1>9 DEF Fail, gui, Copies, Intact
<1>10. CASE Restart
  BY <1>10 DEF Restart, TypeOK, Copies, Intact
<1> QED
  BY <1>1, <1>2, <1>3, <1>4, <1>5, <1>6, <1>7, <1>8, <1>9, <1>10 DEF Next, Open, Choose

LEMMA FiniteStep ==
  ASSUME TypeOK, Named, Finite, [Next]_vars
  PROVE  Finite'
<1>1. CASE Copies
  BY <1>1 DEF Copies, Finite
<1>2. CASE \E f \in {"none", "empty", "text"} : Finished(f)
  <2>1. made' = made + 1 /\ turns' = turns \cup {made + 1} /\ UNCHANGED <<saves, disk>>
    BY <1>2 DEF Finished
  <2>2. made \in Nat
    BY BoundAssumption DEF TypeOK, Turns
  <2>3. 0 .. made \subseteq 0 .. made' /\ made + 1 \in 0 .. made'
    BY <2>1, <2>2
  <2> QED
    BY <2>1, <2>3 DEF Finite, Intact
<1> QED
  BY <1>1, <1>2, Copied

LEMMA OwnTurnsStep ==
  ASSUME TypeOK, Bounded, Named, Finite, OwnTurns, [Next]_vars
  PROVE  OwnTurns'
<1>1. PICK of \in [Turns -> Conversations] :
        /\ \A t \in turns : of[t] = live
        /\ \A s \in saves : \A t \in s.turns : of[t] = s.conv
        /\ \A p \in Paths : Intact(p) => \A t \in disk[p].turns : of[t] = disk[p].conv
  BY DEF OwnTurns
<1>2. CASE Copies
  <2>1. \A t \in turns' : of[t] = live'
    BY <1>1, <1>2 DEF Copies
  <2>2. \A s \in saves' : \A t \in s.turns : of[t] = s.conv
    BY <1>1, <1>2 DEF Copies
  <2>3. \A p \in Paths : Intact(p)' => \A t \in disk'[p].turns : of[t] = disk'[p].conv
    BY <1>1, <1>2 DEF Copies
  <2> QED
    BY <2>1, <2>2, <2>3 DEF OwnTurns
<1>3. CASE \E f \in {"none", "empty", "text"} : Finished(f)
  <2>1. /\ made' = made + 1 /\ turns' = turns \cup {made + 1} /\ live' = live
        /\ UNCHANGED <<saves, disk>> /\ running
    BY <1>3 DEF Finished
  <2>2. made \in Nat /\ made + 1 \in Turns /\ live \in Conversations
    BY <2>1, BoundAssumption DEF TypeOK, Turns, Bounded
  <2> DEFINE now_of == [of EXCEPT ![made + 1] = live]
  <2>3. now_of \in [Turns -> Conversations]
    BY <2>2
  <2>4. \A t \in 0 .. made : now_of[t] = of[t]
    BY <2>2, BoundAssumption DEF TypeOK, Turns
  <2>5. now_of[made + 1] = live
    BY <2>2
  <2> HIDE DEF now_of
  <2>6. \A t \in turns' : now_of[t] = live'
    BY <1>1, <2>1, <2>4, <2>5 DEF Finite
  <2>7. \A s \in saves' : \A t \in s.turns : now_of[t] = s.conv
    BY <1>1, <2>1, <2>4 DEF Finite
  <2>8. \A p \in Paths : Intact(p)' => \A t \in disk'[p].turns : now_of[t] = disk'[p].conv
    BY <1>1, <2>1, <2>4 DEF Finite, Intact
  <2> QED
    BY <2>3, <2>6, <2>7, <2>8 DEF OwnTurns
<1> QED
  BY <1>2, <1>3, Copied

LEMMA SettlingStep ==
  ASSUME TypeOK, Named, Finite, Settling, [Next]_vars
  PROVE  Settling'
<1> SUFFICES ASSUME settling'
             PROVE  made' \in turns' \cup excused' /\ \A s \in saves' : made' \notin s.turns
  BY DEF Settling
<1>1. CASE Send \/ RequestHandoff \/ Deliver \/ Tick \/ OpenDialog \/ Dismiss \/ UNCHANGED vars
  <2>1. UNCHANGED <<settling, made, turns, saves, excused>>
    BY <1>1 DEF Send, RequestHandoff, Deliver, Tick, OpenDialog, Dismiss, vars, gui, history
  <2> QED
    BY <2>1 DEF Settling
<1>2. CASE TurnEnds \/ TurnFails
  <2>1. made' = made + 1 /\ turns' = turns \cup {made + 1} /\ saves' = saves
    BY <1>2 DEF TurnEnds, TurnFails, Finished
  <2>2. made \in Nat
    BY BoundAssumption DEF TypeOK, Turns
  <2>3. made + 1 \notin 0 .. made
    BY <2>2
  <2> QED
    BY <2>1, <2>3 DEF Finite
<1>3. CASE Settle \/ Restart
  BY <1>3 DEF Settle, Restart
<1>4. CASE New \/ \E p \in Paths : ApplyLoaded(p)
  BY <1>4 DEF New, ApplyLoaded, Replaced, Unsettled, Settling
<1>5. ASSUME NEW s \in saves, Name(s)
      PROVE  made' \in turns' \cup excused' /\ \A r \in saves' : made' \notin r.turns
  <2>1. UNCHANGED <<settling, made, turns, excused>>
    BY <1>5 DEF Name, gui
  <2>2. \A r \in saves' : \E q \in saves : r.turns = q.turns
    BY <1>5, NameShape
  <2> QED
    BY <2>1, <2>2 DEF Settling
<1>6. ASSUME NEW s \in saves, Truncate(s)
      PROVE  made' \in turns' \cup excused' /\ \A r \in saves' : made' \notin r.turns
  <2>1. UNCHANGED <<settling, made, turns>> /\ excused \subseteq excused'
    BY <1>6 DEF Truncate, gui
  <2>2. \A r \in saves' : \E q \in saves : r.turns = q.turns
    BY <1>6, TruncateShape
  <2> QED
    BY <2>1, <2>2 DEF Settling
<1>7. ASSUME NEW s \in saves, Write(s)
      PROVE  made' \in turns' \cup excused' /\ \A r \in saves' : made' \notin r.turns
  <2>1. UNCHANGED <<settling, made, turns>> /\ saves' = saves \ {s}
    BY <1>7 DEF Write, gui
  <2>2. excused \ s.turns \subseteq excused'
    BY <1>7, WriteShape DEF Spoils, Puts
  <2> QED
    BY <2>1, <2>2 DEF Settling
<1>8. ASSUME NEW s \in saves, Fail(s)
      PROVE  made' \in turns' \cup excused' /\ \A r \in saves' : made' \notin r.turns
  BY <1>8 DEF Fail, gui, Settling
<1> QED
  BY <1>1, <1>2, <1>3, <1>4, <1>5, <1>6, <1>7, <1>8 DEF Next, Open, Choose

-----------------------------------------------------------------------------
(* Finished turns are kept.                                                 *)

\* What a step leaves alone.
LEMMA KeptUnmoved ==
  ASSUME UNCHANGED <<live, turns, path, generation, settling, made, saves, notices, disk, excused>>,
         CopiedInv, CrossInv, OverInv, HeldInv
  PROVE  CopiedInv' /\ CrossInv' /\ OverInv' /\ HeldInv'
  BY DEF CopiedInv, CrossInv, OverInv, HeldInv, InPlay, MayWrite, Held, Unsettled, Intact

LEMMA KeptFinished ==
  ASSUME TypeOK, CopiedInv, CrossInv, OverInv, HeldInv, NEW f, Finished(f)
  PROVE  CopiedInv' /\ CrossInv' /\ OverInv' /\ HeldInv'
<1>1. /\ made' = made + 1 /\ turns' = turns \cup {made + 1} /\ settling' = TRUE /\ ~settling
      /\ UNCHANGED <<live, path, generation, saves, notices, disk, excused>>
  BY DEF Finished
<1>2. \A t \in 0 .. made' : t = made' \/ t \in 0 .. made
  BY <1>1, BoundAssumption DEF TypeOK, Turns
<1>3. CopiedInv' /\ CrossInv'
  BY <1>1 DEF CopiedInv, CrossInv, Intact
<1>4. OverInv'
  BY <1>1 DEF OverInv, InPlay, MayWrite, Intact
<1>5. HeldInv'
  BY <1>1, <1>2 DEF HeldInv, Held, Unsettled, Intact
<1> QED
  BY <1>3, <1>4, <1>5

\* A fresh conversation is none that a thread saves or a file holds.
LEMMA KeptFresh ==
  ASSUME TypeOK, Past, OwnDisk, NewConversation(Conversations)
  PROVE  /\ \A s \in saves : s.conv # live'
         /\ \A p \in Paths : Intact(p) => disk[p].conv # live'
         /\ \A i \in DOMAIN notices : notices[i].at # generation'
<1>1. Fresh(live') /\ generation' = generation + 1
  BY FreshShape
<1>2. \A p \in Paths : Intact(p) => disk[p].conv # live'
  BY <1>1 DEF Fresh, OwnDisk
<1>3. \A i \in DOMAIN notices : notices[i].at # generation'
  BY <1>1, AtTyped DEF Past, TypeOK
<1> QED
  BY <1>1, <1>2, <1>3 DEF Fresh

LEMMA KeptSettle ==
  ASSUME TypeOK, Past, Settling, OwnPath, OwnDisk, CopiedInv, CrossInv, OverInv, HeldInv, Settle
  PROVE  CopiedInv' /\ CrossInv' /\ OverInv' /\ HeldInv'
<1>1. /\ settling /\ settling' = FALSE
      /\ UNCHANGED <<notices, disk, made>>
      /\ excused' = excused \cup (IF \E s \in saves : s.conv = live THEN turns ELSE {})
      /\ NewConversation(Conversations) \/ UNCHANGED <<live, turns, path, generation>>
  BY HandoffIsNew DEF Settle
<1>2. \A s \in saves' : \/ s \in saves
                        \/ s.conv = live /\ s.turns = turns /\ s.file = path /\ s.pc = "open"
  BY SettleShape
<1>3. turns = {} \/ \E s \in saves' : s.turns = turns
  BY SettleShape
<1>4. saves \subseteq saves'
  BY SettleShape
<1>5. excused \subseteq excused' /\ ((\E s \in saves : s.conv = live) => turns \subseteq excused')
  BY <1>1
<1>6. NewConversation(Conversations) =>
        /\ \A s \in saves : s.conv # live'
        /\ live' # live
        /\ \A p \in Paths : Intact(p) => disk[p].conv # live'
        /\ \A i \in DOMAIN notices : notices[i].at # generation'
        /\ path' = NoPath
  BY KeptFresh, FreshShape DEF Fresh
<1>7. CopiedInv'
  BY <1>1, <1>2, <1>6 DEF CopiedInv
<1>8. CrossInv'
  <2>1. ASSUME NEW s \in saves', NEW r \in saves', s # r, s.conv = r.conv
        PROVE  s.turns \subseteq excused'
    <3>1. CASE s \in saves /\ r \in saves
      BY <1>5, <2>1, <3>1 DEF CrossInv
    <3>2. CASE s \in saves /\ r \notin saves
      BY <1>2, <1>5, <2>1, <3>2 DEF CopiedInv
    <3>3. CASE s \notin saves /\ r \in saves
      BY <1>2, <1>5, <2>1, <3>3
    <3>4. CASE s \notin saves /\ r \notin saves
      BY SettleShape, <2>1, <3>4
    <3> QED
      BY <3>1, <3>2, <3>3, <3>4
  <2>2. ASSUME NEW s \in saves', s.pc = "write", Intact(s.file)', disk'[s.file].conv = s.conv
        PROVE  s.turns \subseteq excused'
    BY <1>1, <1>2, <1>5, <2>2 DEF CrossInv, Intact
  <2> QED
    BY <2>1, <2>2 DEF CrossInv
<1>9. OverInv'
  <2> SUFFICES ASSUME NEW p \in Paths, Intact(p)
               PROVE  /\ \A s \in saves' : MayWrite(s, p) => disk[p].turns \subseteq s.turns \cup excused'
                      /\ InPlay(p)' /\ disk[p].conv = live' =>
                           disk[p].turns \subseteq turns' \cup excused'
    BY <1>1 DEF OverInv, Intact, MayWrite
  <2>1. ASSUME NEW s \in saves', MayWrite(s, p)
        PROVE  disk[p].turns \subseteq s.turns \cup excused'
    <3>1. CASE s \in saves
      BY <1>5, <2>1, <3>1 DEF OverInv
    <3>2. CASE s \notin saves
      <4>1. s.conv = live /\ s.turns = turns /\ s.file = path
        BY <1>2, <3>2
      <4>2. InPlay(p)
        BY <2>1, <4>1 DEF MayWrite, InPlay
      <4> QED
        BY <1>5, <2>1, <4>1, <4>2 DEF OverInv, MayWrite
    <3> QED
      BY <3>1, <3>2
  <2>2. ASSUME InPlay(p)', disk[p].conv = live' PROVE disk[p].turns \subseteq turns' \cup excused'
    <3>1. CASE NewConversation(Conversations)
      BY <1>6, <2>2, <3>1
    <3>2. CASE UNCHANGED <<live, turns, path, generation>>
      BY <1>1, <1>5, <2>2, <3>2 DEF InPlay, OverInv
    <3> QED
      BY <1>1, <3>1, <3>2
  <2> QED
    BY <2>1, <2>2
<1>10. HeldInv'
  <2> SUFFICES ASSUME NEW t \in 0 .. made, t \notin excused'
               PROVE  \/ \E s \in saves' : t \in s.turns
                      \/ \E p \in Paths : Intact(p) /\ t \in disk[p].turns
    BY <1>1 DEF HeldInv, Held, Intact
  <2>1. t \notin excused
    BY <1>5
  <2>2. CASE t \in Unsettled
    BY <1>1, <1>3, <2>1, <2>2 DEF Unsettled, Settling
  <2>3. CASE t \notin Unsettled
    BY <1>4, <2>1, <2>3 DEF HeldInv, Held
  <2> QED
    BY <2>2, <2>3
<1> QED
  BY <1>7, <1>8, <1>9, <1>10

LEMMA KeptNew ==
  ASSUME TypeOK, Past, OwnDisk, CopiedInv, CrossInv, OverInv, HeldInv, New
  PROVE  CopiedInv' /\ CrossInv' /\ OverInv' /\ HeldInv'
<1>1. /\ UNCHANGED <<settling, made, saves, notices, disk>> /\ NewConversation(Conversations)
      /\ excused \subseteq excused'
  BY DEF New, Replaced
<1>2. /\ \A s \in saves : s.conv # live'
      /\ \A p \in Paths : Intact(p) => disk[p].conv # live'
      /\ \A i \in DOMAIN notices : notices[i].at # generation'
      /\ path' = NoPath
  BY <1>1, KeptFresh, FreshShape
<1>3. CopiedInv' /\ CrossInv'
  BY <1>1, <1>2 DEF CopiedInv, CrossInv, Intact
<1>4. OverInv'
  BY <1>1, <1>2 DEF OverInv, MayWrite, Intact
<1>5. HeldInv'
  BY <1>1 DEF HeldInv, Held, Unsettled, Intact
<1> QED
  BY <1>3, <1>4, <1>5

LEMMA KeptOpen ==
  ASSUME TypeOK, CopiedInv, CrossInv, OverInv, HeldInv, NEW p \in Paths, ApplyLoaded(p), ~InFlight
  PROVE  CopiedInv' /\ CrossInv' /\ OverInv' /\ HeldInv'
<1>1. /\ UNCHANGED <<generation, settling, made, saves, notices, disk>> /\ path' = p
      /\ excused \subseteq excused' /\ saves = {} /\ turns' = disk[p].turns
      /\ \A i \in DOMAIN notices : notices[i].at # generation
  BY DEF ApplyLoaded, Replaced, InFlight
<1>2. CopiedInv' /\ CrossInv'
  BY <1>1 DEF CopiedInv, CrossInv
<1>3. OverInv'
  <2>1. \A q \in Paths : InPlay(q)' => q = p
    BY <1>1, NoPathAssumption DEF InPlay
  <2> QED
    BY <1>1, <2>1 DEF OverInv, Intact
<1>4. HeldInv'
  BY <1>1 DEF HeldInv, Held, Unsettled, Intact
<1> QED
  BY <1>2, <1>3, <1>4

LEMMA KeptName ==
  ASSUME TypeOK, Named, CopiedInv, CrossInv, OverInv, HeldInv, NEW s \in saves, Name(s)
  PROVE  CopiedInv' /\ CrossInv' /\ OverInv' /\ HeldInv'
<1>1. PICK r \in Save :
        /\ saves' = (saves \ {s}) \cup {r}
        /\ r.conv = s.conv /\ r.turns = s.turns /\ r.pc = s.pc
        /\ r.file \in Paths /\ s.file = NoPath
  BY NameShape
<1>2. UNCHANGED <<live, turns, path, generation, settling, made, notices, disk, excused>>
  BY DEF Name, gui
<1>3. s.pc # "write"
  BY <1>1 DEF Named
<1>4. CopiedInv' /\ CrossInv'
  BY <1>1, <1>2, <1>3 DEF CopiedInv, CrossInv, Intact
<1>5. OverInv'
  <2>1. \A p \in Paths : MayWrite(r, p) => MayWrite(s, p)
    BY <1>1, NoPathAssumption DEF MayWrite
  <2>2. \A p \in Paths : (InPlay(p)' <=> InPlay(p)) /\ (Intact(p)' <=> Intact(p))
    BY <1>2 DEF InPlay, Intact
  <2> QED
    BY <1>1, <1>2, <2>1, <2>2 DEF OverInv, MayWrite
<1>6. HeldInv'
  BY <1>1, <1>2 DEF HeldInv, Held, Unsettled, Intact
<1> QED
  BY <1>4, <1>5, <1>6

LEMMA KeptTruncate ==
  ASSUME TypeOK, Named, CopiedInv, CrossInv, OverInv, HeldInv, NEW s \in saves, Truncate(s)
  PROVE  CopiedInv' /\ CrossInv' /\ OverInv' /\ HeldInv'
<1>1. PICK r \in Save :
        /\ saves' = (saves \ {s}) \cup {r}
        /\ r.conv = s.conv /\ r.turns = s.turns /\ r.pc = "write" /\ r.file = s.file
  BY TruncateShape
<1>2. /\ s.file \in Paths /\ s.file # NoPath /\ ~Intact(s.file)'
      /\ \A p \in Paths : p # s.file => disk'[p] = disk[p]
  BY TruncateShape
<1>3. /\ UNCHANGED <<live, turns, path, generation, settling, made, notices>>
      /\ excused' = excused \cup Overwritten(s)
  BY DEF Truncate, gui
<1>4. \A p \in Paths : Intact(p)' => p # s.file /\ Intact(p) /\ disk'[p] = disk[p]
  BY <1>2 DEF Intact
<1>5. CopiedInv'
  BY <1>1, <1>3 DEF CopiedInv
<1>6. CrossInv'
  <2>2. ASSUME NEW q \in saves', NEW u \in saves', q # u, q.conv = u.conv
        PROVE  q.turns \subseteq excused'
    BY <1>1, <1>3, <2>2 DEF CrossInv
  <2>3. ASSUME NEW q \in saves', q.pc = "write", Intact(q.file)', disk'[q.file].conv = q.conv
        PROVE  q.turns \subseteq excused'
    <3>1. q # r /\ q \in saves
      BY <1>1, <1>2, <2>3
    <3>2. q.file \in Paths
      BY <2>3, <3>1, SaveTyped DEF TypeOK, Named
    <3> QED
      BY <1>3, <1>4, <2>3, <3>1, <3>2 DEF CrossInv
  <2> QED
    BY <2>2, <2>3 DEF CrossInv
<1>7. OverInv'
  <2>1. \A p \in Paths : InPlay(p)' => InPlay(p)
    BY <1>3 DEF InPlay
  <2>2. \A q \in saves' : \E u \in saves : q.conv = u.conv /\ q.turns = u.turns /\ q.file = u.file
    BY <1>1
  <2> QED
    BY <1>3, <1>4, <2>1, <2>2 DEF OverInv, MayWrite
<1>8. HeldInv'
  <2> SUFFICES ASSUME NEW t \in 0 .. made, t \notin excused' PROVE Held(t)'
    BY <1>3 DEF HeldInv
  <2>1. Held(t)
    BY <1>3 DEF HeldInv
  <2>2. CASE t \in Unsettled \/ \E q \in saves : t \in q.turns
    BY <1>1, <1>3, <2>2 DEF Held, Unsettled
  <2>3. ASSUME NEW p \in Paths, Intact(p), t \in disk[p].turns PROVE Held(t)'
    <3>1. CASE p = s.file
      <4>1. t \in s.turns
        BY <1>3, <2>3, <3>1 DEF OverInv, MayWrite, Overwritten
      <4> QED
        BY <1>1, <4>1 DEF Held
    <3>2. CASE p # s.file
      BY <1>2, <2>3, <3>2 DEF Held, Intact
    <3> QED
      BY <3>1, <3>2
  <2> QED
    BY <2>1, <2>2, <2>3 DEF Held
<1> QED
  BY <1>5, <1>6, <1>7, <1>8

LEMMA KeptWrite ==
  ASSUME TypeOK, Named, OwnTurns, OwnSaves,
         CopiedInv, CrossInv, OverInv, HeldInv, NEW s \in saves, Write(s)
  PROVE  CopiedInv' /\ CrossInv' /\ OverInv' /\ HeldInv'
<1>1. /\ s.file \in Paths /\ s.pc = "write" /\ saves' = saves \ {s}
      /\ Spoils(s) \/ Puts(s)
      /\ \A p \in Paths : p # s.file => disk'[p] = disk[p]
  BY WriteShape
<1>2. UNCHANGED <<live, turns, path, generation, settling, made>>
  BY DEF Write, gui
<1>3. Intact(s.file)' => Puts(s)
  BY <1>1 DEF Spoils
<1>4. /\ excused \ s.turns \subseteq excused'
      /\ (\E r \in saves' : r.conv = s.conv) => excused \subseteq excused'
      /\ Overwritten(s) \subseteq excused'
  BY <1>1 DEF Spoils, Puts
<1>5. \A t \in s.turns : /\ live # s.conv => t \notin turns
                         /\ \A r \in saves : r.conv # s.conv => t \notin r.turns
                         /\ \A p \in Paths : Intact(p) /\ disk[p].conv # s.conv => t \notin disk[p].turns
  BY DEF OwnTurns
<1>6. ASSUME NEW p \in Paths, Intact(p)', p # s.file PROVE Intact(p) /\ disk'[p] = disk[p]
  BY <1>1, <1>6 DEF Intact
<1>7. ASSUME NEW q \in saves', q.turns \subseteq excused PROVE q.turns \subseteq excused'
  <2>1. CASE q.conv = s.conv
    BY <1>4, <1>7, <2>1
  <2>2. CASE q.conv # s.conv
    BY <1>1, <1>4, <1>5, <1>7, <2>2
  <2> QED
    BY <2>1, <2>2
<1>8. CopiedInv'
  BY <1>1, <1>2 DEF CopiedInv
<1>9. CrossInv'
  <2>1. ASSUME NEW q \in saves', NEW r \in saves', q # r, q.conv = r.conv
        PROVE  q.turns \subseteq excused'
    <3>1. q.turns \subseteq excused
      BY <1>1, <2>1 DEF CrossInv
    <3> QED
      BY <1>7, <3>1
  <2>2. ASSUME NEW q \in saves', q.pc = "write", Intact(q.file)', disk'[q.file].conv = q.conv
        PROVE  q.turns \subseteq excused'
    <3>1. q \in saves /\ q # s /\ q.file \in Paths
      <4>1. q \in saves /\ q # s
        BY <1>1
      <4>2. q.file # NoPath
        BY <2>2, <4>1 DEF Named
      <4> QED
        BY <4>1, <4>2, SaveTyped DEF TypeOK
    <3>2. CASE q.file = s.file
      <4>1. q.conv = s.conv
        BY <1>3, <2>2, <3>2 DEF Puts
      <4>2. q.turns \subseteq excused
        BY <3>1, <4>1 DEF CrossInv
      <4> QED
        BY <1>7, <4>2
    <3>3. CASE q.file # s.file
      <4>1. Intact(q.file) /\ disk'[q.file] = disk[q.file]
        BY <1>6, <2>2, <3>1, <3>3
      <4>2. q.turns \subseteq excused
        BY <2>2, <3>1, <4>1 DEF CrossInv
      <4> QED
        BY <1>7, <4>2
    <3> QED
      BY <3>2, <3>3
  <2> QED
    BY <2>1, <2>2 DEF CrossInv
<1>10. OverInv'
  <2>1. ASSUME NEW p \in Paths, Intact(p)', NEW r \in saves',
               r.conv = disk'[p].conv, r.file \in {p, NoPath}
        PROVE  disk'[p].turns \subseteq r.turns \cup excused'
    <3>1. r \in saves /\ r # s
      BY <1>1
    <3>2. CASE p = s.file
      <4>1. disk'[p].turns = s.turns /\ r.conv = s.conv
        BY <1>3, <2>1, <3>2 DEF Puts
      <4>2. s.turns \subseteq excused
        BY <3>1, <4>1 DEF CrossInv
      <4> QED
        BY <1>4, <4>1, <4>2
    <3>3. CASE p # s.file
      <4>1. Intact(p) /\ disk'[p] = disk[p]
        BY <1>6, <2>1, <3>3
      <4>2. disk[p].turns \subseteq r.turns \cup excused
        BY <2>1, <3>1, <4>1 DEF OverInv, MayWrite
      <4>3. CASE r.conv = s.conv
        BY <1>4, <4>1, <4>2, <4>3
      <4>4. CASE r.conv # s.conv
        BY <1>4, <1>5, <2>1, <4>1, <4>2, <4>4
      <4> QED
        BY <4>3, <4>4
    <3> QED
      BY <3>2, <3>3
  <2>2. ASSUME NEW p \in Paths, Intact(p)', InPlay(p)', disk'[p].conv = live'
        PROVE  disk'[p].turns \subseteq turns' \cup excused'
    <3>1. CASE p = s.file
      <4>1. disk'[p].turns = s.turns /\ s.conv = live
        BY <1>2, <1>3, <2>2, <3>1 DEF Puts
      <4> QED
        BY <1>2, <4>1 DEF CopiedInv
    <3>2. CASE p # s.file
      <4>1. Intact(p) /\ disk'[p] = disk[p]
        BY <1>6, <2>2, <3>2
      <4>2. InPlay(p)
        BY <1>2, <2>2, <3>2, WriteNotices DEF InPlay
      <4>3. disk[p].turns \subseteq turns \cup excused
        BY <1>2, <2>2, <4>1, <4>2 DEF OverInv
      <4>4. CASE live = s.conv
        BY <1>2, <1>4, <4>1, <4>3, <4>4 DEF CopiedInv
      <4>5. CASE live # s.conv
        BY <1>2, <1>4, <1>5, <2>2, <4>1, <4>3, <4>5
      <4> QED
        BY <4>4, <4>5
    <3> QED
      BY <3>1, <3>2
  <2> QED
    BY <2>1, <2>2 DEF OverInv, MayWrite
<1>11. HeldInv'
  <2> SUFFICES ASSUME NEW t \in 0 .. made, t \notin excused' PROVE Held(t)'
    BY <1>2 DEF HeldInv
  <2>1. CASE t \in s.turns /\ Puts(s)
    BY <1>1, <2>1 DEF Held, Puts
  <2>2. CASE t \in s.turns /\ Spoils(s)
    BY <2>2 DEF Spoils
  <2>3. CASE t \notin s.turns
    <3>1. t \notin excused
      BY <1>4, <2>3
    <3>2. Held(t)
      BY <3>1 DEF HeldInv
    <3>3. CASE t \in Unsettled \/ \E r \in saves : t \in r.turns
      BY <1>1, <1>2, <2>3, <3>3 DEF Held, Unsettled
    <3>4. ASSUME NEW p \in Paths, Intact(p), t \in disk[p].turns PROVE Held(t)'
      <4>1. p # s.file
        BY <1>4, <2>3, <3>1, <3>4 DEF OverInv, MayWrite, Overwritten
      <4> QED
        BY <1>1, <3>4, <4>1 DEF Held, Intact
    <3> QED
      BY <3>2, <3>3, <3>4 DEF Held
  <2> QED
    BY <1>1, <2>1, <2>2, <2>3
<1> QED
  BY <1>8, <1>9, <1>10, <1>11

LEMMA KeptFail ==
  ASSUME TypeOK, CopiedInv, CrossInv, OverInv, HeldInv, NEW s \in saves, Fail(s)
  PROVE  CopiedInv' /\ CrossInv' /\ OverInv' /\ HeldInv'
<1>1. /\ saves' = saves \ {s} /\ excused' = excused \cup s.turns
      /\ UNCHANGED <<live, turns, path, generation, settling, made, notices, disk>>
  BY DEF Fail, gui
<1>2. CopiedInv' /\ CrossInv'
  BY <1>1 DEF CopiedInv, CrossInv, Intact
<1>3. OverInv'
  BY <1>1 DEF OverInv, InPlay, MayWrite, Intact
<1>4. HeldInv'
  BY <1>1 DEF HeldInv, Held, Unsettled, Intact
<1> QED
  BY <1>2, <1>3, <1>4

LEMMA KeptDeliver ==
  ASSUME TypeOK, CopiedInv, CrossInv, OverInv, HeldInv, Deliver
  PROVE  CopiedInv' /\ CrossInv' /\ OverInv' /\ HeldInv'
<1>1. /\ UNCHANGED <<live, turns, generation, settling, made, saves, disk, excused>>
      /\ path' = IF Head(notices).at = generation THEN Head(notices).file ELSE path
  BY DEF Deliver, history
<1>2. CopiedInv' /\ CrossInv'
  BY <1>1 DEF CopiedInv, CrossInv, Intact
<1>3. \A p \in Paths : InPlay(p)' => InPlay(p)
  BY <1>1, DeliverNotices, NoPathAssumption DEF InPlay
<1>4. OverInv'
  BY <1>1, <1>3 DEF OverInv, MayWrite, Intact
<1>5. HeldInv'
  BY <1>1 DEF HeldInv, Held, Unsettled, Intact
<1> QED
  BY <1>2, <1>4, <1>5

LEMMA KeptRestart ==
  ASSUME TypeOK, OwnDisk, CopiedInv, CrossInv, OverInv, HeldInv, Restart
  PROVE  CopiedInv' /\ CrossInv' /\ OverInv' /\ HeldInv'
<1>1. /\ saves' = {} /\ notices' = <<>> /\ settling' = FALSE /\ UNCHANGED <<made, disk>>
      /\ excused' = excused \cup Unsettled \cup UNION {s.turns : s \in saves}
  BY DEF Restart
<1>2. CopiedInv' /\ CrossInv'
  BY <1>1 DEF CopiedInv, CrossInv
<1>3. OverInv'
  <2>1. CASE Intact(newest)
    <3>1. path' = newest /\ turns' = disk[newest].turns /\ newest \in Paths
      BY <2>1 DEF Restart, TypeOK
    <3>2. \A p \in Paths : InPlay(p)' => p = newest
      BY <1>1, <3>1, NoPathAssumption DEF InPlay
    <3> QED
      BY <1>1, <3>1, <3>2 DEF OverInv, Intact
  <2>2. CASE ~Intact(newest)
    <3>1. path' = NoPath /\ Fresh(live')
      BY <2>2 DEF Restart
    <3>2. \A p \in Paths : Intact(p) => disk[p].conv # live'
      BY <3>1 DEF Fresh, OwnDisk
    <3> QED
      BY <1>1, <3>2 DEF OverInv, Intact
  <2> QED
    BY <2>1, <2>2
<1>4. HeldInv'
  BY <1>1 DEF HeldInv, Held, Unsettled, Intact
<1> QED
  BY <1>2, <1>3, <1>4

LEMMA KeptStep ==
  ASSUME TypeOK, Named, Past, Own, OwnTurns, Settling, KeptInv, [Next]_vars
  PROVE  KeptInv'
<1> SUFFICES ASSUME ~raced' PROVE CopiedInv' /\ CrossInv' /\ OverInv' /\ HeldInv'
  BY DEF KeptInv
<1>1. /\ ~raced /\ OwnPath /\ OwnSaves /\ OwnNotices /\ OwnDisk
      /\ CopiedInv /\ CrossInv /\ OverInv /\ HeldInv
  BY FlagsStay DEF KeptInv, Own
<1>2. CASE Send \/ RequestHandoff \/ Tick \/ OpenDialog \/ Dismiss
             \/ UNCHANGED vars
  <2>1. UNCHANGED <<live, turns, path, generation, settling, made, saves, notices, disk, excused>>
    BY <1>2 DEF Send, RequestHandoff, Tick, OpenDialog, Dismiss, vars, gui, history
  <2> QED
    BY <1>1, <2>1, KeptUnmoved
<1>3. CASE TurnEnds \/ TurnFails
  BY <1>1, <1>3, KeptFinished DEF TurnEnds, TurnFails
<1>4. CASE Settle
  BY <1>1, <1>4, KeptSettle
<1>5. CASE New
  BY <1>1, <1>5, KeptNew
<1>6. ASSUME NEW p \in Paths, ApplyLoaded(p) PROVE CopiedInv' /\ CrossInv' /\ OverInv' /\ HeldInv'
  <2>1. ~InFlight
    BY <1>6 DEF ApplyLoaded
  <2> QED
    BY <1>1, <1>6, <2>1, KeptOpen
<1>7. ASSUME NEW s \in saves, Name(s) \/ Truncate(s) \/ Write(s) \/ Fail(s)
      PROVE  CopiedInv' /\ CrossInv' /\ OverInv' /\ HeldInv'
  BY <1>1, <1>7, KeptName, KeptTruncate, KeptWrite, KeptFail
<1>8. CASE Deliver
  BY <1>1, <1>8, KeptDeliver
<1>9. CASE Restart
  BY <1>1, <1>9, KeptRestart
<1> QED
  BY <1>2, <1>3, <1>4, <1>5, <1>6, <1>7, <1>8, <1>9 DEF Next, Open, Choose

-----------------------------------------------------------------------------
(* A conversation has one file.                                             *)

\* No new name comes into use.
LEMMA NoNewName ==
  ASSUME OneName, \A d \in Conversations : \A p \in Paths : Used(d, p)' => Used(d, p)
  PROVE  OneName'
  BY DEF OneName

LEMMA ConvTyped == ASSUME TypeOK PROVE \A s \in saves : s.conv \in Conversations
  BY SaveTyped DEF TypeOK

LEMMA OneFileUnmoved ==
  ASSUME UNCHANGED <<live, path, generation, saves, notices, disk>>, OneName, Unnamed, PathComes
  PROVE  OneName' /\ Unnamed' /\ PathComes'
  BY DEF OneName, Unnamed, PathComes, Used, Intact

LEMMA OneFileSettle ==
  ASSUME TypeOK, Past, OwnDisk, OneName, Unnamed, PathComes, Settle, ~split'
  PROVE  OneName' /\ Unnamed' /\ PathComes'
<1>1. /\ UNCHANGED <<notices, disk>>
      /\ NewConversation(Conversations) \/ UNCHANGED <<live, turns, path, generation>>
  BY HandoffIsNew DEF Settle
<1>2. path = NoPath => saves = {} /\ \A i \in DOMAIN notices : notices[i].at # generation
  BY DEF Settle, InFlight, TypeOK
<1>3. NewConversation(Conversations) =>
        /\ \A s \in saves : s.conv # live'
        /\ live' # live
        /\ \A p \in Paths : Intact(p) => disk[p].conv # live'
        /\ \A i \in DOMAIN notices : notices[i].at # generation'
        /\ path' = NoPath
  BY KeptFresh, FreshShape DEF Fresh
<1>4. \A s \in saves' : \/ s \in saves
                        \/ s.conv = live /\ s.file = path /\ s.at = generation
  BY SettleShape
<1>5. \A s, r \in saves' : s \in saves \/ r \in saves \/ s = r
  BY SettleShape
<1>6. ASSUME NEW d \in Conversations, NEW p \in Paths, Used(d, p)' PROVE Used(d, p)
  <2>1. (Intact(p)' <=> Intact(p)) /\ disk'[p] = disk[p]
    BY <1>1 DEF Intact
  <2>2. (\E s \in saves' : s.file = p /\ s.conv = d) =>
          (\E s \in saves : s.file = p /\ s.conv = d) \/ (path = p /\ d = live)
    BY <1>4
  <2>3. CASE NewConversation(Conversations)
    BY <1>1, <1>3, <1>6, <2>1, <2>2, <2>3, NoPathAssumption DEF Used
  <2>4. CASE UNCHANGED <<live, turns, path, generation>>
    BY <1>1, <1>6, <2>1, <2>2, <2>4 DEF Used
  <2> QED
    BY <1>1, <2>3, <2>4
<1>7. OneName'
  BY <1>6, NoNewName
<1>8. Unnamed'
  <2> SUFFICES ASSUME NEW s \in saves', s.file = NoPath
               PROVE  /\ \A r \in saves' : r.conv = s.conv => r = s
                      /\ \A p \in Paths : ~Used(s.conv, p)'
    BY DEF Unnamed
  <2>1. CASE s \in saves
    <3>1. path # NoPath /\ path \in Paths
      BY <1>2, <2>1 DEF TypeOK
    <3>2. s.conv # live
      BY <2>1, <3>1 DEF Unnamed, Used
    <3>3. \A r \in saves' : r.conv = s.conv => r = s
      BY <1>4, <2>1, <3>2 DEF Unnamed
    <3>4. s.conv \in Conversations
      BY <2>1, SaveTyped DEF TypeOK
    <3> QED
      BY <1>6, <2>1, <3>3, <3>4 DEF Unnamed
  <2>2. CASE s \notin saves
    <3>1. s.conv = live /\ path = NoPath
      BY <1>4, <2>2
    <3>2. saves = {} /\ \A i \in DOMAIN notices : notices[i].at # generation
      BY <1>2, <3>1
    <3>3. \A p \in Paths : ~Used(live, p)
      BY <3>1, <3>2, NoPathAssumption DEF Used, PathComes
    <3>4. \A r \in saves' : r = s
      BY <1>5, <3>2
    <3>5. live \in Conversations
      BY DEF TypeOK
    <3> QED
      BY <1>6, <3>1, <3>3, <3>4, <3>5
  <2> QED
    BY <2>1, <2>2
<1>9. PathComes'
  <2>1. CASE NewConversation(Conversations)
    BY <1>1, <1>3, <1>4, <2>1 DEF PathComes, Intact
  <2>2. CASE UNCHANGED <<live, turns, path, generation>>
    BY <1>1, <1>4, <2>2 DEF PathComes, Intact
  <2> QED
    BY <1>1, <2>1, <2>2
<1> QED
  BY <1>7, <1>8, <1>9

LEMMA OneFileNew ==
  ASSUME TypeOK, Past, OwnDisk, OneName, Unnamed, PathComes, New
  PROVE  OneName' /\ Unnamed' /\ PathComes'
<1>1. UNCHANGED <<saves, notices, disk>> /\ NewConversation(Conversations)
  BY DEF New, Replaced
<1>2. /\ \A s \in saves : s.conv # live'
      /\ \A p \in Paths : Intact(p) => disk[p].conv # live'
      /\ \A i \in DOMAIN notices : notices[i].at # generation'
      /\ path' = NoPath
  BY <1>1, KeptFresh, FreshShape
<1>3. \A d \in Conversations : \A p \in Paths : Used(d, p)' => Used(d, p)
  BY <1>1, <1>2, NoPathAssumption DEF Used, Intact
<1>4. OneName' /\ Unnamed'
  BY <1>1, <1>3, NoNewName, ConvTyped DEF Unnamed
<1> QED
  BY <1>1, <1>2, <1>4 DEF PathComes, Intact

LEMMA OneFileOpen ==
  ASSUME TypeOK, OneName, NEW p \in Paths, ApplyLoaded(p), ~InFlight
  PROVE  OneName' /\ Unnamed' /\ PathComes'
<1>1. /\ UNCHANGED <<generation, saves, notices, disk>> /\ path' = p /\ Intact(p)
      /\ saves = {} /\ \A i \in DOMAIN notices : notices[i].at # generation
  BY DEF ApplyLoaded, Replaced, InFlight
<1>2. \A d \in Conversations : \A q \in Paths : Used(d, q)' => Used(d, q)
  BY <1>1, NoPathAssumption DEF Used, Intact, ApplyLoaded
<1> QED
  BY <1>1, <1>2, NoNewName, NoPathAssumption DEF Unnamed, PathComes

LEMMA OneFileName ==
  ASSUME TypeOK, OneName, Unnamed, PathComes, NEW s \in saves, Name(s)
  PROVE  OneName' /\ Unnamed' /\ PathComes'
<1>1. PICK r \in Save :
        /\ saves' = (saves \ {s}) \cup {r}
        /\ r.conv = s.conv /\ r.at = s.at
        /\ r.file \in Paths /\ s.file = NoPath
  BY NameShape
<1>2. UNCHANGED <<live, path, generation, notices, disk>>
  BY DEF Name, gui
<1>3. \A d \in Conversations : \A p \in Paths :
        Used(d, p)' => Used(d, p) \/ (d = s.conv /\ p = r.file)
  BY <1>1, <1>2 DEF Used, Intact
<1>4. \A p \in Paths : ~Used(s.conv, p)
  BY <1>1 DEF Unnamed
<1>5. OneName'
  BY <1>1, <1>3, <1>4 DEF OneName
<1>6. Unnamed'
  <2> SUFFICES ASSUME NEW u \in saves', u.file = NoPath
               PROVE  /\ \A v \in saves' : v.conv = u.conv => v = u
                      /\ \A p \in Paths : ~Used(u.conv, p)'
    BY DEF Unnamed
  <2>1. u \in saves /\ u # s
    BY <1>1, NoPathAssumption
  <2>2. u.conv # s.conv
    BY <1>1, <2>1 DEF Unnamed
  <2> QED
    BY <1>1, <1>3, <2>1, <2>2, ConvTyped DEF Unnamed
<1> QED
  BY <1>1, <1>2, <1>5, <1>6 DEF PathComes, Intact

LEMMA OneFileTruncate ==
  ASSUME TypeOK, OneName, Unnamed, PathComes, NEW s \in saves, Truncate(s)
  PROVE  OneName' /\ Unnamed' /\ PathComes'
<1>1. PICK r \in Save :
        /\ saves' = (saves \ {s}) \cup {r}
        /\ r.conv = s.conv /\ r.at = s.at /\ r.file = s.file
  BY TruncateShape
<1>2. s.file # NoPath /\ \A p \in Paths : Intact(p)' => Intact(p) /\ disk'[p] = disk[p]
  BY TruncateShape DEF Intact
<1>3. UNCHANGED <<live, path, generation, notices>>
  BY DEF Truncate, gui
<1>4. \A d \in Conversations : \A p \in Paths : Used(d, p)' => Used(d, p)
  BY <1>1, <1>2, <1>3 DEF Used
<1>5. Unnamed'
  <2> SUFFICES ASSUME NEW u \in saves', u.file = NoPath
               PROVE  /\ \A v \in saves' : v.conv = u.conv => v = u
                      /\ \A p \in Paths : ~Used(u.conv, p)'
    BY DEF Unnamed
  <2>1. u \in saves /\ u # s
    BY <1>1, <1>2
  <2>2. u.conv # s.conv
    BY <2>1 DEF Unnamed
  <2> QED
    BY <1>1, <1>4, <2>1, <2>2, ConvTyped DEF Unnamed
<1>6. PathComes'
  BY <1>1, <1>2, <1>3 DEF PathComes
<1> QED
  BY <1>4, <1>5, <1>6, NoNewName

LEMMA OneFileWrite ==
  ASSUME TypeOK, Named, OwnSaves, OneName, Unnamed, PathComes, NEW s \in saves, Write(s)
  PROVE  OneName' /\ Unnamed' /\ PathComes'
<1>1. /\ saves' = saves \ {s} /\ s.file \in Paths
      /\ \A p \in Paths : p # s.file => disk'[p] = disk[p]
      /\ UNCHANGED <<live, path, generation>>
  BY WriteShape DEF gui
<1>2. Intact(s.file)' => disk'[s.file].conv = s.conv
  BY WriteShape DEF Spoils, Puts
<1>3. /\ \A i \in DOMAIN notices : i \in DOMAIN notices' /\ notices'[i] = notices[i]
      /\ \E j \in DOMAIN notices' : notices'[j].at = s.at
      /\ \A i \in DOMAIN notices' :
           \/ i \in DOMAIN notices /\ notices'[i] = notices[i]
           \/ notices'[i].file = s.file /\ notices'[i].at = s.at
  BY WriteNotices
<1>4. ASSUME NEW d \in Conversations, NEW p \in Paths, Used(d, p)' PROVE Used(d, p)
  <2>1. Intact(p)' /\ p # s.file => Intact(p) /\ disk'[p] = disk[p]
    BY <1>1 DEF Intact
  <2>2. s.at = generation => s.conv = live
    BY DEF OwnSaves
  <2> QED
    BY <1>1, <1>2, <1>3, <1>4, <2>1, <2>2 DEF Used
<1>5. OneName' /\ Unnamed'
  BY <1>1, <1>4, NoNewName, ConvTyped DEF Unnamed
<1>6. PathComes'
  <2> SUFFICES ASSUME path = NoPath
               PROVE  /\ \A r \in saves' : r.conv = live => r.at = generation
                      /\ \A p \in Paths : Intact(p)' /\ disk'[p].conv = live =>
                           \E i \in DOMAIN notices' : notices'[i].at = generation
    BY <1>1 DEF PathComes
  <2>1. \A r \in saves' : r.conv = live => r.at = generation
    BY <1>1 DEF PathComes
  <2>2. ASSUME NEW p \in Paths, Intact(p)', disk'[p].conv = live
        PROVE  \E i \in DOMAIN notices' : notices'[i].at = generation
    <3>1. CASE p = s.file
      <4>1. s.at = generation
        BY <1>2, <2>2, <3>1 DEF PathComes
      <4> QED
        BY <1>3, <4>1
    <3>2. CASE p # s.file
      <4>1. Intact(p) /\ disk'[p] = disk[p]
        BY <1>1, <2>2, <3>2 DEF Intact
      <4> QED
        BY <1>3, <2>2, <4>1 DEF PathComes
    <3> QED
      BY <3>1, <3>2
  <2> QED
    BY <2>1, <2>2
<1> QED
  BY <1>5, <1>6

LEMMA OneFileDeliver ==
  ASSUME TypeOK, OneName, Unnamed, PathComes, Deliver
  PROVE  OneName' /\ Unnamed' /\ PathComes'
<1>1. /\ UNCHANGED <<live, generation, saves, disk>>
      /\ path' = IF Head(notices).at = generation THEN Head(notices).file ELSE path
  BY DEF Deliver
<1>2. \A d \in Conversations : \A p \in Paths : Used(d, p)' => Used(d, p)
  BY <1>1, DeliverNotices DEF Used, Intact
<1>3. OneName' /\ Unnamed'
  BY <1>1, <1>2, NoNewName, ConvTyped DEF Unnamed
<1>4. PathComes'
  <2> SUFFICES ASSUME path' = NoPath
               PROVE  /\ \A r \in saves : r.conv = live => r.at = generation
                      /\ \A p \in Paths : Intact(p) /\ disk[p].conv = live =>
                           \E i \in DOMAIN notices' : notices'[i].at = generation
    BY <1>1 DEF PathComes, Intact
  <2>1. path = NoPath /\ notices[1].at # generation
    BY <1>1, DeliverNotices, NoPathAssumption
  <2> QED
    BY <2>1, DeliverNotices DEF PathComes
<1> QED
  BY <1>3, <1>4

LEMMA OneFileRestart ==
  ASSUME TypeOK, OwnDisk, OneName, Restart
  PROVE  OneName' /\ Unnamed' /\ PathComes'
<1>1. saves' = {} /\ notices' = <<>> /\ disk' = disk
  BY DEF Restart
<1>2. path' = NoPath \/ (path' = newest /\ Intact(newest) /\ newest \in Paths)
  BY DEF Restart, TypeOK
<1>3. path' = NoPath => \A p \in Paths : Intact(p) => disk[p].conv # live'
  <2>1. path' = NoPath => Fresh(live')
    BY NoPathAssumption DEF Restart, TypeOK
  <2> QED
    BY <2>1 DEF Fresh, OwnDisk
<1>4. \A d \in Conversations : \A p \in Paths : Used(d, p)' => Used(d, p)
  BY <1>1, <1>2, NoPathAssumption DEF Used, Intact, Restart, TypeOK
<1> QED
  BY <1>1, <1>3, <1>4, NoNewName DEF Unnamed, PathComes, Intact

LEMMA NameStep ==
  ASSUME TypeOK, Named, Past, Own, NameInv, [Next]_vars
  PROVE  NameInv'
<1> SUFFICES ASSUME ~raced', ~split' PROVE OneName' /\ Unnamed' /\ PathComes'
  BY DEF NameInv
<1>1. OwnPath /\ OwnSaves /\ OwnDisk /\ OneName /\ Unnamed /\ PathComes
  BY FlagsStay DEF NameInv, Own
<1>2. CASE Send \/ RequestHandoff \/ TurnEnds \/ TurnFails \/ Tick \/ OpenDialog \/ Dismiss
             \/ UNCHANGED vars
  <2>1. UNCHANGED <<live, path, generation, saves, notices, disk>>
    BY <1>2 DEF Send, RequestHandoff, TurnEnds, TurnFails, Finished, Tick, OpenDialog, Dismiss, vars, gui
  <2> QED
    BY <1>1, <2>1, OneFileUnmoved
<1>3. CASE Settle
  BY <1>1, <1>3, OneFileSettle
<1>4. CASE New
  BY <1>1, <1>4, OneFileNew
<1>5. ASSUME NEW p \in Paths, ApplyLoaded(p) PROVE OneName' /\ Unnamed' /\ PathComes'
  <2>1. ~InFlight
    BY <1>5 DEF ApplyLoaded
  <2> QED
    BY <1>1, <1>5, <2>1, OneFileOpen
<1>6. ASSUME NEW s \in saves, Name(s) \/ Truncate(s) \/ Write(s)
      PROVE  OneName' /\ Unnamed' /\ PathComes'
  BY <1>1, <1>6, OneFileName, OneFileTruncate, OneFileWrite
<1>7. ASSUME NEW s \in saves, Fail(s) PROVE OneName' /\ Unnamed' /\ PathComes'
  <2>1. saves' = saves \ {s} /\ UNCHANGED <<live, path, generation, notices, disk>>
    BY <1>7 DEF Fail, gui
  <2>2. \A d \in Conversations : \A p \in Paths : Used(d, p)' => Used(d, p)
    BY <2>1 DEF Used, Intact
  <2> QED
    BY <1>1, <2>1, <2>2, NoNewName, ConvTyped DEF Unnamed, PathComes, Intact
<1>8. CASE Deliver
  BY <1>1, <1>8, OneFileDeliver
<1>9. CASE Restart
  BY <1>1, <1>9, OneFileRestart
<1> QED
  BY <1>2, <1>3, <1>4, <1>5, <1>6, <1>7, <1>8, <1>9 DEF Next, Open, Choose

LEMMA InitKept == Init => KInv
<1> SUFFICES ASSUME Init PROVE KInv
  OBVIOUS
<1>1. PICK p \in Paths :
        /\ path = p /\ live = First /\ turns = {0} /\ made = 0 /\ ~settling
        /\ saves = {} /\ notices = <<>> /\ excused = {}
        /\ disk = [q \in Paths |-> IF q = p THEN [conv |-> First, turns |-> {0}] ELSE Absent]
  BY FirstPath DEF Init
<1>2. /\ \A q \in Paths : Intact(q) => q = p
      /\ Intact(p) /\ disk[p].conv = First /\ disk[p].turns = {0}
  <2>1. [conv |-> First, turns |-> {0}] \in Content
    BY FirstAssumption, BoundAssumption DEF Content, Turns
  <2> QED
    BY <1>1, <2>1, ContentAssumption DEF Intact
<1>3. 0 \in 0 .. made /\ \A t \in 0 .. made : t = 0
  BY <1>1
<1>4. Finite /\ Settling
  BY <1>1, <1>2, <1>3 DEF Finite, Settling
<1>5. OwnTurns
  <2> DEFINE of == [t \in Turns |-> First]
  <2>1. of \in [Turns -> Conversations] /\ of[0] = First
    BY FirstAssumption, BoundAssumption DEF Turns
  <2> HIDE DEF of
  <2> QED
    BY <1>1, <1>2, <2>1 DEF OwnTurns
<1>6. KeptInv
  BY <1>1, <1>2, <1>3 DEF KeptInv, CopiedInv, CrossInv, OverInv, HeldInv, Held
<1>7. NameInv
  BY <1>1, <1>2, NoPathAssumption DEF NameInv, OneName, Unnamed, PathComes, Used
<1> QED
  BY <1>4, <1>5, <1>6, <1>7 DEF KInv

-----------------------------------------------------------------------------
(* The theorems.                                                            *)

THEOREM Inductive == Spec => []IInv
<1>1. Init => IInv
  BY InitTyped, InitOwn DEF IInv
<1>2. IInv /\ [Next]_vars => IInv'
  BY TypeStep, NamedStep, PastStep, OwnStep DEF IInv
<1> QED
  BY <1>1, <1>2, PTL DEF Spec

\* Every variable keeps its type, whatever the conversations and the bounds.
THEOREM TypeCorrect == Spec => []TypeOK
<1>1. IInv => TypeOK
  BY DEF IInv
<1> QED
  BY <1>1, Inductive, PTL

\* Saves, notices, New, handoffs, failures and restarts cross each other in any
\* number: unless a conversation is opened while a save is on its way, no file
\* ever holds a conversation that did not take its name.
THEOREM FilesAreOwn == Spec => []OwnFile
<1>1. IInv => OwnFile
  BY DEF IInv, Own, OwnDisk, OwnFile
<1> QED
  BY <1>1, Inductive, PTL

\* A finished turn starts a fresh conversation only as the answer to the handoff
\* request of that very turn, unless a request was refused, stopped or overtaken.
THEOREM HandoffIsAsked == Spec => HandoffAsked
<1>1. Init => Requested
  BY DEF Init, Requested
<1>2. IInv /\ Requested /\ [Next]_vars => Requested'
  BY RequestedStep DEF IInv
<1>3. IInv /\ Requested /\ [Next]_vars
        => [Settle /\ generation' # generation /\ ~stray => asked /\ made \in turns]_vars
  BY DEF Settle, Handoff, Requested
<1> QED
  BY <1>1, <1>2, <1>3, Inductive, PTL DEF Spec, HandoffAsked

\* Saves may cross, fail or be cut off, and the screen may move on meanwhile: a
\* finished turn nothing excuses is in a readable file when the saves are done,
\* and its conversation has one file, unless two threads named theirs independently.
THEOREM FinishedTurnsKept == Spec => []TurnsKept
<1>1. IInv /\ KInv /\ [Next]_vars => KInv'
  BY FiniteStep, OwnTurnsStep, SettlingStep, KeptStep, NameStep DEF IInv, KInv
<1>2. KInv => TurnsKept
  <2> SUFFICES ASSUME KInv PROVE TurnsKept
    OBVIOUS
  <2>1. OneFile
    <3>1. \A p \in Paths : Intact(p) => disk[p].conv \in Conversations
      BY DEF Intact, Content
    <3> QED
      BY <3>1 DEF KInv, NameInv, OneName, Used, OneFile
  <2>2. ASSUME ~raced, ~settling, saves = {}, NEW t \in 0 .. made \ excused
        PROVE  \E p \in Paths : Intact(p) /\ t \in disk[p].turns
    BY <2>2 DEF KInv, KeptInv, HeldInv, Held, Unsettled
  <2> QED
    BY <2>1, <2>2 DEF TurnsKept
<1> QED
  BY <1>1, <1>2, InitKept, Inductive, PTL DEF Spec

-----------------------------------------------------------------------------
(* The other files Aura keeps, Authoring: the Agents' definitions, their   *)
(* grants, and the Workflows with the history of their edits.              *)

\* What Authoring assumes of its constants.
KeepingAssumed ==
  /\ Saved \cap Team = {} /\ Saved \cap Unborn = {} /\ Team \cap Unborn = {}
  /\ {"none", "workflow", "rename", "team"} \cap Agents = {}
  /\ Limit \in Nat \ {0, 1} /\ MaxEdits \in Nat /\ MaxChanges \in Nat /\ MaxFaults \in Nat
  /\ Reuses \subseteq SUBSET Agents /\ Lossy \subseteq SUBSET (Team \cup Unborn)

\* The fields of a job.
Fields == {"pc", "kind", "facts", "left", "graph", "base", "read"}

\* What the stores and the jobs are made of.
StoresInv ==
  /\ DOMAIN job = Threads
  /\ \A t \in Threads :
       /\ DOMAIN job[t] = Fields
       /\ job[t].pc \in {"idle", "define", "load", "save", "commit", "tell"}
       /\ job[t].left \subseteq job[t].facts.new /\ job[t].facts.new \subseteq Agents
       /\ job[t].read \in [Agents -> Grant]
       /\ Free(t) => job[t].facts.new = {}
  /\ lossy \in Lossy
  /\ defs \in [Agents -> {"none", "own", "altered", "edited"}]
  /\ \A a \in Agents : defs[a] \in {"none", "edited", ReadBack(a)}
  /\ grants \in [Agents -> Grant] /\ wish \in [Agents -> Grant]
  /\ files \subseteq {"team", "new"} /\ kept \subseteq Team \cup {"team"}
  /\ turn \in BOOLEAN /\ dialog \in Agents \cup {"none", "workflow", "rename"}
  /\ ~turn => Free("tool") /\ built = NoBuild
  /\ changes \in 0 .. MaxChanges
  /\ born \subseteq Unborn /\ told \subseteq Agents
  /\ crossed \in BOOLEAN

\* The window is in the middle of deleting an Agent.
Deletes == ~Free("gui") /\ job["gui"].kind = "delete"

\* Thread t is in the middle of keeping something.
Keeps(t) == ~Free(t) /\ job[t].kind # "delete"

\* What each thread may be in the middle of: the tool thread keeps Agents born of
\* builds, the GUI thread generated ones, or deletes one.
Tasks ==
  /\ job["tool"].facts.new \subseteq Unborn \cap born /\ job["tool"].kind # "delete"
  /\ ~Free("tool") => job["tool"].kind \in {"new", "update"}
  /\ ~Free("gui") => dialog = "none" /\ job["gui"].kind \in {"team", "agent", "delete"}
  /\ Keeps("gui") => job["gui"].facts.new \subseteq Team
  /\ built.facts.new \subseteq Unborn \cap born
  /\ built # NoBuild => built.kind \in {"new", "update"}
  /\ \A a \in built.facts.new : built.facts.asked[a] = "write"

\* Agents a person is asked about deleting, or whose grant is being forgotten.
Doomed ==
  {a \in Agents : dialog = a \/ (Deletes /\ a \in job["gui"].facts.new)}

\* An Agent that is about to go is not being kept by the tool thread, and one that
\* goes was neither reported nor granted anything since.
Departing ==
  /\ Doomed \cap (job["tool"].facts.new \cup built.facts.new) = {}
  /\ (Doomed \cup Defined) \cap Unborn \subseteq born
  /\ Deletes =>
       /\ job["gui"].pc \in {"load", "save"} /\ changes # 0
       /\ \A a \in job["gui"].facts.new : a \notin told /\ wish[a] = "none"

\* A person grants something to Agents that are there; what is being kept was found
\* not to contradict that.
Wishes ==
  /\ \A a \in Agents : wish[a] # "none" => a \in Defined
  /\ \A t \in Threads : Keeps(t) /\ ~crossed =>
       \A a \in job[t].facts.new : wish[a] \in {"none", "write"}

\* How far a job is: what was read is still so, what was defined stays, and after
\* its save the grants are written.
Progress ==
  \A t \in Threads :
    /\ job[t].pc = "define" \/ job[t].left = {}
    /\ job[t].pc = "save" /\ ~crossed => \A a \in job[t].facts.new : job[t].read[a] = grants[a]
    /\ Keeps(t) =>
         /\ \A a \in job[t].facts.new \ job[t].left : defs[a] = ReadBack(a)
         /\ job[t].pc \in {"commit", "tell"} /\ ~crossed => \A a \in job[t].facts.new : grants[a] = "write"
         /\ job[t].kind = "team" /\ job[t].pc = "tell" => "team" \in files

\* Grants no person has touched.
Plain(g) == \A a \in Agents : g[a] = "none" \/ (a \notin Saved /\ g[a] = "write")

\* As long as a person changed nothing, the stores hold only what was kept.
Untouched ==
  changes = 0 =>
    /\ \A a \in Agents : defs[a] \in {"none", ReadBack(a)}
    /\ \A a \in Saved : defs[a] = "own"
    /\ Plain(grants) /\ \A t \in Threads : Plain(job[t].read)

\* The stores and the jobs; inductive.
KeepInv ==
  /\ KeepingAssumed /\ StoresInv /\ Tasks /\ Departing /\ Wishes /\ Progress /\ Untouched
  /\ KeptIsThere /\ WishesStand

\* All that KeepInv reads, but the open question.
Stand == <<defs, grants, files, kept, built, turn, job, changes, born, wish, told, crossed>>

\* A step that leaves these alone leaves KeepInv.
LEMMA Standing ==
  ASSUME KeepInv, UNCHANGED lossy, UNCHANGED Stand, dialog' \in {dialog, "none"}
  PROVE  KeepInv'
<1>1. /\ UNCHANGED defs /\ UNCHANGED grants /\ UNCHANGED files /\ UNCHANGED kept /\ UNCHANGED built
      /\ UNCHANGED turn /\ UNCHANGED job /\ UNCHANGED changes /\ UNCHANGED born /\ UNCHANGED wish
      /\ UNCHANGED told /\ UNCHANGED crossed
  BY DEF Stand
<1>2. (StoresInv /\ KeepingAssumed)'
  BY <1>1 DEF KeepInv, StoresInv, KeepingAssumed, Free, ReadBack
<1>3. Tasks'
  BY <1>1 DEF KeepInv, Tasks, Free, Keeps
<1>4. Doomed' \subseteq Doomed /\ (Deletes' <=> Deletes) /\ Defined' = Defined
  BY <1>1 DEF KeepInv, KeepingAssumed, Doomed, Deletes, Free, Defined
<1>5. Departing'
  BY <1>1, <1>4 DEF KeepInv, Departing
<1>6. Wishes' /\ Progress' /\ Untouched'
  BY <1>1, <1>4 DEF KeepInv, Wishes, Progress, ReadBack, Untouched, Plain, Keeps, Free
<1>7. KeptIsThere' /\ WishesStand'
  BY <1>1 DEF KeepInv, KeptIsThere, ReadBack, WishesStand
<1> QED BY <1>2, <1>3, <1>5, <1>6, <1>7 DEF KeepInv

\* Edits of the graph are such steps.
LEMMA GraphOnly ==
  ASSUME \/ CanvasEdit \/ CanvasStep \/ CardUndo \/ Redraw \/ Decline \/ Rename \/ DeleteWorkflow
         \/ Inspect \/ ToolUndo \/ WrittenOutside \/ UNCHANGED authoringVars
  PROVE  UNCHANGED Stand /\ dialog' \in {dialog, "none"}
BY DEF CanvasEdit, CanvasStep, CardUndo, Redraw, Decline, Rename, DeleteWorkflow, Inspect,
   ToolUndo, WrittenOutside, Commit, SaveEdit, SaveFails, SaveStep, authoringVars, stores, window,
   turnVars, counts, ghosts, Stand

\* The job that Start makes.
LEMMA Starting ==
  ASSUME DOMAIN job = Threads, NEW t \in Threads, NEW kind, NEW f, NEW g, NEW base,
         StartKeeping(t, kind, f, g, base)
  PROVE  /\ DOMAIN job' = Threads /\ DOMAIN job'[t] = Fields
         /\ job'[t].pc = (IF f.new = {} THEN "commit" ELSE "define")
         /\ job'[t].kind = kind /\ job'[t].facts = f /\ job'[t].left = f.new
         /\ job'[t].graph = g /\ job'[t].base = base /\ job'[t].read = NoGrants
         /\ \A s \in Threads \ {t} : job'[s] = job[s]
BY DEF StartKeeping, Idle, Fields

\* Turns, questions, and what a person changes about Agents.
LEMMA WindowStep ==
  ASSUME KeepInv, UNCHANGED lossy,
         \/ TurnStarts \/ TurnIsOver \/ \E q \in Agents \cup {"workflow", "rename"} : Question(q)
         \/ \E a \in Agents : EditAgent(a) \/ \E p \in {"read", "write"} : SetPermission(a, p)
  PROVE  KeepInv'
<1>0. /\ KeepingAssumed /\ StoresInv /\ Tasks /\ Departing /\ Wishes /\ Progress /\ Untouched
      /\ KeptIsThere /\ WishesStand
  BY DEF KeepInv
<1>k. KeepingAssumed'
  BY <1>0 DEF KeepingAssumed
<1>1. /\ UNCHANGED <<files, kept, job, born, crossed>> /\ Free("gui")
      /\ Free("tool") \/ TurnStarts
  BY <1>0 DEF TurnStarts, TurnIsOver, Question, EditAgent, SetPermission, Allowed, AtWindow,
     StoresInv, stores, window, turnVars, counts, ghosts
<1>2. CASE TurnStarts
  <2>1. UNCHANGED <<defs, grants, files, kept, built, dialog, job, changes, born, wish, told, crossed>>
        /\ turn' = TRUE
    BY <1>2 DEF TurnStarts, stores, window, counts, ghosts
  <2>2. StoresInv' /\ Tasks' /\ Wishes' /\ Progress' /\ Untouched' /\ KeptIsThere' /\ WishesStand'
    BY <1>0, <2>1 DEF StoresInv, Tasks, Wishes, Progress, ReadBack, Untouched, KeptIsThere, WishesStand,
       Plain, Free, Keeps, Defined
  <2>3. Departing'
    BY <1>0, <2>1 DEF Departing, Doomed, Deletes, Free, Defined
  <2> QED BY <1>k, <2>2, <2>3 DEF KeepInv
<1>3. CASE TurnIsOver
  <2>1. /\ UNCHANGED <<defs, grants, files, kept, dialog, job, changes, born, wish, told, crossed>>
        /\ turn' = FALSE /\ built' = NoBuild
    BY <1>3 DEF TurnIsOver, stores, window, counts, ghosts
  <2>2. NoBuild.facts.new = {}
    BY DEF NoBuild, NoFacts
  <2>3. StoresInv' /\ Wishes' /\ Progress' /\ Untouched' /\ KeptIsThere' /\ WishesStand'
    <3>1. StoresInv'
      BY <1>0, <1>3, <2>1 DEF ReadBack, StoresInv, Free, TurnIsOver
    <3>2. Wishes' /\ Progress' /\ Untouched' /\ KeptIsThere' /\ WishesStand'
      BY <1>0, <2>1 DEF Wishes, Progress, ReadBack, Untouched, KeptIsThere, WishesStand, Plain, Free, Keeps,
         Defined
    <3> QED BY <3>1, <3>2
  <2>4. Tasks'
    BY <1>0, <2>1, <2>2 DEF Tasks, Free, Keeps
  <2>5. Departing'
    BY <1>0, <2>1, <2>2 DEF Departing, Doomed, Deletes, Free, Defined
  <2> QED BY <1>k, <2>3, <2>4, <2>5 DEF KeepInv
<1>4. ASSUME NEW q \in Agents \cup {"workflow", "rename"}, Question(q) PROVE KeepInv'
  <2>1. /\ UNCHANGED <<defs, grants, files, kept, built, turn, job, changes, born, wish, told, crossed>>
        /\ dialog' = q /\ ~turn /\ Free("gui") /\ Free("tool") /\ built = NoBuild
        /\ q \in Defined \/ q \in {"workflow", "rename"}
    BY <1>0, <1>4 DEF Question, Allowed, AtWindow, StoresInv, stores, turnVars, counts, ghosts
  <2>2. NoBuild.facts.new = {}
    BY DEF NoBuild, NoFacts
  <2>3. StoresInv' /\ Wishes' /\ Progress' /\ Untouched' /\ KeptIsThere' /\ WishesStand'
    BY <1>0, <2>1 DEF StoresInv, Wishes, Progress, ReadBack, Untouched, KeptIsThere, WishesStand, Plain,
       Free, Keeps, Defined
  <2>4. Tasks'
    BY <1>0, <2>1 DEF Tasks, Free, Keeps
  <2>5. Departing'
    <3>1. Doomed' \subseteq Defined
      BY <1>0, <2>1 DEF Doomed, Deletes, Free, KeepingAssumed
    <3>2. /\ Defined' = Defined /\ ~Deletes' /\ job'["tool"].facts.new = job["tool"].facts.new
          /\ built'.facts.new = {}
      BY <2>1, <2>2 DEF Deletes, Free, Defined
    <3>3. job["tool"].facts.new = {}
      BY <1>0, <2>1 DEF StoresInv, Threads
    <3> QED BY <1>0, <2>1, <3>1, <3>2, <3>3 DEF Departing
  <2> QED BY <1>k, <2>3, <2>4, <2>5 DEF KeepInv
<1>5. ASSUME NEW a \in Agents, EditAgent(a) PROVE KeepInv'
  <2>1. /\ UNCHANGED <<grants, files, kept, built, turn, dialog, job, born, wish, crossed>>
        /\ defs' = [defs EXCEPT ![a] = "edited"] /\ defs[a] \in {"own", "altered"} /\ told' = told \ {a}
        /\ changes' = changes + 1 /\ changes < MaxChanges
        /\ Free("gui") /\ Free("tool") /\ dialog = "none"
    BY <1>0, <1>5 DEF EditAgent, Allowed, AtWindow, StoresInv, Changed, window, turnVars
  <2>2. StoresInv' /\ Defined' = Defined
    <3>1. \A b \in Agents : ReadBack(b)' = ReadBack(b) /\ ReadBack(b) # "none"
      BY DEF ReadBack
    <3>2. /\ defs' \in [Agents -> {"none", "own", "altered", "edited"}]
          /\ \A b \in Agents : defs'[b] \in {"none", "edited", ReadBack(b)'}
      BY <1>0, <2>1, <3>1 DEF StoresInv
    <3>3. Defined' = Defined
      BY <1>0, <2>1 DEF StoresInv, Defined
    <3> QED BY <1>0, <2>1, <3>2, <3>3 DEF StoresInv, KeepingAssumed, Free
  <2>3. Wishes' /\ Progress' /\ WishesStand'
    BY <1>0, <2>1, <2>2 DEF Wishes, Progress, ReadBack, WishesStand, Free, Keeps, StoresInv, Threads
  <2>4. KeptIsThere'
    BY <1>0, <2>1 DEF KeptIsThere, ReadBack, StoresInv
  <2>5. Untouched'
    BY <1>0, <2>1 DEF Untouched, ReadBack, KeepingAssumed, StoresInv
  <2>6. Tasks' /\ Departing'
    BY <1>0, <2>1, <2>2 DEF Tasks, Free, Keeps, Departing, Doomed, Deletes
  <2> QED BY <1>k, <2>2, <2>3, <2>4, <2>5, <2>6 DEF KeepInv
<1>6. ASSUME NEW a \in Agents, NEW p \in {"read", "write"}, SetPermission(a, p) PROVE KeepInv'
  <2>1. /\ UNCHANGED <<defs, files, kept, built, turn, dialog, job, born, crossed>>
        /\ grants' = [grants EXCEPT ![a] = p] /\ wish' = [wish EXCEPT ![a] = p]
        /\ a \in Defined /\ told' = told \ {a}
        /\ changes' = changes + 1 /\ changes < MaxChanges
        /\ Free("gui") /\ Free("tool") /\ dialog = "none"
    BY <1>0, <1>6 DEF SetPermission, Allowed, AtWindow, StoresInv, Changed, window, turnVars
  <2>2. StoresInv' /\ Defined' = Defined
    <3>1. grants' \in [Agents -> Grant] /\ wish' \in [Agents -> Grant]
      BY <1>0, <2>1 DEF ReadBack, StoresInv, Grant
    <3> QED BY <1>0, <2>1, <3>1 DEF StoresInv, KeepingAssumed, Free, Defined, ReadBack
  <2>3. Wishes' /\ Progress' /\ WishesStand'
    BY <1>0, <2>1, <2>2 DEF Wishes, Progress, ReadBack, WishesStand, Free, Keeps, StoresInv, Threads
  <2>4. KeptIsThere'
    BY <1>0, <2>1 DEF KeptIsThere, ReadBack, StoresInv
  <2>5. Untouched'
    BY <1>0, <2>1 DEF Untouched, ReadBack, KeepingAssumed, StoresInv
  <2>6. Tasks' /\ Departing'
    BY <1>0, <2>1, <2>2 DEF Tasks, Free, Keeps, Departing, Doomed, Deletes
  <2> QED BY <1>k, <2>2, <2>3, <2>4, <2>5, <2>6 DEF KeepInv
<1> QED BY <1>2, <1>3, <1>4, <1>5, <1>6

\* Deleting: no job is left that keeps the Agent.
LEMMA DeleteStep ==
  ASSUME KeepInv, UNCHANGED lossy, NEW a \in Agents, DeleteAgent(a)
  PROVE  KeepInv'
<1>0. /\ KeepingAssumed /\ StoresInv /\ Tasks /\ Departing /\ Wishes /\ Progress /\ Untouched
      /\ KeptIsThere /\ WishesStand
  BY DEF KeepInv
<1>k. KeepingAssumed'
  BY <1>0 DEF KeepingAssumed
<1>1. /\ UNCHANGED <<grants, files, kept, built, turn, born, crossed>>
      /\ dialog = a /\ a \in Defined /\ dialog' = "none"
      /\ defs' = [defs EXCEPT ![a] = "none"] /\ wish' = [wish EXCEPT ![a] = "none"]
      /\ changes' = changes + 1 /\ changes < MaxChanges /\ told' = told \ {a}
  BY DEF DeleteAgent, Changed, turnVars
<1>2. a # "none" /\ Free("gui") /\ a \in Doomed /\ ~Deletes
  BY <1>0, <1>1 DEF KeepingAssumed, Tasks, Doomed, Deletes
<1>3. /\ DOMAIN job' = Threads /\ DOMAIN job'["gui"] = Fields /\ job'["tool"] = job["tool"]
      /\ job'["gui"].pc = "load" /\ job'["gui"].kind = "delete" /\ job'["gui"].facts.new = {a}
      /\ job'["gui"].left = {} /\ job'["gui"].read = NoGrants
  BY <1>0 DEF DeleteAgent, Idle, NoFacts, Facts, StoresInv, Fields, Threads
<1>4. Deletes' /\ Doomed' = {a} /\ Defined' = Defined \ {a}
  BY <1>0, <1>1, <1>2, <1>3 DEF Deletes, Doomed, Free, Defined, KeepingAssumed, StoresInv
<1>5. NoGrants \in [Agents -> Grant] /\ Plain(NoGrants)
  BY DEF NoGrants, Grant, Plain
<1>6. StoresInv'
  BY <1>0, <1>1, <1>3, <1>5 DEF ReadBack, StoresInv, KeepingAssumed, Free, Grant, Threads
<1>7. Tasks'
  BY <1>0, <1>1, <1>2, <1>3 DEF Tasks, Free, Keeps
<1>8. Departing'
  BY <1>0, <1>1, <1>2, <1>3, <1>4 DEF Departing, StoresInv, KeepingAssumed
<1>9. Wishes' /\ WishesStand'
  BY <1>0, <1>1, <1>2, <1>3, <1>4 DEF Wishes, WishesStand, Keeps, Free, Threads, StoresInv
<1>10. Progress'
  <2>1. a \notin job["tool"].facts.new
    BY <1>0, <1>2 DEF Departing
  <2> QED BY <1>0, <1>1, <1>3, <2>1 DEF Progress, ReadBack, Keeps, Free, Threads, StoresInv
<1>11. Untouched' /\ KeptIsThere'
  BY <1>0, <1>1 DEF Untouched, ReadBack, KeptIsThere, KeepingAssumed, StoresInv
<1> QED BY <1>k, <1>6, <1>7, <1>8, <1>9, <1>10, <1>11 DEF KeepInv

\* A job that begins, for whichever thread: the preflight found that no choice of a
\* person speaks against it.
LEMMA Begun ==
  ASSUME KeepInv, UNCHANGED lossy, NEW t \in Threads, NEW kind, NEW f, NEW g, NEW base, Free(t),
         StartKeeping(t, kind, f, g, base), \A a \in f.new : f.asked[a] = "write",
         UNCHANGED <<defs, grants, files, kept, turn, dialog, changes, wish, told, crossed>>,
         born \subseteq born', born' \subseteq Unborn,
         t = "tool" => /\ turn /\ f.new \subseteq Unborn \cap born' /\ f.new \cap Doomed = {}
                       /\ kind \in {"new", "update"},
         t = "gui" => f.new \subseteq Team /\ dialog = "none" /\ kind \in {"team", "agent"},
         built' = built \/ (turn /\ built'.kind \in {"new", "update"} /\ built'.facts = f /\ t = "tool")
  PROVE  KeepInv'
<1>0. /\ KeepingAssumed /\ StoresInv /\ Tasks /\ Departing /\ Wishes /\ Progress /\ Untouched
      /\ KeptIsThere /\ WishesStand
  BY DEF KeepInv
<1>k. KeepingAssumed'
  BY <1>0 DEF KeepingAssumed
<1>1. /\ DOMAIN job' = Threads /\ DOMAIN job'[t] = Fields
      /\ job'[t].pc = (IF f.new = {} THEN "commit" ELSE "define")
      /\ job'[t].kind = kind /\ job'[t].facts = f /\ job'[t].left = f.new /\ job'[t].read = NoGrants
      /\ \A s \in Threads \ {t} : job'[s] = job[s]
  BY <1>0, Starting DEF StoresInv
<1>2. f.new \subseteq Agents /\ kind # "delete" /\ Threads = {"tool", "gui"}
  BY DEF Agents, Threads
<1>3. (Deletes' <=> Deletes) /\ Defined' = Defined
  BY <1>1, <1>2 DEF Deletes, Free, Defined
<1>4. Doomed' = Doomed
  BY <1>0, <1>1, <1>2, <1>3 DEF Doomed, Deletes, Free
<1>5. NoGrants \in [Agents -> Grant] /\ Plain(NoGrants)
  BY DEF NoGrants, Grant, Plain
<1>6. StoresInv'
  BY <1>0, <1>1, <1>2, <1>5 DEF ReadBack, StoresInv, Free
<1>7. Tasks'
  BY <1>0, <1>1, <1>2 DEF Tasks, Free, Keeps
<1>8. Departing'
  BY <1>0, <1>1, <1>2, <1>3, <1>4 DEF Departing, Deletes, Free
<1>9. ~crossed => \A a \in f.new : wish[a] \in {"none", "write"}
  <2>1. ASSUME ~crossed, NEW a \in f.new, wish[a] # "none" PROVE wish[a] = "write"
    <3>1. a \in Defined /\ grants[a] = wish[a]
      BY <1>0, <1>2, <2>1 DEF Wishes, WishesStand
    <3>2. Permission(a) = "write" \/ grants[a] = "none"
      BY <2>1, <3>1 DEF StartKeeping, Preflight
    <3> QED BY <2>1, <3>1, <3>2 DEF Permission
  <2> QED BY <2>1
<1>10. Wishes' /\ WishesStand'
  BY <1>0, <1>1, <1>2, <1>3, <1>9 DEF Wishes, WishesStand, Keeps, Free
<1>11. Progress'
  BY <1>0, <1>1, <1>2 DEF Progress, ReadBack, Keeps, Free
<1>12. Untouched' /\ KeptIsThere'
  BY <1>0, <1>1, <1>5 DEF Untouched, ReadBack, KeptIsThere, Plain
<1> QED BY <1>k, <1>6, <1>7, <1>8, <1>10, <1>11, <1>12 DEF KeepInv

\* Keep, Save Agent, Build and Retry begin one.
LEMMA BeginStep ==
  ASSUME KeepInv, UNCHANGED lossy,
         \/ Keep \/ \E a \in Team : SaveAgent(a)
         \/ Retry \/ \E kind \in {"new", "update"} : \E new \in SUBSET Unborn : \E reused \in SUBSET Agents :
                       Build(kind, new, reused)
  PROVE  KeepInv'
<1>0. /\ KeepingAssumed /\ StoresInv /\ Tasks /\ Departing
  BY DEF KeepInv
<1>1. CASE Keep
  <2>1. TeamFacts.new = Team /\ \A a \in Team : TeamFacts.asked[a] = "write"
    BY DEF TeamFacts
  <2>2. /\ UNCHANGED <<defs, grants, files, kept, turn, dialog, changes, wish, told, crossed>>
        /\ UNCHANGED <<born, built>> /\ Free("gui") /\ dialog = "none"
        /\ StartKeeping("gui", "team", TeamFacts, <<>>, NoDocument)
    BY <1>1 DEF Keep, AtWindow, stores, window, turnVars, counts, ghosts
  <2>3. "gui" \in Threads /\ born \subseteq Unborn /\ Team \cap Unborn = {}
    BY <1>0 DEF StoresInv, Threads, KeepingAssumed
  <2> QED BY <2>1, <2>2, <2>3, Begun
<1>2. ASSUME NEW a \in Team, SaveAgent(a) PROVE KeepInv'
  <2> DEFINE f == [new |-> {a}, asked |-> [b \in {a} |-> "write"], was |-> <<>>]
  <2>1. f.new = {a} /\ \A b \in f.new : f.asked[b] = "write"
    OBVIOUS
  <2>2. /\ UNCHANGED <<defs, grants, files, kept, turn, dialog, changes, wish, told, crossed>>
        /\ UNCHANGED <<born, built>> /\ Free("gui") /\ dialog = "none"
        /\ StartKeeping("gui", "agent", f, <<>>, NoDocument)
    BY <1>2 DEF SaveAgent, AtWindow, stores, window, turnVars, counts, ghosts
  <2>3. "gui" \in Threads /\ born \subseteq Unborn
    BY <1>0 DEF StoresInv, Threads
  <2> HIDE DEF f
  <2> QED BY <2>1, <2>2, <2>3, Begun
<1>3. CASE Retry
  <2>1. /\ UNCHANGED <<defs, grants, files, kept, turn, dialog, changes, wish, told, crossed>>
        /\ UNCHANGED <<born, built>> /\ Free("tool") /\ turn
        /\ StartKeeping("tool", built.kind, built.facts, built.graph, built.base)
    BY <1>3 DEF Retry, AtTool, stores, window, turnVars, counts, ghosts
  <2>2. /\ built.kind \in {"new", "update"} /\ built.facts.new \subseteq Unborn \cap born
        /\ \A a \in built.facts.new : built.facts.asked[a] = "write"
        /\ built.facts.new \cap Doomed = {}
    BY <1>0, <1>3 DEF Tasks, Departing, Retry
  <2>3. "tool" \in Threads /\ born \subseteq Unborn
    BY <1>0 DEF StoresInv, Threads
  <2> QED BY <2>1, <2>2, <2>3, Begun
<1>4. ASSUME NEW kind \in {"new", "update"}, NEW new \in SUBSET Unborn, NEW reused \in SUBSET Agents,
             Build(kind, new, reused)
      PROVE  KeepInv'
  <2> DEFINE f == Facts(new, reused)
             b == IF kind = "update" THEN doc ELSE NoDocument
             g == NewEdit(b.graph, new \cup reused)
  <2>1. f.new = new /\ \A a \in f.new : f.asked[a] = "write"
    BY DEF Facts
  <2>2. /\ UNCHANGED <<defs, grants, files, kept, turn, dialog, changes, wish, told, crossed>>
        /\ Free("tool") /\ turn /\ new \cap born = {} /\ born' = born \cup new
        /\ built' = [kind |-> kind, facts |-> f, graph |-> g, base |-> b]
        /\ StartKeeping("tool", kind, f, g, b)
    BY <1>4 DEF Build, AtTool, stores, window, ghosts
  <2> HIDE DEF f, b, g
  <2>3. built'.kind = kind /\ built'.facts = f
    BY <2>2
  <2>4. "tool" \in Threads /\ born \subseteq Unborn
    BY <1>0 DEF StoresInv, Threads
  <2>5. f.new \cap Doomed = {}
    BY <1>0, <2>1, <2>2 DEF Departing
  <2>6. f.new \subseteq Unborn \cap born' /\ born \subseteq born' /\ born' \subseteq Unborn
    BY <2>1, <2>2, <2>4
  <2> QED BY <2>1, <2>2, <2>3, <2>4, <2>5, <2>6, Begun
<1> QED BY <1>1, <1>2, <1>3, <1>4

-----------------------------------------------------------------------------
(* The writes of a job.                                                    *)

\* What a step of thread t leaves alone of its own job and of the other's.
Same(t) ==
  /\ DOMAIN job' = Threads /\ DOMAIN job'[t] = Fields
  /\ job'[t].kind = job[t].kind /\ job'[t].facts = job[t].facts
  /\ \A s \in Threads \ {t} : job'[s] = job[s]

\* The job that Ends leaves.
LEMMA Ended ==
  ASSUME StoresInv, NEW t \in Threads, Ends(t)
  PROVE  /\ DOMAIN job' = Threads /\ DOMAIN job'[t] = Fields
         /\ job'[t].pc = "idle" /\ job'[t].kind = "none" /\ job'[t].facts.new = {}
         /\ job'[t].left = {} /\ job'[t].read = NoGrants
         /\ \A s \in Threads \ {t} : job'[s] = job[s]
BY DEF Ends, Idle, NoFacts, Fields, StoresInv

\* A job that ends, having changed nothing of the stores in the same step.
LEMMA EndStep ==
  ASSUME KeepInv, UNCHANGED lossy, NEW t \in Threads, ~Free(t), Ends(t), crossed => crossed',
         UNCHANGED <<defs, grants, files, kept, built, turn, dialog, changes, born, wish, told, crossed>>
  PROVE  KeepInv'
<1>0. /\ KeepingAssumed /\ StoresInv /\ Tasks /\ Departing /\ Wishes /\ Progress /\ Untouched
      /\ KeptIsThere /\ WishesStand
  BY DEF KeepInv
<1>k. KeepingAssumed'
  BY <1>0 DEF KeepingAssumed
<1>1. /\ DOMAIN job' = Threads /\ DOMAIN job'[t] = Fields
      /\ job'[t].pc = "idle" /\ job'[t].kind = "none" /\ job'[t].facts.new = {}
      /\ job'[t].left = {} /\ job'[t].read = NoGrants
      /\ \A s \in Threads \ {t} : job'[s] = job[s]
  BY <1>0, Ended
<1>2. Threads = {"tool", "gui"} /\ NoGrants \in [Agents -> Grant] /\ Plain(NoGrants)
  BY DEF Threads, NoGrants, Grant, Plain
<1>3. (Deletes' => Deletes) /\ Defined' = Defined /\ Doomed' \subseteq Doomed
  BY <1>1, <1>2 DEF Deletes, Free, Defined, Doomed
<1>4. StoresInv'
  BY <1>0, <1>1, <1>2 DEF ReadBack, StoresInv, Free
<1>5. Tasks'
  BY <1>0, <1>1, <1>2 DEF Tasks, Free, Keeps
<1>6. Departing'
  BY <1>0, <1>1, <1>2, <1>3 DEF Departing, Deletes, Free
<1>7. Wishes' /\ WishesStand' /\ KeptIsThere'
  BY <1>0, <1>1, <1>2, <1>3 DEF Wishes, WishesStand, KeptIsThere, ReadBack, Keeps, Free
<1>8. Progress' /\ Untouched'
  BY <1>0, <1>1, <1>2 DEF Progress, ReadBack, Untouched, Keeps, Free, Plain
<1> QED BY <1>k, <1>4, <1>5, <1>6, <1>7, <1>8 DEF KeepInv

\* A definition is written.
LEMMA DefineStep ==
  ASSUME KeepInv, UNCHANGED lossy, NEW t \in Threads, Define(t)
  PROVE  KeepInv'
<1>0. /\ KeepingAssumed /\ StoresInv /\ Tasks /\ Departing /\ Wishes /\ Progress /\ Untouched
      /\ KeptIsThere /\ WishesStand
  BY DEF KeepInv
<1>k. KeepingAssumed'
  BY <1>0 DEF KeepingAssumed
<1>d. /\ UNCHANGED <<grants, files, kept, built, turn, dialog, changes, born, wish, told, crossed>>
      /\ job[t].pc = "define"
  BY DEF Define, window, turnVars, counts, ghosts
<1>e. SUFFICES ASSUME ~(Ends(t) /\ UNCHANGED defs) PROVE KeepInv'
  BY <1>d, EndStep DEF Free
<1>1. PICK a \in job[t].left :
        /\ defs[a] \in {"none", "own"}
        /\ defs' = [defs EXCEPT ![a] = ReadBack(a)]
        /\ job' = [job EXCEPT ![t].left = @ \ {a},
                              ![t].pc = IF job[t].left = {a} THEN "load" ELSE @]
  <2>1. PICK a \in job[t].left :
          /\ defs[a] \in {"none", "own"}
          /\ defs' = [defs EXCEPT ![a] = IF @ = "none" THEN ReadBack(a) ELSE @]
          /\ job' = [job EXCEPT ![t].left = @ \ {a},
                                ![t].pc = IF job[t].left = {a} THEN "load" ELSE @]
    BY <1>e DEF Define
  <2>2. a \in Agents /\ defs[a] \in {"none", ReadBack(a)}
    BY <1>0, <2>1 DEF StoresInv
  <2>3. (IF defs[a] = "none" THEN ReadBack(a) ELSE defs[a]) = ReadBack(a)
    BY <2>2
  <2> QED BY <2>1, <2>3
<1>2. /\ UNCHANGED <<grants, files, kept, built, turn, dialog, changes, born, wish, told, crossed>>
      /\ job[t].pc = "define"
  BY <1>d
<1>3. /\ Same(t) /\ job'[t].left = job[t].left \ {a} /\ job'[t].read = job[t].read
      /\ job'[t].pc = (IF job[t].left = {a} THEN "load" ELSE "define")
  BY <1>0, <1>1, <1>2 DEF Same, StoresInv, Fields
<1>4. Threads = {"tool", "gui"} /\ ~Free(t) /\ ~Free(t)'
  BY <1>2, <1>3 DEF Threads, Free
<1>5. a \in job[t].facts.new /\ Keeps(t)
  BY <1>0, <1>1, <1>2, <1>4 DEF StoresInv, Tasks, Departing, Deletes, Keeps, Free
<1>6. a \in Agents /\ a \notin Saved /\ (a \in Unborn => a \in born)
  BY <1>0, <1>4, <1>5 DEF Tasks, KeepingAssumed, Agents
<1>7. /\ (Deletes' <=> Deletes) /\ Doomed' = Doomed /\ Defined' = Defined \cup {a}
      /\ \A s \in Threads : Keeps(s)' <=> Keeps(s)
  BY <1>0, <1>1, <1>2, <1>3, <1>4, <1>5, <1>6
     DEF Deletes, Free, Doomed, Defined, Keeps, Same, StoresInv, KeepingAssumed, ReadBack
<1>r. /\ \A b \in Agents : defs'[b] = (IF b = a THEN ReadBack(a) ELSE defs[b])
      /\ \A b \in Agents : ReadBack(b)' = ReadBack(b)
      /\ defs' \in [Agents -> {"none", "own", "altered", "edited"}]
  BY <1>0, <1>1, <1>6 DEF ReadBack, StoresInv
<1>8. StoresInv'
  <2>1. /\ DOMAIN job' = Threads
        /\ \A s \in Threads :
             /\ DOMAIN job'[s] = Fields
             /\ job'[s].pc \in {"idle", "define", "load", "save", "commit", "tell"}
             /\ job'[s].left \subseteq job'[s].facts.new /\ job'[s].facts.new \subseteq Agents
             /\ job'[s].read \in [Agents -> Grant]
             /\ job'[s].pc = "idle" => job'[s].facts.new = {}
    BY <1>0, <1>2, <1>3, <1>4 DEF StoresInv, Free, Same
  <2>2. ~turn => job'["tool"].pc = "idle"
    BY <1>0, <1>2, <1>3, <1>4 DEF StoresInv, Free, Same
  <2>3. \A b \in Agents : defs'[b] \in {"none", "edited", ReadBack(b)'}
    BY <1>0, <1>r DEF StoresInv
  <2> QED BY <1>0, <1>2, <1>r, <2>1, <2>2, <2>3 DEF StoresInv, Free
<1>9. Tasks'
  BY <1>0, <1>2, <1>3, <1>4, <1>7 DEF Tasks, Free, Same
<1>10. Departing'
  BY <1>0, <1>2, <1>3, <1>4, <1>6, <1>7 DEF Departing, Same
<1>11. Wishes' /\ WishesStand'
  BY <1>0, <1>2, <1>3, <1>4, <1>7 DEF Wishes, WishesStand, Same
<1>12. Progress'
  <2>1. \A s \in Threads : /\ job'[s].facts = job[s].facts /\ job'[s].kind = job[s].kind
                           /\ job'[s].read = job[s].read
                           /\ job'[s].pc = job[s].pc \/ job'[s].pc \in {"define", "load"}
                           /\ job'[s].pc = "define" \/ job'[s].left = {}
    BY <1>0, <1>2, <1>3, <1>4 DEF Progress, Same
  <2>2. ASSUME NEW s \in Threads, Keeps(s), NEW b \in job[s].facts.new \ job'[s].left
        PROVE  defs'[b] = ReadBack(b)'
    <3>1. b \in Agents /\ (b = a \/ b \notin job[s].left)
      BY <1>0, <1>2, <1>3, <1>4 DEF StoresInv, Same
    <3> QED BY <1>0, <1>r, <2>2, <3>1 DEF Progress
  <2> QED BY <1>0, <1>2, <1>7, <2>1, <2>2 DEF Progress
<1>13. Untouched' /\ KeptIsThere'
  BY <1>0, <1>1, <1>2, <1>3, <1>4, <1>6 DEF Untouched, ReadBack, KeptIsThere, Plain, Same, StoresInv
<1> QED BY <1>k, <1>8, <1>9, <1>10, <1>11, <1>12, <1>13 DEF KeepInv

\* The local state is read, or there is nothing to forget.
LEMMA LoadStep ==
  ASSUME KeepInv, UNCHANGED lossy, NEW t \in Threads, Load(t)
  PROVE  KeepInv'
<1>0. /\ KeepingAssumed /\ StoresInv /\ Tasks /\ Departing /\ Wishes /\ Progress /\ Untouched
      /\ KeptIsThere /\ WishesStand
  BY DEF KeepInv
<1>k. KeepingAssumed'
  BY <1>0 DEF KeepingAssumed
<1>1. /\ UNCHANGED <<defs, grants, files, kept, built, turn, dialog, changes, born, wish, told, crossed>>
      /\ job[t].pc = "load"
      /\ Ends(t) \/ job' = [job EXCEPT ![t].pc = "save", ![t].read = grants]
  BY DEF Load, stores, window, turnVars, counts, ghosts
<1>2. CASE Ends(t)
  BY <1>1, <1>2, EndStep DEF Free
<1>3. CASE job' = [job EXCEPT ![t].pc = "save", ![t].read = grants]
  <2>1. Same(t) /\ job'[t].left = job[t].left /\ job'[t].read = grants /\ job'[t].pc = "save"
    BY <1>0, <1>3 DEF Same, StoresInv, Fields
  <2>2. Threads = {"tool", "gui"} /\ job[t].left = {}
    BY <1>0, <1>1 DEF Threads, Progress, ReadBack
  <2>3. /\ (Deletes' <=> Deletes) /\ Defined' = Defined /\ (\A s \in Threads : Keeps(s)' <=> Keeps(s))
        /\ \A s \in Threads : Free(s)' <=> Free(s)
    BY <1>1, <2>1, <2>2 DEF Deletes, Free, Defined, Keeps, Same
  <2>4. Doomed' = Doomed
    BY <1>1, <2>1, <2>2, <2>3 DEF Doomed, Same
  <2>5. StoresInv'
    BY <1>0, <1>1, <2>1, <2>2, <2>3 DEF ReadBack, StoresInv, Same
  <2>6. Tasks'
    BY <1>0, <1>1, <2>1, <2>2, <2>3 DEF Tasks, Same
  <2>7. Departing'
    BY <1>0, <1>1, <2>1, <2>2, <2>3, <2>4 DEF Departing, Same
  <2>8. Wishes' /\ WishesStand' /\ KeptIsThere'
    BY <1>0, <1>1, <2>1, <2>2, <2>3 DEF Wishes, WishesStand, KeptIsThere, ReadBack, Same
  <2>9. Progress'
    BY <1>0, <1>1, <2>1, <2>2, <2>3 DEF Progress, ReadBack, Same
  <2>10. Untouched'
    BY <1>0, <1>1, <2>1, <2>2 DEF Untouched, ReadBack, Plain, Same
  <2> QED BY <1>k, <2>5, <2>6, <2>7, <2>8, <2>9, <2>10 DEF KeepInv
<1> QED BY <1>1, <1>2, <1>3

\* The local state is written: a save that crossed another one is flagged, and any
\* other changes the grants of its own Agents only.
LEMMA SavingStep ==
  ASSUME KeepInv, UNCHANGED lossy, NEW t \in Threads, SaveState(t)
  PROVE  KeepInv'
<1>0. /\ KeepingAssumed /\ StoresInv /\ Tasks /\ Departing /\ Wishes /\ Progress /\ Untouched
      /\ KeptIsThere /\ WishesStand
  BY DEF KeepInv
<1>k. KeepingAssumed'
  BY <1>0 DEF KeepingAssumed
<1> DEFINE read == job[t].read
           mine == job[t].facts.new
           new == [a \in Agents |-> IF a \notin mine THEN read[a]
                                    ELSE IF job[t].kind = "delete" THEN "none" ELSE "write"]
<1>1. /\ UNCHANGED <<defs, files, kept, built, turn, dialog, changes, born, wish, told>>
      /\ job[t].pc = "save"
      /\ \/ new = read /\ grants' = grants /\ crossed' = crossed
         \/ grants' = new /\ crossed' = (crossed \/ grants # read)
      /\ IF job[t].kind = "delete" THEN Ends(t)
         ELSE job' = [job EXCEPT ![t].pc = AfterSave(job[t].kind), ![t].read = NoGrants]
  BY DEF SaveState, window, turnVars, counts
<1>2. /\ Threads = {"tool", "gui"} /\ NoGrants \in [Agents -> Grant] /\ Plain(NoGrants)
      /\ ~Free(t) /\ (Keeps(t) <=> job[t].kind # "delete") /\ job[t].left = {}
  BY <1>0, <1>1 DEF Threads, NoGrants, Grant, Plain, Free, Keeps, Progress, ReadBack
<1>3. /\ grants' \in [Agents -> Grant] /\ crossed' \in BOOLEAN /\ (~crossed' => ~crossed)
      /\ ~crossed' => \A a \in Agents :
           grants'[a] = IF a \notin mine THEN grants[a]
                        ELSE IF job[t].kind = "delete" THEN "none" ELSE "write"
  <2>1. read \in [Agents -> Grant] /\ new \in [Agents -> Grant] /\ grants \in [Agents -> Grant]
        /\ crossed \in BOOLEAN
    BY <1>0 DEF StoresInv, Grant
  <2>2. ~crossed => \A a \in mine : read[a] = grants[a]
    BY <1>0, <1>1 DEF Progress, ReadBack
  <2>3. CASE new = read /\ grants' = grants /\ crossed' = crossed
    <3>1. \A a \in Agents : read[a] = new[a]
      BY <2>3
    <3> QED BY <2>1, <2>2, <2>3, <3>1
  <2>4. CASE grants' = new /\ crossed' = (crossed \/ grants # read)
    BY <2>1, <2>4
  <2> QED BY <1>1, <2>3, <2>4
<1>4. /\ mine \subseteq Agents
      /\ \A s \in Threads \ {t} : job[s].facts.new \cap mine = {}
      /\ job[t].kind = "delete" => t = "gui" /\ Deletes
      /\ changes = 0 => job[t].kind # "delete"
      /\ job[t].kind # "delete" => mine \cap Saved = {}
  <2>1. job["tool"].facts.new \subseteq Unborn
    BY <1>0 DEF Tasks
  <2>2. ~Free("gui") => job["gui"].kind = "delete" \/ job["gui"].facts.new \subseteq Team
    BY <1>0 DEF Tasks, Keeps
  <2>3. job["gui"].kind = "delete" /\ ~Free("gui") => job["tool"].facts.new \cap job["gui"].facts.new = {}
    BY <1>0, <2>1 DEF Departing, Doomed, Deletes, Agents
  <2>4. Free("gui") => job["gui"].facts.new = {}
    BY <1>0, <1>2 DEF StoresInv
  <2>5. job["tool"].facts.new \cap job["gui"].facts.new = {}
    BY <1>0, <2>1, <2>2, <2>3, <2>4 DEF KeepingAssumed
  <2>6. job["gui"].facts.new \subseteq Agents
    BY <1>0, <1>2 DEF StoresInv
  <2> QED BY <1>0, <1>2, <2>1, <2>2, <2>5, <2>6 DEF Tasks, Departing, Deletes, KeepingAssumed, Agents, Free
<1>5. CASE job[t].kind = "delete"
  <2>1. /\ DOMAIN job' = Threads /\ DOMAIN job'[t] = Fields
        /\ job'[t].pc = "idle" /\ job'[t].kind = "none" /\ job'[t].facts.new = {}
        /\ job'[t].left = {} /\ job'[t].read = NoGrants
        /\ \A s \in Threads \ {t} : job'[s] = job[s]
    BY <1>0, <1>1, <1>5, Ended
  <2>2. ~Deletes' /\ Defined' = Defined /\ Doomed' \subseteq Doomed
    BY <1>1, <1>2, <1>4, <1>5, <2>1 DEF Deletes, Free, Defined, Doomed
  <2>3. StoresInv'
    BY <1>0, <1>1, <1>2, <1>3, <2>1 DEF ReadBack, StoresInv, Free
  <2>4. Tasks'
    BY <1>0, <1>1, <1>2, <2>1 DEF Tasks, Free, Keeps
  <2>5. Departing'
    BY <1>0, <1>1, <1>2, <1>4, <1>5, <2>1, <2>2 DEF Departing
  <2>6. Wishes'
    BY <1>0, <1>1, <1>2, <1>3, <2>1, <2>2 DEF Wishes, Keeps, Free
  <2>7. WishesStand' /\ KeptIsThere'
    BY <1>0, <1>1, <1>3, <1>4, <1>5 DEF WishesStand, KeptIsThere, ReadBack, Departing, StoresInv
  <2>8. Progress'
    BY <1>0, <1>1, <1>2, <1>3, <1>4, <2>1 DEF Progress, ReadBack, Keeps, Free, StoresInv
  <2>9. Untouched'
    BY <1>0, <1>1, <1>4, <1>5 DEF Untouched, ReadBack
  <2> QED BY <1>k, <2>3, <2>4, <2>5, <2>6, <2>7, <2>8, <2>9 DEF KeepInv
<1>6. CASE job[t].kind # "delete"
  <2>1. /\ Same(t) /\ job'[t].left = job[t].left /\ job'[t].read = NoGrants
        /\ job'[t].pc = AfterSave(job[t].kind)
    BY <1>0, <1>1, <1>6 DEF Same, StoresInv, Fields
  <2>2. /\ AfterSave(job[t].kind) \in {"commit", "tell"}
        /\ job[t].kind = "team" => AfterSave(job[t].kind) = "commit"
    BY DEF AfterSave
  <2>3. /\ (Deletes' <=> Deletes) /\ Defined' = Defined /\ (\A s \in Threads : Keeps(s)' <=> Keeps(s))
        /\ \A s \in Threads : Free(s)' <=> Free(s)
    BY <1>1, <1>2, <2>1, <2>2 DEF Deletes, Free, Defined, Keeps, Same
  <2>4. Doomed' = Doomed
    BY <1>1, <1>2, <2>1, <2>3 DEF Doomed, Same
  <2>5. StoresInv'
    BY <1>0, <1>1, <1>2, <1>3, <2>1, <2>2, <2>3 DEF ReadBack, StoresInv, Same
  <2>6. Tasks'
    BY <1>0, <1>1, <1>2, <2>1, <2>3 DEF Tasks, Same
  <2>7. Departing'
    <3>1. Deletes => t # "gui"
      BY <1>6 DEF Deletes
    <3> QED BY <1>0, <1>1, <1>2, <2>1, <2>3, <2>4, <3>1 DEF Departing, Same
  <2>8. Wishes'
    BY <1>0, <1>1, <1>2, <1>3, <2>1, <2>3 DEF Wishes, Same
  <2>9. WishesStand' /\ KeptIsThere'
    BY <1>0, <1>1, <1>2, <1>3, <1>4, <1>6 DEF WishesStand, KeptIsThere, ReadBack, Wishes, StoresInv
  <2>10. Progress'
    <3>1. ASSUME NEW s \in Threads, s # t
          PROVE  /\ \A a \in job[s].facts.new : a \in Agents /\ a \notin mine
                 /\ ~crossed' => \A a \in job[s].facts.new : grants'[a] = grants[a]
      BY <1>0, <1>3, <1>4, <3>1 DEF StoresInv
    <3>2. ~crossed' => \A a \in mine : grants'[a] = "write"
      BY <1>3, <1>4, <1>6
    <3> QED BY <1>0, <1>1, <1>2, <1>3, <2>1, <2>2, <2>3, <3>1, <3>2 DEF Progress, ReadBack, Same
  <2>11. Untouched'
    <3>1. changes = 0 => Plain(grants')
      BY <1>0, <1>1, <1>4, <1>6 DEF Untouched, ReadBack, Plain
    <3> QED BY <1>0, <1>1, <1>2, <2>1, <3>1 DEF Untouched, ReadBack, Plain, Same
  <2> QED BY <1>k, <2>5, <2>6, <2>7, <2>8, <2>9, <2>10, <2>11 DEF KeepInv
<1> QED BY <1>5, <1>6

\* The graph is written, or a write fails.
LEMMA CommitStep ==
  ASSUME KeepInv, UNCHANGED lossy, NEW t \in Threads, Create(t) \/ Update(t) \/ WriteFails(t)
  PROVE  KeepInv'
<1>0. /\ KeepingAssumed /\ StoresInv /\ Tasks /\ Departing /\ Wishes /\ Progress /\ Untouched
      /\ KeptIsThere /\ WishesStand
  BY DEF KeepInv
<1>k. KeepingAssumed'
  BY <1>0 DEF KeepingAssumed
<1>1. /\ UNCHANGED <<defs, grants, kept, built, turn, dialog, changes, born, wish, told, crossed>>
      /\ ~Free(t)
      /\ \/ Ends(t) /\ files' = files
         \/ /\ job' = [job EXCEPT ![t].pc = "tell"] /\ job[t].pc = "commit"
            /\ \/ job[t].kind \in {"team", "new"} /\ files' = files \cup {job[t].kind}
               \/ job[t].kind = "update" /\ files' = files
  BY DEF Create, Update, WriteFails, Writing, SaveEdit, SaveFails, Free, stores, window, turnVars,
     counts, ghosts
<1>2. CASE Ends(t) /\ files' = files
  BY <1>1, <1>2, EndStep
<1>3. CASE /\ job' = [job EXCEPT ![t].pc = "tell"] /\ job[t].pc = "commit"
           /\ \/ job[t].kind \in {"team", "new"} /\ files' = files \cup {job[t].kind}
              \/ job[t].kind = "update" /\ files' = files
  <2>1. Same(t) /\ job'[t].left = job[t].left /\ job'[t].read = job[t].read /\ job'[t].pc = "tell"
    BY <1>0, <1>3 DEF Same, StoresInv, Fields
  <2>2. Threads = {"tool", "gui"} /\ job[t].left = {}
    BY <1>0, <1>3 DEF Threads, Progress, ReadBack
  <2>3. /\ (Deletes' <=> Deletes) /\ Defined' = Defined /\ (\A s \in Threads : Keeps(s)' <=> Keeps(s))
        /\ \A s \in Threads : Free(s)' <=> Free(s)
    BY <1>1, <1>3, <2>1, <2>2 DEF Deletes, Free, Defined, Keeps, Same
  <2>4. Doomed' = Doomed
    BY <1>1, <2>1, <2>2, <2>3 DEF Doomed, Same
  <2>5. files \subseteq files' /\ files' \subseteq {"team", "new"}
        /\ (job[t].kind = "team" => "team" \in files')
    BY <1>0, <1>3 DEF StoresInv
  <2>6. StoresInv'
    BY <1>0, <1>1, <2>1, <2>2, <2>3, <2>5 DEF ReadBack, StoresInv, Same
  <2>7. Tasks'
    BY <1>0, <1>1, <2>1, <2>2, <2>3 DEF Tasks, Same
  <2>8. Departing'
    BY <1>0, <1>1, <1>3, <2>1, <2>2, <2>3, <2>4 DEF Departing, Same, Deletes
  <2>9. Wishes' /\ WishesStand' /\ KeptIsThere'
    BY <1>0, <1>1, <2>1, <2>2, <2>3, <2>5 DEF Wishes, WishesStand, KeptIsThere, ReadBack, Same
  <2>10. Progress'
    BY <1>0, <1>1, <1>3, <2>1, <2>2, <2>3, <2>5 DEF Progress, ReadBack, Same
  <2>11. Untouched'
    BY <1>0, <1>1, <2>1, <2>2 DEF Untouched, ReadBack, Plain, Same
  <2> QED BY <1>k, <2>6, <2>7, <2>8, <2>9, <2>10, <2>11 DEF KeepInv
<1> QED BY <1>1, <1>2, <1>3

\* An outcome is reported: everything was written before.
LEMMA TellStep ==
  ASSUME KeepInv, UNCHANGED lossy, TellCard \/ TellTool
  PROVE  KeepInv'
<1>0. /\ KeepingAssumed /\ StoresInv /\ Tasks /\ Departing /\ Wishes /\ Progress /\ Untouched
      /\ KeptIsThere /\ WishesStand
  BY DEF KeepInv
<1>k. KeepingAssumed'
  BY <1>0 DEF KeepingAssumed
<1>1. PICK t \in Threads :
        /\ UNCHANGED <<defs, grants, files, built, turn, dialog, changes, born, wish, crossed>>
        /\ job[t].pc = "tell" /\ Ends(t)
        /\ told' = told \/ told' = told \cup job[t].facts.new
        /\ \/ kept' = kept
           \/ /\ t = "gui"
               /\ kept' = kept \cup (IF job["gui"].kind = "team" THEN {"team"}
                                     ELSE job["gui"].facts.new)
  BY DEF TellCard, TellTool, Threads, stores, turnVars, counts
<1>2. /\ DOMAIN job' = Threads /\ DOMAIN job'[t] = Fields
      /\ job'[t].pc = "idle" /\ job'[t].kind = "none" /\ job'[t].facts.new = {}
      /\ job'[t].left = {} /\ job'[t].read = NoGrants
      /\ \A s \in Threads \ {t} : job'[s] = job[s]
  BY <1>0, <1>1, Ended
<1>3. /\ Threads = {"tool", "gui"} /\ NoGrants \in [Agents -> Grant] /\ Plain(NoGrants)
      /\ Keeps(t) /\ job[t].left = {}
  BY <1>0, <1>1 DEF Threads, NoGrants, Grant, Plain, Keeps, Free, Tasks, Departing, Progress, ReadBack, Deletes
<1>4. job[t].facts.new \subseteq Agents /\ (t = "gui" => job[t].facts.new \subseteq Team)
  BY <1>0, <1>3 DEF Tasks, Agents
<1>5. /\ kept' \subseteq Team \cup {"team"} /\ told' \subseteq Agents
      /\ "team" \in kept' => "team" \in kept \/ job[t].kind = "team"
  BY <1>0, <1>1, <1>4 DEF StoresInv, KeepingAssumed
<1>6. (Deletes' => Deletes /\ t = "tool") /\ Defined' = Defined /\ Doomed' \subseteq Doomed
  BY <1>1, <1>2, <1>3 DEF Deletes, Free, Defined, Doomed
<1>7. StoresInv'
  BY <1>0, <1>1, <1>2, <1>3, <1>5 DEF ReadBack, StoresInv, Free
<1>8. Tasks'
  BY <1>0, <1>1, <1>2, <1>3 DEF Tasks, Free, Keeps
<1>9. Departing'
  <2>1. Deletes' => \A a \in job["gui"].facts.new : a \notin told'
    BY <1>0, <1>1, <1>4, <1>6 DEF Departing, Doomed
  <2> QED BY <1>0, <1>1, <1>2, <1>3, <1>6, <2>1 DEF Departing
<1>10. Wishes' /\ WishesStand'
  BY <1>0, <1>1, <1>2, <1>3, <1>6 DEF Wishes, WishesStand, Keeps, Free
<1>11. KeptIsThere'
  BY <1>0, <1>1, <1>3, <1>5 DEF KeptIsThere, ReadBack, Progress
<1>12. Progress' /\ Untouched'
  BY <1>0, <1>1, <1>2, <1>3 DEF Progress, ReadBack, Untouched, Keeps, Free, Plain
<1> QED BY <1>k, <1>7, <1>8, <1>9, <1>10, <1>11, <1>12 DEF KeepInv

\* Every step keeps KeepInv.
LEMMA KeepInductive == KeepInv /\ [AuthoringNext]_authoringVars => KeepInv'
<1> SUFFICES ASSUME KeepInv, [AuthoringNext]_authoringVars PROVE KeepInv'
  OBVIOUS
<1>0. KeepingAssumed /\ Tasks /\ UNCHANGED lossy
  BY DEF KeepInv, AuthoringNext, authoringVars
<1>1. CASE \/ CanvasEdit \/ CanvasStep \/ CardUndo \/ Redraw \/ Decline \/ Rename \/ DeleteWorkflow
           \/ Inspect \/ ToolUndo \/ WrittenOutside \/ UNCHANGED authoringVars
  BY <1>0, <1>1, GraphOnly, Standing
<1>2. CASE \/ TurnStarts \/ TurnIsOver
           \/ \E a \in Agents : EditAgent(a) \/ \E p \in {"read", "write"} : SetPermission(a, p)
           \/ \E q \in Agents \cup {"workflow", "rename"} : Question(q)
  BY <1>0, <1>2, WindowStep
<1>3. CASE \E a \in Agents : DeleteAgent(a)
  BY <1>0, <1>3, DeleteStep
<1>4. CASE Keep \/ Retry \/ \E a \in Team : SaveAgent(a)
  BY <1>0, <1>4, BeginStep
<1>5. ASSUME NEW new \in {{}} \cup {{a} : a \in Unborn},
             \/ \E reused \in Reuses : Build("new", new, reused)
             \/ doc # NoDocument /\ Build("update", new, Uses(doc.graph))
      PROVE  KeepInv'
  <2>1. new \in SUBSET Unborn
    OBVIOUS
  <2>2. \A kind, reused : Build(kind, new, reused) => reused \in SUBSET Agents
    BY DEF Build, Defined
  <2> QED BY <1>0, <1>5, <2>1, <2>2, BeginStep
<1>6. CASE \E t \in Threads : Keeping(t)
  BY <1>0, <1>6, DefineStep, LoadStep, SavingStep, CommitStep DEF Keeping
<1>7. CASE TellCard \/ TellTool
  BY <1>0, <1>7, TellStep
<1> QED BY <1>1, <1>2, <1>3, <1>4, <1>5, <1>6, <1>7 DEF AuthoringNext, Person, Model

\* With the stores untouched, what is there never contradicts the team, but for a
\* definition that the parser altered.
LEMMA RetryStaysOpen == KeepInv => RetryOpen
<1> SUFFICES ASSUME KeepInv, changes = 0, \A a \in Team \cap lossy : defs[a] = "none"
             PROVE  Preflight(TeamFacts)
  BY DEF RetryOpen
<1>1. /\ TeamFacts.new = Team /\ DOMAIN TeamFacts.was = Saved
      /\ \A a \in Saved : TeamFacts.was[a] = "own"
      /\ \A a \in Team : TeamFacts.asked[a] = "write"
      /\ \A a \in Saved : TeamFacts.asked[a] = "read"
  BY DEF TeamFacts, KeepInv, KeepingAssumed
<1>2. /\ \A a \in Agents : defs[a] \in {"none", ReadBack(a)}
      /\ \A a \in Saved : defs[a] = "own" /\ grants[a] = "none"
      /\ \A a \in Agents : grants[a] \in {"none", "write"}
  BY DEF KeepInv, Untouched, Plain, Agents
<1>3. \A a \in Team : defs[a] \in {"none", "own"}
  BY <1>2 DEF ReadBack, Agents
<1> HIDE DEF TeamFacts
<1> QED BY <1>1, <1>2, <1>3 DEF Preflight, Permission, Defined, KeepInv, KeepingAssumed

-----------------------------------------------------------------------------
(* Graphs and the history.                                                 *)

\* Graphs, as the edits that made them.
Graphs == Seq(Edit)

\* Each state differs from the next by one edit.
Chain(q) == \A i \in 1 .. Len(q) - 1 : OneApart(q[i], q[i + 1])

\* A history whose cursor is on graph g.
HistoryOf(h, g) ==
  /\ DOMAIN h = {"states", "at"} /\ h.states \in Seq(Graphs) /\ Len(h.states) <= Limit
  /\ h.at \in 1 .. Len(h.states) /\ h.states[h.at] = g /\ Chain(h.states)

\* The file and what was read of it are graphs; the history is a chain of them with
\* its cursor on the file, unless somebody else wrote that.
Edits ==
  /\ graph \in Graphs /\ shown \in Graphs /\ doc.graph \in Graphs
  /\ DOMAIN hist = {"states", "at"} /\ hist.states \in Seq(Graphs) /\ Len(hist.states) <= Limit
  /\ hist.at \in 0 .. Len(hist.states) /\ (hist.states # <<>> => hist.at # 0)
  /\ Chain(hist.states)
  /\ hist.states # <<>> /\ graph # <<>> /\ ~outside => hist.states[hist.at] = graph
  /\ edits \in 0 .. MaxEdits /\ faults \in 0 .. MaxFaults /\ outside \in BOOLEAN

\* An update is one edit away from the graph it was made from.
Planned(j) ==
  /\ j.graph \in Graphs /\ j.base.graph \in Graphs
  /\ j.kind = "update" => OneApart(j.base.graph, j.graph)

Plans == (\A t \in Threads : Planned(job[t])) /\ Planned(built)

\* All of it; inductive.
AuthInv == KeepInv /\ Edits /\ Plans

\* Appending an edit is one edit.
LEMMA NewOne ==
  ASSUME NEW g \in Graphs, NEW e \in Edit
  PROVE  Append(g, e) \in Graphs /\ OneApart(g, Append(g, e)) /\ Append(g, e) # <<>>
<1>1. Append(g, e) \in Graphs /\ Append(g, e) # <<>> /\ Len(g) \in Nat
  BY DEF Graphs
<1>2. Len(Append(g, e)) = Len(g) + 1
  BY DEF Graphs
<1>3. SubSeq(Append(g, e), 1, Len(g)) = g
  BY DEF Graphs
<1> QED BY <1>1, <1>2, <1>3 DEF OneApart

\* A pushed state continues the history, trimmed or not.
LEMMA PushedOne ==
  ASSUME KeepingAssumed, NEW h, NEW g \in Graphs, NEW g1 \in Graphs, HistoryOf(h, g), OneApart(g, g1)
  PROVE  HistoryOf(Pushed(h, g1), g1)
<1> DEFINE s == SubSeq(h.states, 1, h.at)
           r == Append(s, g1)
<1>0. /\ h.states \in Seq(Graphs) /\ Len(h.states) <= Limit /\ Limit \in Nat /\ Limit >= 2
      /\ h.at \in 1 .. Len(h.states) /\ h.states[h.at] = g /\ Chain(h.states) /\ Len(h.states) \in Nat
  BY DEF HistoryOf, KeepingAssumed
<1>1. /\ s \in Seq(Graphs) /\ Len(s) = h.at /\ \A i \in 1 .. h.at : s[i] = h.states[i]
  BY <1>0
<1>2. /\ r \in Seq(Graphs) /\ Len(r) = h.at + 1 /\ r[h.at + 1] = g1
      /\ \A i \in 1 .. h.at : r[i] = h.states[i]
  BY <1>0, <1>1
<1> HIDE DEF s, r
<1>3. Chain(r)
  <2>1. ASSUME NEW i \in 1 .. h.at PROVE OneApart(r[i], r[i + 1])
    <3>1. CASE i = h.at
      BY <1>0, <1>2, <3>1
    <3>2. CASE i # h.at
      <4>1. i \in 1 .. Len(h.states) - 1 /\ i + 1 \in 1 .. h.at
        BY <1>0, <3>2
      <4> QED BY <1>0, <1>2, <4>1 DEF Chain
    <3> QED BY <3>1, <3>2
  <2> QED BY <1>0, <1>2, <2>1 DEF Chain
<1>4. CASE h.at + 1 > Limit
  <2>1. Pushed(h, g1) = [states |-> Tail(r), at |-> Limit]
    BY <1>2, <1>4 DEF Pushed, r, s
  <2>2. /\ Tail(r) \in Seq(Graphs) /\ Len(Tail(r)) = h.at /\ h.at = Limit
        /\ \A i \in 1 .. h.at : Tail(r)[i] = r[i + 1]
    BY <1>0, <1>2, <1>4
  <2>3. Chain(Tail(r))
    BY <1>0, <1>2, <1>3, <2>2 DEF Chain
  <2>4. Tail(r)[Limit] = g1
    BY <1>0, <1>2, <2>2
  <2> HIDE DEF Pushed
  <2> QED BY <1>0, <2>1, <2>2, <2>3, <2>4 DEF HistoryOf
<1>5. CASE ~(h.at + 1 > Limit)
  <2>1. Pushed(h, g1) = [states |-> r, at |-> h.at + 1]
    BY <1>2, <1>5 DEF Pushed, r, s
  <2> QED BY <1>0, <1>2, <1>3, <1>5, <2>1 DEF HistoryOf
<1> QED BY <1>4, <1>5

\* The history every edit starts from has its cursor on the file.
LEMMA HistoryTrue ==
  ASSUME KeepingAssumed, Edits
  PROVE  HistoryOf(History, graph)
<1>1. CASE hist.states # <<>> /\ hist.states[hist.at] = graph
  BY <1>1 DEF Edits, History, HistoryOf
<1>2. CASE ~(hist.states # <<>> /\ hist.states[hist.at] = graph)
  <2>1. History = [states |-> <<graph>>, at |-> 1]
    BY <1>2 DEF History
  <2>2. /\ <<graph>> \in Seq(Graphs) /\ Len(<<graph>>) = 1 /\ <<graph>>[1] = graph /\ Limit >= 1
    BY DEF Edits, KeepingAssumed
  <2> HIDE DEF History
  <2> QED BY <2>1, <2>2 DEF HistoryOf, Chain
<1> QED BY <1>1, <1>2

\* What saving leaves: the file, its history, the flag.
OneEdit ==
  /\ graph' \in Graphs /\ HistoryOf(hist', graph') /\ outside' \in BOOLEAN
  /\ graph' = graph \/ OneApart(graph, graph')

\* An edit made from the file's graph is saved as one edit.
LEMMA EditSaved ==
  ASSUME KeepingAssumed, Edits, NEW before, NEW after \in Graphs, OneApart(before, after),
         SaveEdit(before, after)
  PROVE  OneEdit
<1>1. before = graph /\ graph' = after /\ hist' = Pushed(History, after) /\ outside' = FALSE
  BY DEF SaveEdit, Checked
<1>2. graph \in Graphs
  BY DEF Edits
<1>3. HistoryOf(hist', graph')
  BY <1>1, <1>2, HistoryTrue, PushedOne
<1> QED BY <1>1, <1>3 DEF OneEdit

\* A save that fails changes nothing.
LEMMA NotSaved ==
  ASSUME KeepingAssumed, Edits, SaveFails
  PROVE  OneEdit /\ graph' = graph
BY HistoryTrue DEF SaveFails, OneEdit, Edits

\* Undo and redo move by one edit.
LEMMA StepSaved ==
  ASSUME KeepingAssumed, Edits, NEW redo \in BOOLEAN, SaveStep(redo)
  PROVE  OneEdit
<1>1. HistoryOf(History, graph)
  BY HistoryTrue
<1>2. CASE SaveFails
  BY <1>2, NotSaved
<1>3. ASSUME NEW at \in DOMAIN History.states, at = IF redo THEN History.at + 1 ELSE History.at - 1,
             graph' = History.states[at], hist' = [History EXCEPT !.at = at], outside' = FALSE
      PROVE  OneEdit
  <2>1. /\ History.states \in Seq(Graphs) /\ DOMAIN History.states = 1 .. Len(History.states)
        /\ History.at \in 1 .. Len(History.states) /\ at \in 1 .. Len(History.states)
        /\ Len(History.states) \in Nat /\ History.states[History.at] = graph
        /\ Chain(History.states)
    BY <1>1, <1>3 DEF HistoryOf
  <2>2. DOMAIN hist' = {"states", "at"} /\ hist'.states = History.states /\ hist'.at = at
    BY <1>1, <1>3 DEF HistoryOf
  <2>3. OneApart(graph, graph')
    <3>1. CASE at = History.at + 1
      BY <1>3, <2>1, <3>1 DEF Chain
    <3>2. CASE at = History.at - 1
      <4>1. OneApart(History.states[at], History.states[at + 1]) /\ at + 1 = History.at
        BY <2>1, <3>2 DEF Chain
      <4> QED BY <1>3, <2>1, <4>1 DEF OneApart
    <3> QED BY <1>3, <3>1, <3>2
  <2>4. HistoryOf(hist', graph') /\ graph' \in Graphs
    BY <1>1, <1>3, <2>1, <2>2 DEF HistoryOf
  <2> QED BY <1>3, <2>3, <2>4 DEF OneEdit
<1> QED BY <1>2, <1>3 DEF SaveStep

\* A new edit is one.
LEMMA NewEdits ==
  ASSUME KeepingAssumed, Edits, edits < MaxEdits, NEW g \in Graphs, NEW uses \in SUBSET Agents
  PROVE  NewEdit(g, uses) \in Graphs /\ OneApart(g, NewEdit(g, uses)) /\ edits + 1 \in 0 .. MaxEdits
<1>1. [n |-> edits + 1, uses |-> uses] \in Edit /\ edits + 1 \in 0 .. MaxEdits
  BY DEF Edit, Edits, KeepingAssumed
<1> QED BY <1>1, NewOne DEF NewEdit

\* A graph uses Agents.
LEMMA UsesAgents == ASSUME NEW g \in Graphs, g # <<>> PROVE Uses(g) \subseteq Agents
<1>1. g[Len(g)] \in Edit
  BY DEF Graphs
<1> QED BY <1>1 DEF Uses, Edit

\* A document is of the graph, or of none.
LEMMA Documents ==
  /\ Document.graph = graph \/ Document.graph = <<>>
  /\ Document # NoDocument => Document.graph = graph /\ graph # <<>>
  /\ NoDocument.graph = <<>>
BY DEF Document, NoDocument

\* A step that saves one edit, or nothing.
LEMMA EditsHeld ==
  ASSUME KeepingAssumed, Edits, OneEdit \/ UNCHANGED <<graph, hist, outside>>,
         shown' \in {shown, graph'}, doc'.graph \in {doc.graph, graph', <<>>},
         edits' \in 0 .. MaxEdits, faults' \in 0 .. MaxFaults
  PROVE  /\ Edits' /\ CursorTrue'
         /\ graph' # graph => OneApart(graph, graph')
<1>1. CASE OneEdit
  <2>1. /\ graph' \in Graphs /\ HistoryOf(hist', graph') /\ outside' \in BOOLEAN
        /\ graph' = graph \/ OneApart(graph, graph')
    BY <1>1 DEF OneEdit
  <2>2. <<>> \in Graphs
    BY DEF Graphs
  <2>3. Edits'
    BY <2>1, <2>2 DEF Edits, HistoryOf
  <2>4. CursorTrue'
    BY <2>1 DEF CursorTrue, HistoryOf, Chain
  <2> QED BY <2>1, <2>3, <2>4
<1>2. CASE UNCHANGED <<graph, hist, outside>>
  <2>1. <<>> \in Graphs
    BY DEF Graphs
  <2> QED BY <1>2, <2>1 DEF Edits, CursorTrue, Chain
<1> QED BY <1>1, <1>2

\* Every step keeps Edits and moves the file by one edit at most.
LEMMA EditsStep ==
  ASSUME AuthInv, [AuthoringNext]_authoringVars
  PROVE  /\ Edits' /\ CursorTrue'
         /\ graph' # graph /\ graph' # <<>> /\ ~outside' => OneApart(graph, graph')
<1>0. /\ KeepInv /\ KeepingAssumed /\ StoresInv /\ Edits /\ Plans
      /\ edits \in 0 .. MaxEdits /\ faults \in 0 .. MaxFaults /\ MaxFaults \in Nat
  BY DEF AuthInv, KeepInv, Edits, KeepingAssumed
<1>f. faults < MaxFaults => faults + 1 \in 0 .. MaxFaults
  BY <1>0
<1>1. CASE Commit
  <2>1. PICK g \in {shown} : shown # <<>> /\ g = graph
    BY <1>1 DEF Commit, Checked
  <2>2. NewEdit(shown, Uses(shown)) \in Graphs /\ OneApart(shown, NewEdit(shown, Uses(shown)))
        /\ edits + 1 \in 0 .. MaxEdits
    BY <1>0, <1>1, <2>1, UsesAgents, NewEdits DEF Commit, CanEdit, Edits
  <2>3. \/ /\ SaveEdit(shown, NewEdit(shown, Uses(shown)))
           /\ shown' = NewEdit(shown, Uses(shown)) /\ edits' = edits + 1
        \/ SaveFails /\ UNCHANGED <<shown, edits>>
    BY <1>1 DEF Commit
  <2>4. OneEdit /\ shown' \in {shown, graph'}
    BY <1>0, <2>2, <2>3, EditSaved, NotSaved DEF SaveEdit
  <2>5. faults' \in 0 .. MaxFaults /\ edits' \in 0 .. MaxEdits
    BY <1>0, <1>f, <2>2, <2>3 DEF SaveEdit, SaveFails, Fault
  <2>6. doc' = doc
    BY <1>1 DEF Commit
  <2> QED BY <1>0, <2>4, <2>5, <2>6, EditsHeld
<1>2. ASSUME CanvasStep \/ CardUndo \/ ToolUndo
      PROVE  /\ Edits' /\ CursorTrue'
             /\ graph' # graph /\ graph' # <<>> /\ ~outside' => OneApart(graph, graph')
  <2>1. PICK redo \in BOOLEAN : SaveStep(redo)
    BY <1>2 DEF CanvasStep, CardUndo, ToolUndo
  <2>2. OneEdit
    BY <1>0, <2>1, StepSaved
  <2>3. faults' \in 0 .. MaxFaults
    BY <1>0, <1>f, <2>1 DEF SaveStep, SaveFails, Fault
  <2>4. Document'.graph \in {graph', <<>>}
    BY DEF Document, NoDocument
  <2>5. edits' = edits /\ shown' \in {shown, graph'} /\ doc'.graph \in {doc.graph, graph', <<>>}
    BY <1>2, <2>4 DEF CanvasStep, CardUndo, ToolUndo, Refreshed
  <2> QED BY <1>0, <2>2, <2>3, <2>5, EditsHeld
<1>3. ASSUME NEW t \in Threads, Update(t)
      PROVE  /\ Edits' /\ CursorTrue'
             /\ graph' # graph /\ graph' # <<>> /\ ~outside' => OneApart(graph, graph')
  <2>1. UNCHANGED <<shown, doc, edits>> /\ job[t].kind = "update"
    BY <1>3 DEF Update
  <2>2. job[t].graph \in Graphs /\ OneApart(job[t].base.graph, job[t].graph)
    BY <1>0, <2>1 DEF Plans, Planned
  <2>3. \/ SaveEdit(job[t].base.graph, job[t].graph)
        \/ SaveFails
        \/ UNCHANGED <<graph, hist, outside, faults>>
    BY <1>3 DEF Update
  <2>4. OneEdit \/ UNCHANGED <<graph, hist, outside>>
    BY <1>0, <2>2, <2>3, EditSaved, NotSaved
  <2>5. faults' \in 0 .. MaxFaults
    BY <1>0, <1>f, <2>3 DEF SaveEdit, SaveFails, Fault
  <2> QED BY <1>0, <2>1, <2>4, <2>5, EditsHeld
<1>4. CASE WrittenOutside
  <2>1. /\ graph # <<>> /\ graph' = <<[n |-> edits + 1, uses |-> Uses(graph)]>> /\ outside' = TRUE
        /\ edits' = edits + 1 /\ edits < MaxEdits /\ UNCHANGED <<hist, shown, doc, faults>>
    BY <1>4 DEF WrittenOutside, CanEdit, window
  <2>2. [n |-> edits + 1, uses |-> Uses(graph)] \in Edit /\ edits + 1 \in 0 .. MaxEdits
    BY <1>0, <2>1, UsesAgents DEF Edits, Edit, KeepingAssumed
  <2>3. graph' \in Graphs
    BY <2>1, <2>2 DEF Graphs
  <2> QED BY <1>0, <2>1, <2>2, <2>3 DEF Edits, CursorTrue, Chain
<1>5. CASE DeleteWorkflow
  <2>1. graph' = <<>> /\ UNCHANGED <<hist, edits, faults, outside>>
    BY <1>5 DEF DeleteWorkflow, counts, ghosts
  <2>2. Document'.graph \in {graph', <<>>} /\ <<>> \in Graphs
    BY DEF Document, NoDocument, Graphs
  <2>3. shown' = graph' /\ doc'.graph \in {doc.graph, <<>>}
    BY <1>5, <2>1, <2>2 DEF DeleteWorkflow, Refreshed
  <2> QED BY <1>0, <2>1, <2>2, <2>3 DEF Edits, CursorTrue, Chain
<1>6. CASE Redraw \/ TurnIsOver \/ Inspect \/ TellCard \/ TellTool
  <2>1. UNCHANGED <<graph, hist, outside, edits, faults>>
    BY <1>6 DEF Redraw, TurnIsOver, Inspect, TellCard, TellTool, stores, counts, ghosts
  <2>2. Document'.graph \in {graph', <<>>} /\ Document.graph \in {graph', <<>>}
    BY <2>1 DEF Document, NoDocument
  <2>3. shown' \in {shown, graph'} /\ doc'.graph \in {doc.graph, graph', <<>>}
    BY <1>6, <2>1, <2>2 DEF Redraw, TurnIsOver, Inspect, TellCard, TellTool, Refreshed
  <2> QED BY <1>0, <2>1, <2>3, EditsHeld
<1>7. ASSUME UNCHANGED <<graph, hist, outside, shown, doc>>, edits' \in 0 .. MaxEdits,
             faults' \in 0 .. MaxFaults
      PROVE  /\ Edits' /\ CursorTrue'
             /\ graph' # graph /\ graph' # <<>> /\ ~outside' => OneApart(graph, graph')
  BY <1>0, <1>7, EditsHeld
<1>8. CASE \/ Keep \/ Decline \/ Retry \/ TurnStarts \/ UNCHANGED authoringVars
           \/ \E a \in Agents : EditAgent(a) \/ DeleteAgent(a)
           \/ \E a \in Agents : \E p \in {"read", "write"} : SetPermission(a, p)
           \/ \E a \in Team : SaveAgent(a)
           \/ \E q \in Agents \cup {"workflow", "rename"} : Question(q)
           \/ \E t \in Threads : Define(t) \/ Load(t) \/ SaveState(t) \/ Create(t)
  <2>1. UNCHANGED <<graph, hist, outside, shown, doc, edits, faults>>
    BY <1>8 DEF Keep, Decline, Retry, TurnStarts, EditAgent, DeleteAgent, SetPermission, SaveAgent,
       Question, Define, Load, SaveState, Create, authoringVars, stores, window, counts, ghosts
  <2> QED BY <1>0, <1>7, <2>1
<1>9. ASSUME NEW t \in Threads, WriteFails(t)
      PROVE  /\ Edits' /\ CursorTrue'
             /\ graph' # graph /\ graph' # <<>> /\ ~outside' => OneApart(graph, graph')
  BY <1>0, <1>f, <1>7, <1>9 DEF WriteFails, Fault, stores, window, ghosts
<1>10. ASSUME NEW kind, NEW new, NEW reused, Build(kind, new, reused)
       PROVE  /\ Edits' /\ CursorTrue'
              /\ graph' # graph /\ graph' # <<>> /\ ~outside' => OneApart(graph, graph')
  <2>1. UNCHANGED <<graph, hist, outside, shown, doc, faults>> /\ edits' = edits + 1 /\ edits < MaxEdits
    BY <1>10 DEF Build, CanEdit, stores, window, ghosts
  <2>2. edits + 1 \in 0 .. MaxEdits
    BY <1>0, <2>1 DEF KeepingAssumed
  <2> QED BY <1>0, <1>7, <2>1, <2>2
<1>11. CASE CanvasEdit \/ Rename
  BY <1>1, <1>11 DEF CanvasEdit, Rename
<1>12. CASE \E t \in Threads : Keeping(t)
  BY <1>3, <1>8, <1>9, <1>12 DEF Keeping
<1>13. CASE Model
  BY <1>2, <1>6, <1>8, <1>10, <1>13 DEF Model
<1>14. CASE Person
  BY <1>2, <1>5, <1>6, <1>8, <1>11, <1>14 DEF Person
<1> QED BY <1>4, <1>6, <1>8, <1>12, <1>13, <1>14 DEF AuthoringNext

\* Every step keeps what is planned.
LEMMA PlansStep == AuthInv /\ [AuthoringNext]_authoringVars => Plans'
<1> SUFFICES ASSUME AuthInv, [AuthoringNext]_authoringVars PROVE Plans'
  OBVIOUS
<1>0. KeepInv /\ KeepingAssumed /\ StoresInv /\ Edits /\ Plans /\ Threads = {"tool", "gui"}
  BY DEF AuthInv, KeepInv, Threads
<1>e. <<>> \in Graphs /\ NoDocument.graph = <<>>
  BY DEF Graphs, NoDocument
<1>1. Planned(Idle) /\ Planned(NoBuild)
  BY <1>e DEF Planned, Idle, NoBuild
<1>2. CASE UNCHANGED <<job, built>>
  BY <1>0, <1>2 DEF Plans, Planned
<1>3. ASSUME NEW t \in Threads, UNCHANGED built, DOMAIN job' = Threads,
             \A s \in Threads \ {t} : job'[s] = job[s],
             \/ Planned(job'[t])
             \/ /\ job'[t].graph = job[t].graph /\ job'[t].base = job[t].base
                /\ job'[t].kind = job[t].kind
      PROVE  Plans'
  BY <1>0, <1>3 DEF Plans, Planned
<1>4. ASSUME NEW t \in Threads, Ends(t), UNCHANGED built PROVE Plans'
  BY <1>0, <1>1, <1>3, <1>4 DEF Ends, StoresInv
<1>5. ASSUME NEW t \in Threads, Define(t) \/ Load(t) \/ SaveState(t) \/ Create(t) \/ Update(t) \/ WriteFails(t)
      PROVE  Plans'
  <2>1. UNCHANGED built
    BY <1>5 DEF Define, Load, SaveState, Create, Update, WriteFails, turnVars
  <2>2. CASE Ends(t)
    BY <1>4, <2>1, <2>2
  <2>3. CASE ~Ends(t)
    <3>1. DOMAIN job = Threads /\ DOMAIN job[t] = Fields
      BY <1>0 DEF StoresInv
    <3>2. /\ DOMAIN job' = Threads /\ \A s \in Threads \ {t} : job'[s] = job[s]
          /\ job'[t].graph = job[t].graph /\ job'[t].base = job[t].base /\ job'[t].kind = job[t].kind
      <4>1. CASE Define(t)
        BY <2>1, <2>3, <3>1, <4>1 DEF Define, Fields
      <4>2. CASE Load(t)
        BY <2>3, <3>1, <4>2 DEF Load, Fields
      <4>3. CASE SaveState(t)
        BY <2>3, <3>1, <4>3 DEF SaveState, Fields
      <4>4. CASE Create(t) \/ Update(t)
        BY <2>3, <3>1, <4>4 DEF Create, Update, Fields
      <4>5. CASE WriteFails(t)
        BY <2>3, <4>5 DEF WriteFails
      <4> QED BY <1>5, <4>1, <4>2, <4>3, <4>4, <4>5
    <3> QED BY <1>3, <2>1, <3>2
  <2> QED BY <2>2, <2>3
<1>6. CASE TellCard \/ TellTool
  BY <1>0, <1>4, <1>6 DEF TellCard, TellTool, turnVars
<1>7. ASSUME NEW a \in Agents, DeleteAgent(a) PROVE Plans'
  <2>1. /\ UNCHANGED built /\ DOMAIN job' = Threads /\ job'["tool"] = job["tool"]
        /\ job'["gui"].graph = <<>> /\ job'["gui"].base = NoDocument /\ job'["gui"].kind = "delete"
    BY <1>0, <1>7 DEF DeleteAgent, Idle, StoresInv, turnVars
  <2> QED BY <1>0, <1>3, <1>e, <2>1 DEF Planned
<1>8. ASSUME NEW t \in Threads, NEW kind, NEW f, NEW g, NEW base, StartKeeping(t, kind, f, g, base),
             Planned([kind |-> kind, graph |-> g, base |-> base]),
             built' = built \/ Planned(built')
      PROVE  Plans'
  <2>1. /\ DOMAIN job' = Threads /\ job'[t].kind = kind /\ job'[t].graph = g /\ job'[t].base = base
        /\ \A s \in Threads \ {t} : job'[s] = job[s]
    BY <1>0, <1>8, Starting DEF StoresInv
  <2>2. Planned(job'[t])
    BY <1>8, <2>1 DEF Planned
  <2> QED BY <1>0, <1>8, <2>1, <2>2 DEF Plans, Planned
<1>9. CASE Keep
  <2>1. Planned([kind |-> "team", graph |-> <<>>, base |-> NoDocument])
    BY <1>e DEF Planned
  <2> QED BY <1>0, <1>8, <1>9, <2>1 DEF Keep, turnVars
<1>10. ASSUME NEW a \in Team, SaveAgent(a) PROVE Plans'
  <2>1. Planned([kind |-> "agent", graph |-> <<>>, base |-> NoDocument])
    BY <1>e DEF Planned
  <2> QED BY <1>0, <1>8, <1>10, <2>1 DEF SaveAgent, turnVars
<1>11. CASE Retry
  <2>1. Planned([kind |-> built.kind, graph |-> built.graph, base |-> built.base])
    BY <1>0 DEF Plans, Planned
  <2> QED BY <1>0, <1>8, <1>11, <2>1 DEF Retry, turnVars
<1>12. ASSUME NEW kind \in {"new", "update"}, NEW new \in SUBSET Unborn, NEW reused,
              Build(kind, new, reused)
       PROVE  Plans'
  <2> DEFINE f == Facts(new, reused)
             b == IF kind = "update" THEN doc ELSE NoDocument
             g == NewEdit(b.graph, new \cup reused)
  <2>1. /\ built' = [kind |-> kind, facts |-> f, graph |-> g, base |-> b]
        /\ StartKeeping("tool", kind, f, g, b) /\ edits < MaxEdits /\ new \cup reused \in SUBSET Agents
    BY <1>12 DEF Build, CanEdit, Defined, Agents
  <2>2. b.graph \in Graphs
    BY <1>0 DEF Edits, NoDocument, Graphs
  <2>3. g \in Graphs /\ OneApart(b.graph, g)
    BY <1>0, <2>1, <2>2, NewEdits
  <2> HIDE DEF f, b, g
  <2>4. Planned([kind |-> kind, graph |-> g, base |-> b]) /\ Planned(built')
    BY <2>1, <2>2, <2>3 DEF Planned
  <2> QED BY <1>0, <1>8, <2>1, <2>4
<1>13. CASE TurnIsOver
  BY <1>0, <1>1, <1>13 DEF TurnIsOver, Plans, Planned
<1>14. CASE \/ CanvasEdit \/ CanvasStep \/ CardUndo \/ Redraw \/ Decline \/ Rename \/ DeleteWorkflow
            \/ Inspect \/ ToolUndo \/ WrittenOutside \/ TurnStarts \/ UNCHANGED authoringVars
            \/ \E a \in Agents : EditAgent(a) \/ \E p \in {"read", "write"} : SetPermission(a, p)
            \/ \E q \in Agents \cup {"workflow", "rename"} : Question(q)
  BY <1>2, <1>14 DEF CanvasEdit, CanvasStep, CardUndo, Redraw, Decline, Rename, DeleteWorkflow,
     Inspect, ToolUndo, WrittenOutside, Commit, TurnStarts, EditAgent, SetPermission, Question,
     authoringVars, turnVars
<1>15. ASSUME NEW new \in {{}} \cup {{a} : a \in Unborn},
              \/ \E reused \in Reuses : Build("new", new, reused)
              \/ doc # NoDocument /\ Build("update", new, Uses(doc.graph))
       PROVE  Plans'
  BY <1>12, <1>15
<1> QED BY <1>5, <1>6, <1>7, <1>9, <1>10, <1>11, <1>13, <1>14, <1>15 DEF AuthoringNext, Person, Model, Keeping

-----------------------------------------------------------------------------
\* At the start.
LEMMA KeepInit == KeepingAssumed /\ AuthoringInit => AuthInv
<1> SUFFICES ASSUME KeepingAssumed, AuthoringInit PROVE AuthInv
  OBVIOUS
<1>1. /\ defs = [a \in Agents |-> IF a \in Saved THEN "own" ELSE "none"]
      /\ grants = NoGrants /\ graph = <<[n |-> 0, uses |-> Saved]>> /\ files = {}
      /\ hist = [states |-> <<>>, at |-> 0] /\ shown = graph /\ doc = Document
      /\ built = NoBuild /\ turn = FALSE /\ dialog = "none" /\ kept = {}
      /\ job = [t \in Threads |-> Idle]
      /\ edits = 0 /\ changes = 0 /\ faults = 0 /\ born = {}
      /\ wish = NoGrants /\ told = {} /\ crossed = FALSE /\ outside = FALSE
  BY DEF AuthoringInit
<1>l. lossy \in Lossy /\ \A a \in Agents : defs[a] \in {"none", ReadBack(a)}
  <2>1. lossy \in Lossy /\ Lossy \subseteq SUBSET (Team \cup Unborn)
    BY DEF AuthoringInit, KeepingAssumed
  <2>2. \A a \in Saved : ReadBack(a) = "own"
    BY <2>1 DEF ReadBack, KeepingAssumed
  <2> QED BY <1>1, <2>1, <2>2
<1>2. /\ Threads = {"tool", "gui"} /\ DOMAIN Idle = Fields /\ Idle.pc = "idle" /\ Idle.kind = "none"
      /\ Idle.facts.new = {} /\ Idle.left = {} /\ Idle.read = NoGrants /\ Idle.graph = <<>>
      /\ Idle.base.graph = <<>> /\ NoBuild.facts.new = {} /\ NoBuild.kind = "none"
      /\ NoBuild.graph = <<>> /\ NoBuild.base.graph = <<>>
  BY DEF Threads, Idle, Fields, NoFacts, NoBuild, NoDocument
<1>3. NoGrants \in [Agents -> Grant] /\ Plain(NoGrants) /\ \A a \in Agents : NoGrants[a] = "none"
  BY DEF NoGrants, Grant, Plain
<1> HIDE DEF Idle, NoBuild, NoGrants
<1>4. \A t \in Threads : job[t] = Idle
  BY <1>1
<1>5. DOMAIN job = Threads /\ StoresInv
  <2>1. DOMAIN job = Threads
    BY <1>1
  <2>2. /\ lossy \in Lossy /\ defs \in [Agents -> {"none", "own", "altered", "edited"}]
        /\ \A a \in Agents : defs[a] \in {"none", ReadBack(a)}
        /\ grants \in [Agents -> Grant] /\ wish \in [Agents -> Grant]
    BY <1>1, <1>3, <1>l
  <2>3. changes \in 0 .. MaxChanges
    BY <1>1 DEF KeepingAssumed
  <2>4. \A t \in Threads :
          /\ DOMAIN job[t] = Fields
          /\ job[t].pc \in {"idle", "define", "load", "save", "commit", "tell"}
          /\ job[t].left \subseteq job[t].facts.new /\ job[t].facts.new \subseteq Agents
          /\ job[t].read \in [Agents -> Grant] /\ Free(t) /\ job[t].facts.new = {}
    BY <1>2, <1>3, <1>4 DEF Free
  <2>5. "tool" \in Threads
    BY <1>2
  <2>6. /\ files \subseteq {"team", "new"} /\ kept \subseteq Team \cup {"team"}
        /\ turn \in BOOLEAN /\ dialog \in Agents \cup {"none", "workflow", "rename"}
        /\ built = NoBuild /\ born \subseteq Unborn /\ told \subseteq Agents /\ crossed \in BOOLEAN
    BY <1>1
  <2> QED BY <2>1, <2>2, <2>3, <2>4, <2>5, <2>6 DEF StoresInv
<1>6. Tasks /\ Progress /\ Departing
  BY <1>1, <1>2, <1>4 DEF Tasks, Progress, ReadBack, Departing, Keeps, Deletes, Doomed, Defined, Free, KeepingAssumed
<1>7. Wishes /\ WishesStand /\ KeptIsThere
  BY <1>1, <1>2, <1>3, <1>4 DEF Wishes, WishesStand, KeptIsThere, ReadBack, Keeps, Free
<1>8. Untouched
  BY <1>1, <1>2, <1>3, <1>4, <1>l DEF Untouched, Agents
<1>9. [n |-> 0, uses |-> Saved] \in Edit /\ <<>> \in Graphs /\ <<>> \in Seq(Graphs) /\ Len(<<>>) = 0
  BY DEF Edit, Agents, KeepingAssumed, Graphs
<1>10. graph \in Graphs /\ doc.graph \in Graphs
  <2>1. \A e \in Edit : <<e>> \in Seq(Edit)
    OBVIOUS
  <2>2. graph \in Graphs
    BY <1>1, <1>9, <2>1 DEF Graphs
  <2> QED BY <1>1, <1>9, <2>2, Documents
<1>11. Edits
  <2>1. /\ hist.states = <<>> /\ hist.at = 0 /\ DOMAIN hist = {"states", "at"}
        /\ shown = graph /\ outside = FALSE
    BY <1>1
  <2>2. edits \in 0 .. MaxEdits /\ faults \in 0 .. MaxFaults
    BY <1>1 DEF KeepingAssumed
  <2>3. Len(hist.states) = 0 /\ 0 <= Limit /\ 0 \in 0 .. 0
    BY <1>9, <2>1 DEF KeepingAssumed
  <2>4. hist.at \in 0 .. Len(hist.states)
    BY <2>1, <2>3
  <2>5. Chain(hist.states)
    BY <2>3 DEF Chain
  <2> QED BY <1>9, <1>10, <2>1, <2>2, <2>3, <2>4, <2>5 DEF Edits
<1>12. Plans
  BY <1>1, <1>2, <1>4, <1>9 DEF Plans, Planned
<1> QED BY <1>5, <1>6, <1>7, <1>8, <1>11, <1>12 DEF AuthInv, KeepInv

\* Every step keeps it.
LEMMA AuthoringInductive == AuthInv /\ [AuthoringNext]_authoringVars => AuthInv'
BY KeepInductive, EditsStep, PlansStep DEF AuthInv

\* AuthInv holds throughout.
LEMMA AuthoringInvariance == AuthoringSpec => []AuthInv
<1>1. KeepingAssumed
  BY AgentsAssumption, BoundsAssumption, ReusesAssumption, LossyAssumption DEF KeepingAssumed, Agents
<1>2. AuthoringInit => AuthInv
  BY <1>1, KeepInit
<1> QED BY <1>2, AuthoringInductive, PTL DEF AuthoringSpec

\* The type invariant is part of it.
LEMMA AuthoringTypes == AuthInv => AuthoringTypeOK
<1> SUFFICES ASSUME AuthInv PROVE AuthoringTypeOK
  OBVIOUS
<1>1. StoresInv /\ Edits
  BY DEF AuthInv, KeepInv
<1>2. \A g \in {graph, shown, doc.graph} : \A i \in DOMAIN g : g[i] \in Edit
  BY <1>1 DEF Edits, Graphs
<1> QED BY <1>1, <1>2 DEF StoresInv, Edits, AuthoringTypeOK

\* Every variable of Authoring keeps its type, whatever the Agents and the bounds.
THEOREM AuthoringTypeCorrect == AuthoringSpec => []AuthoringTypeOK
BY AuthoringInvariance, AuthoringTypes, PTL

\* Keeping may fail after any of its writes and be repeated, on two threads at
\* once: what was reported as kept is there until a person changes it, unless two
\* saves of the local state crossed.
THEOREM KeptStays == AuthoringSpec => []KeptIsThere
<1>1. AuthInv => KeptIsThere
  BY DEF AuthInv, KeepInv
<1> QED BY <1>1, AuthoringInvariance, PTL

\* No build replaces a grant that a person chose, and a team whose Agents nobody
\* changed can still be kept however many writes failed, as long as none of them
\* put a definition on disk that the parser reads as another one.
THEOREM GrantsAreHonoured == AuthoringSpec => []GrantsHonoured
<1>1. AuthInv => GrantsHonoured
  BY RetryStaysOpen DEF AuthInv, KeepInv, GrantsHonoured
<1> QED BY <1>1, AuthoringInvariance, PTL

\* Whoever edits or takes back, the file moves by exactly one edit, and the history's
\* cursor stays on the file Aura wrote last.
THEOREM EditsOneAtATime == AuthoringSpec => OneEditAtATime
<1>1. AuthInv /\ [AuthoringNext]_authoringVars =>
        [/\ CursorTrue'
         /\ graph' # graph /\ graph' # <<>> /\ ~outside' => OneApart(graph, graph')]_authoringVars
  BY EditsStep
<1> QED BY <1>1, AuthoringInvariance, PTL DEF AuthoringSpec, OneEditAtATime
=============================================================================
