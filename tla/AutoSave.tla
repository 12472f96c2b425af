------------------------------ MODULE AutoSave ------------------------------
(***************************************************************************)
(* The conversation on the screen and its file on disk.                     *)
(*                                                                          *)
(* A finished turn is saved by a background thread that works on a copy of  *)
(* the history (ConversationPersistence.auto_save); the thread tells the    *)
(* GUI thread which file it wrote with a queued signal, and that file is    *)
(* the one the next save writes to.  Meanwhile the person can start a new   *)
(* conversation, open another one, ask for a handoff into a fresh one, or   *)
(* quit.  The module has one action per GUI event and one per step of a     *)
(* save, so that saves, their notices and the GUI events interleave.        *)
(*                                                                          *)
(* A turn is a number; a history is the set of its finished turns; a file   *)
(* name is the slug of the first message and the second of its time stamp.  *)
(* A slug keeps six words in lower case, and every conversation that a      *)
(* handoff starts begins with the same words, so conversations share slugs; *)
(* a name is taken without looking whether the file is there.               *)
(*                                                                          *)
(* A definition named X_Something beside X is X with a plausible defect,    *)
(* used by the mutation runs of PROJECT.json only.                          *)
(***************************************************************************)
EXTENDS Naturals, Sequences

CONSTANTS
  Conversations,  \* the conversations of the run
  First,          \* the one an earlier run of Aura left on disk
  Slugs,          \* the slugs
  Slug,           \* the slug of each conversation's first message
  HandoffSlug,    \* that of every conversation a handoff starts
  NoPath,         \* "no file yet"
  Absent,         \* no file of that name
  Torn,           \* a truncated file, or two writers over each other: not JSON
  MaxTurns,       \* bound: turns finished in the run
  MaxSecond,      \* bound: seconds the time stamps can tell apart
  MaxGeneration,  \* bound: fresh conversations between two starts of Aura
  SavesFail,      \* TRUE: writing a file may fail
  Quits           \* TRUE: Aura may be closed, or die, and start again

ASSUME FirstAssumption == First \in Conversations
ASSUME SlugAssumption == Slug \in [Conversations -> Slugs]
ASSUME BoundAssumption ==
  /\ MaxTurns \in Nat
  /\ MaxSecond \in Nat
  /\ MaxGeneration \in Nat
  /\ SavesFail \in BOOLEAN
  /\ Quits \in BOOLEAN

Turns == 0 .. MaxTurns
Paths == [slug : Slugs, second : 0 .. MaxSecond]

ASSUME NoPathAssumption == NoPath \notin Paths

Content == [conv : Conversations, turns : SUBSET Turns]

ASSUME ContentAssumption == Absent \notin Content /\ Torn \notin Content

Save == [id : Turns, conv : Conversations, turns : SUBSET Turns,
         file : Paths \cup {NoPath}, at : Nat, pc : {"open", "write"}]
Notice == [file : Paths, at : Nat]

VARIABLES
  live,        \* the conversation on the screen
  turns,       \* its history
  path,        \* _current_conversation_path
  generation,  \* _conversation_generation
  running,     \* a turn runs
  settling,    \* a turn has finished and _settle_finished_turn is scheduled
  final,       \* _final_stream_message: none, without text, or with text
  pending,     \* _pending_handoff
  choosing,    \* the file dialog of Open is on the screen
  saves,       \* the save threads
  notices,     \* save_succeeded signals the GUI thread has not handled yet
  disk,        \* the conversation files
  newest,      \* the file with the latest modification time
  now          \* the second it is

\* History variables, which only the properties read.
VARIABLES
  made,        \* turns finished so far
  takers,      \* the conversations that took a file's name for theirs
  excused,     \* turns that a failure, events too close together, or another
               \* conversation with the same file name may have cost
  raced,       \* a conversation was opened before a save, or its notice, ended
  split,       \* a save began with no file while an earlier one had yet to name its own
  asked,       \* the turn that runs, or ran last, is a handoff request
  stray        \* a handoff request was refused, stopped, or overtaken

gui == <<live, turns, path, generation, running, settling, final, pending, choosing>>
history == <<made, takers, excused, raced, split, asked, stray>>
vars == <<gui, saves, notices, disk, newest, now, history>>

-----------------------------------------------------------------------------
(* Helpers.                                                                 *)

Intact(p) == disk[p] \in Content

\* A conversation that does not exist yet.
Fresh(c) ==
  /\ c # live
  /\ \A s \in saves : s.conv # c
  /\ \A p \in Paths : c \notin takers[p]

\* A save that can still change the disk, or a notice that can still change
\* the current path.
InFlight == saves # {} \/ \E i \in DOMAIN notices : notices[i].at = generation

\* The turn that has finished and is not in a save yet.
Unsettled == IF settling THEN {made} ELSE {}

\* What a thread that opens or writes its file takes from the conversation that
\* has it.
Overwritten(s) ==
  IF Intact(s.file) /\ disk[s.file].conv # s.conv THEN disk[s.file].turns ELSE {}

-----------------------------------------------------------------------------
Init ==
  \E p \in {[slug |-> Slug[First], second |-> 0]} :
    /\ live = First /\ turns = {0} /\ path = p /\ generation = 0
    /\ running = FALSE /\ settling = FALSE /\ final = "none" /\ pending = FALSE
    /\ choosing = FALSE
    /\ saves = {} /\ notices = <<>> /\ newest = p /\ now = 0
    /\ disk = [q \in Paths |-> IF q = p THEN [conv |-> First, turns |-> {0}]
                                        ELSE Absent]
    /\ takers = [q \in Paths |-> IF q = p THEN {First} ELSE {}]
    /\ made = 0 /\ excused = {} /\ raced = FALSE /\ split = FALSE
    /\ asked = FALSE /\ stray = FALSE

\* A turn starts: _on_started forgets the final message of the turn before.
Start ==
  /\ ~running /\ made < MaxTurns
  /\ running' = TRUE
  /\ final' = "none"

Send ==
  /\ Start
  /\ asked' = FALSE
  /\ stray' = (stray \/ settling)
  /\ UNCHANGED <<live, turns, path, generation, settling, pending, choosing, saves,
                 notices, disk, newest, now, made, takers, excused, raced, split>>

\* request_handoff remembers the request before it sends; handle_send may
\* refuse to.
RequestHandoff ==
  /\ ~running /\ ~choosing
  /\ pending' = TRUE
  /\ \/ Start /\ asked' = TRUE /\ UNCHANGED stray
     \/ stray' = TRUE /\ UNCHANGED <<running, final, asked>>
  /\ UNCHANGED <<live, turns, path, generation, settling, choosing, saves, notices,
                 disk, newest, now, made, takers, excused, raced, split>>

\* bridge.finished: the turn is in the history and its settling is scheduled
\* for when the events already queued are handled.  No turn is shorter than that.
Finished(f) ==
  /\ running /\ ~settling
  /\ running' = FALSE
  /\ settling' = TRUE
  /\ final' = f
  /\ turns' = turns \cup {made + 1}
  /\ made' = made + 1
  /\ UNCHANGED <<live, path, generation, choosing, saves, notices, disk, newest, now,
                 takers, excused, raced, split, asked>>

\* The last answer was received in full, or Stop came before it was.
TurnEnds ==
  \E f \in {"none", "empty", "text"} :
    /\ Finished(f)
    /\ stray' = (stray \/ (f = "none" /\ pending))
    /\ UNCHANGED pending

\* An error leaves the request in place.
ClearOnError_Kept == UNCHANGED pending

\* An API error drops the handoff (clear_on_error).
ClearOnError == pending' = FALSE

TurnFails ==
  /\ Finished("none")
  /\ ClearOnError
  /\ UNCHANGED stray

\* The copy is taken when the stream is done, before the answer is in
\* the history.
AutoSaved_OnDone ==
  IF turns = {} /\ ~running
    THEN {}
    ELSE {[id |-> made, conv |-> live, turns |-> turns \ {made}, file |-> path,
           at |-> generation, pc |-> "open"]}

\* auto_save: a copy of the history, the current path and the generation go to
\* a thread.  An empty history is not saved.
AutoSaved ==
  IF turns = {} /\ ~running
    THEN {}
    ELSE {[id |-> made, conv |-> live, turns |-> turns, file |-> path,
           at |-> generation, pc |-> "open"]}

\* new_conversation, of one in Some.
NewConversation(Some) ==
  /\ generation < MaxGeneration
  /\ \E c \in Some : Fresh(c) /\ live' = c
  /\ turns' = {}
  /\ path' = NoPath
  /\ generation' = generation + 1

Handoff == final = "text" /\ pending
HandedOff == {c \in Conversations : Slug[c] = HandoffSlug}

\* _settle_finished_turn: save, then finalize_handoff if there is a final
\* message.
Settle ==
  /\ settling
  /\ settling' = FALSE
  /\ saves' = saves \cup AutoSaved
  /\ final' = "none"
  /\ pending' = (pending /\ final = "none")
  /\ IF Handoff THEN NewConversation(HandedOff)
                ELSE UNCHANGED <<live, turns, path, generation>>
  /\ excused' = excused \cup (IF \E s \in saves : s.conv = live THEN turns ELSE {})
  /\ split' = (split \/ (path = NoPath /\ \E s \in saves : s.conv = live)
                     \/ (path = NoPath /\ InFlight))
  /\ UNCHANGED <<running, choosing, notices, disk, newest, now, made, takers, raced,
                 asked, stray>>

\* New and Open are refused while a turn runs, not while one settles: its save
\* then copies the history that has taken its place.
Replaced ==
  /\ excused' = excused \cup Unsettled \cup (IF running THEN {made + 1} ELSE {})
  /\ stray' = (stray \/ settling)
  /\ UNCHANGED <<running, settling, final, pending, saves, notices, disk, newest,
                 now, made, takers, split, asked>>

New ==
  /\ ~running
  /\ NewConversation(Conversations)
  /\ Replaced
  /\ UNCHANGED <<choosing, raced>>

\* apply_loaded: the generation stays what it was.
ApplyLoaded(p) ==
  /\ Intact(p)
  /\ live' = disk[p].conv
  /\ turns' = disk[p].turns
  /\ path' = p
  /\ raced' = (raced \/ InFlight)
  /\ Replaced
  /\ UNCHANGED generation

\* From the list of threads, or from the phone.
Open(p) == ~running /\ ApplyLoaded(p) /\ UNCHANGED choosing

\* From the toolbar: the file dialog lets events through, so a queued message or
\* one from the phone may start a turn before a file is chosen.
OpenDialog ==
  /\ ~running /\ ~choosing
  /\ choosing' = TRUE
  /\ UNCHANGED <<live, turns, path, generation, running, settling, final, pending,
                 saves, notices, disk, newest, now, history>>

Choose(p) == choosing /\ choosing' = FALSE /\ ApplyLoaded(p)

Dismiss ==
  /\ choosing
  /\ choosing' = FALSE
  /\ UNCHANGED <<live, turns, path, generation, running, settling, final, pending,
                 saves, notices, disk, newest, now, history>>

-----------------------------------------------------------------------------
(* The save threads.                                                        *)

\* _new_path.
NewPath(s) == [slug |-> Slug[s.conv], second |-> now]

\* The thread was given no path.
Name(s) ==
  /\ s \in saves /\ s.file = NoPath
  /\ saves' = (saves \ {s})
       \cup {[s EXCEPT !.file = NewPath(s)]}
  /\ takers' = [takers EXCEPT ![NewPath(s)] = @ \cup {s.conv}]
  /\ UNCHANGED <<gui, notices, disk, newest, now, made, excused, raced, split, asked,
                 stray>>

\* A thread without a path goes on without one.
Truncate_Unnamed(s) ==
  /\ s \in saves /\ s.pc = "open"
  /\ saves' = (saves \ {s}) \cup {[s EXCEPT !.pc = "write"]}
  /\ disk' = [disk EXCEPT ![s.file] = Torn]
  /\ newest' = s.file
  /\ UNCHANGED <<gui, notices, now, history>>

\* write_text opens the file, which empties it...
Truncate(s) ==
  /\ s \in saves /\ s.pc = "open" /\ s.file # NoPath
  /\ saves' = (saves \ {s}) \cup {[s EXCEPT !.pc = "write"]}
  /\ disk' = [disk EXCEPT ![s.file] = Torn]
  /\ newest' = s.file
  /\ excused' = excused \cup Overwritten(s)
  /\ UNCHANGED <<gui, notices, now, made, takers, raced, split, asked, stray>>

\* ... and writes.  Over what another thread has written in between, a shorter
\* text leaves the end of the longer one.
Write(s) ==
  /\ s \in saves /\ s.pc = "write"
  /\ saves' = saves \ {s}
  /\ \E text \in {[conv |-> s.conv, turns |-> s.turns]}
                   \cup (IF Intact(s.file) THEN {Torn} ELSE {}) :
       /\ disk' = [disk EXCEPT ![s.file] = text]
       /\ excused' = Overwritten(s) \cup
            (IF text = Torn THEN excused \cup s.turns
             ELSE IF \E r \in saves \ {s} : r.conv = s.conv THEN excused
             ELSE excused \ s.turns)
  /\ newest' = s.file
  /\ notices' = Append(notices, [file |-> s.file, at |-> s.at])
  /\ UNCHANGED <<gui, now, made, takers, raced, split, asked, stray>>

\* save_failed: shown, and not tried again.
Fail(s) ==
  /\ SavesFail
  /\ s \in saves
  /\ saves' = saves \ {s}
  /\ excused' = excused \cup s.turns
  /\ UNCHANGED <<gui, notices, disk, newest, now, made, takers, raced, split, asked,
                 stray>>

\* The generation is not compared.
Deliver_AnyGeneration ==
  /\ notices # <<>>
  /\ notices' = Tail(notices)
  /\ path' = Head(notices).file
  /\ UNCHANGED <<live, turns, generation, running, settling, final, pending,
                 choosing, saves, disk, newest, now, history>>

\* _on_save_succeeded.
Deliver ==
  /\ notices # <<>>
  /\ notices' = Tail(notices)
  /\ path' = IF Head(notices).at = generation THEN Head(notices).file ELSE path
  /\ UNCHANGED <<live, turns, generation, running, settling, final, pending,
                 choosing, saves, disk, newest, now, history>>

Tick ==
  /\ now < MaxSecond
  /\ now' = now + 1
  /\ UNCHANGED <<gui, saves, notices, disk, newest, history>>

\* Aura is closed or dies, and starts again with restore_last: the save threads
\* are daemons; a newest file that cannot be read restores nothing.
Restart ==
  /\ Quits
  /\ IF Intact(newest)
       THEN live' = disk[newest].conv /\ turns' = disk[newest].turns /\ path' = newest
       ELSE /\ \E c \in Conversations : Fresh(c) /\ live' = c
            /\ turns' = {} /\ path' = NoPath
  /\ generation' = 0 /\ running' = FALSE /\ settling' = FALSE
  /\ final' = "none" /\ pending' = FALSE /\ choosing' = FALSE
  /\ asked' = FALSE
  /\ saves' = {} /\ notices' = <<>>
  /\ excused' = excused \cup Unsettled \cup UNION {s.turns : s \in saves}
  /\ UNCHANGED <<disk, newest, now, made, takers, raced, split, stray>>

Next ==
  \/ Send \/ RequestHandoff \/ TurnEnds \/ TurnFails \/ Settle
  \/ New \/ OpenDialog \/ Dismiss
  \/ \E p \in Paths : Open(p) \/ Choose(p)
  \/ \E s \in saves : Name(s) \/ Truncate(s) \/ Write(s) \/ Fail(s)
  \/ Deliver \/ Tick \/ Restart

Spec == Init /\ [][Next]_vars

-----------------------------------------------------------------------------
(* Properties.                                                              *)

TypeOK ==
  /\ live \in Conversations
  /\ turns \subseteq Turns
  /\ path \in Paths \cup {NoPath}
  /\ generation \in Nat
  /\ running \in BOOLEAN
  /\ settling \in BOOLEAN
  /\ final \in {"none", "empty", "text"}
  /\ pending \in BOOLEAN
  /\ choosing \in BOOLEAN
  /\ saves \subseteq Save
  /\ notices \in Seq(Notice)
  /\ disk \in [Paths -> Content \cup {Absent, Torn}]
  /\ newest \in Paths
  /\ now \in 0 .. MaxSecond
  /\ made \in Turns
  /\ takers \in [Paths -> SUBSET Conversations]
  /\ excused \subseteq Turns
  /\ raced \in BOOLEAN /\ split \in BOOLEAN
  /\ asked \in BOOLEAN /\ stray \in BOOLEAN

\* A conversation file holds a conversation that took its name for the file of
\* its own, whatever saves, notices, New and handoffs cross each other, as long as
\* nobody opens a conversation while a save or its notice is on its way.  Guards
\* _on_save_succeeded and the copies auto_save takes.  More than one can take a
\* name: _new_path does not look for a file that is there.
OwnFile == ~raced => \A p \in Paths : Intact(p) => disk[p].conv \in takers[p]

\* The same without the proviso: the comment in auto_save speaks of preventing
\* contamination, and Open is offered whenever no turn runs.
OwnFileAlways == \A p \in Paths : Intact(p) => disk[p].conv \in takers[p]

\* A conversation has one file, unless a save began without a path while
\* an earlier one was still on its way.
OneFile ==
  ~raced /\ ~split =>
    \A p, q \in Paths :
      Intact(p) /\ Intact(q) /\ disk[p].conv = disk[q].conv => p = q

\* Once the saves have ended every finished turn is in a readable file, except
\* those of a save that failed, crossed another one of the same conversation or
\* was cut off, those of a file that another conversation of the same slug wrote
\* over, having taken its name in the same second, and a turn whose history was
\* replaced before it settled; and that file is the only one of its conversation.
TurnsKept ==
  /\ OneFile
  /\ ~raced /\ ~settling /\ saves = {} =>
       \A t \in 0 .. made \ excused : \E p \in Paths : Intact(p) /\ t \in disk[p].turns

\* A finished turn takes the person to a fresh conversation only if that turn is
\* the handoff they asked for and it is still on the screen, as long as every
\* request got its answer or its error.  Guards the two halves of _pending_handoff.
HandoffAsked ==
  [][Settle /\ generation' # generation /\ ~stray => asked /\ made \in turns]_vars
=============================================================================
