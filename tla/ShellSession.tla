---------------------------- MODULE ShellSession ----------------------------
(***************************************************************************)
(* The persistent PowerShell of a conversation: the shell tool that        *)
(* prepares a command and reports it (src/aura/conversation/shell_tool.py),*)
(* the session that owns the process (src/aura/shell/powershell_session.py)*)
(* and the protocol that finds the end of a command in what the process    *)
(* prints (src/aura/shell/powershell_protocol.py).                         *)
(*                                                                         *)
(* Four parties take steps of their own: the thread that runs the tool     *)
(* call, the shell process, which may also die at any moment, the two      *)
(* threads that read its pipes, and the person, who stops the turn or      *)
(* starts a new conversation.  A command is what it does: it changes       *)
(* directory, prints on a stream, leaves a child holding the pipes, ends   *)
(* or takes the shell with it.  A shell is its number; its text is counted,*)
(* not spelt.  A shell that is told to end ends, and a pipe takes any      *)
(* amount of text; a child left behind prints nothing of its own, but for  *)
(* what may spoil the end of a command.                                    *)
(*                                                                         *)
(* A definition named X_Something beside X is X with a plausible defect,   *)
(* used by the mutation runs of PROJECT.json only.                         *)
(***************************************************************************)
EXTENDS Naturals, Sequences

CONSTANTS
  Dirs,       \* directories of the workspace
  Root,       \* its root
  NoDir,      \* "no cwd asked for", "no record yet"
  MaxCalls,   \* bound: tool calls
  MaxShells,  \* bound: shells ever started
  MaxText     \* bound: pieces of text a command prints

ASSUME DirsAssumption == Root \in Dirs /\ NoDir \notin Dirs
ASSUME BoundAssumption == MaxCalls \in Nat /\ MaxShells \in Nat /\ MaxText \in Nat

Streams == {"stdout", "stderr"}

\* What a reader thread finds: text, the boundary of the command, the end.
Items == {"text", "boundary", "eof"}

VARIABLES
  shell,     \* the shell _process holds, 0 when there is none
  known,     \* _current_cwd
  ever,      \* _ever_submitted
  queue,     \* _queue: stream and item, in the order the readers put them
  shells     \* shells started so far

session == <<shell, known, ever, queue, shells>>

\* The process that shell names.
VARIABLES
  alive,     \* it runs
  where,     \* its location
  stage,     \* what it is at: nothing, a command, the boundary of one stream
  pipe,      \* what it has printed and nobody has read
  held       \* a child of it keeps the pipes open

process == <<alive, where, stage, pipe, held>>

\* The tool call.
VARIABLES
  pc,        \* idle, execute (no lock yet), submit, collect
  calls,     \* calls made
  target,    \* resolved_cwd, reported as the starting directory
  moves,     \* the command is prepared with a Set-Location
  fresh,     \* process_was_started
  cancelled, \* the turn's cancel event
  seen,      \* streams whose boundary was read
  eof,       \* streams whose end was read
  record,    \* the directory in the completion record
  got        \* pieces of text collected

call == <<pc, calls, target, moves, fresh, cancelled, seen, eof, record, got>>

\* History variables, which only the properties read.
VARIABLES
  ran,       \* where the current or last command began to run
  wrote,     \* pieces of text it printed
  replaced,  \* the shell had died since the last command, and was replaced
  believed,  \* the shell the results so far let the model count on, or 0
  last       \* the last result: its failure, its shell, whether it said "new shell"

history == <<ran, wrote, replaced, believed, last>>
vars == <<session, process, call, history>>

Failures == {"none", "not_submitted", "cancelled", "timeout", "shell_exited",
             "malformed_record"}

-----------------------------------------------------------------------------
Init ==
  /\ shell = 0 /\ known = Root /\ ever = FALSE /\ queue = <<>> /\ shells = 0
  /\ alive = FALSE /\ where = Root /\ stage = "idle" /\ held = FALSE
  /\ pipe = [s \in Streams |-> <<>>]
  /\ pc = "idle" /\ calls = 0 /\ target = Root /\ moves = FALSE /\ fresh = FALSE
  /\ cancelled = FALSE /\ seen = {} /\ eof = {} /\ record = NoDir /\ got = 0
  /\ ran = NoDir /\ wrote = 0 /\ replaced = FALSE /\ believed = 0
  /\ last = [failure |-> "none", shell |-> 0, said |-> FALSE, counted |-> 0,
             got |-> 0, wrote |-> 0]

\* handle_terminal_command, up to the session: where the command is to run, and
\* whether it has to go there first.
Call(d) ==
  /\ pc = "idle" /\ calls < MaxCalls
  /\ pc' = "execute"
  /\ calls' = calls + 1
  /\ target' = IF d = NoDir THEN known ELSE d
  /\ moves' = (target' # known)
  /\ ran' = NoDir
  /\ UNCHANGED <<session, process, fresh, cancelled, seen, eof, record, got,
                 wrote, replaced, believed, last>>

\* _reset_process_state.
ResetState ==
  /\ shell' = 0
  /\ known' = Root
  /\ queue' = <<>>

\* terminate_process_tree: the process is gone, and its pipes are closed.
Terminated ==
  /\ alive' = FALSE
  /\ held' = FALSE
  /\ stage' = "idle"
  /\ pipe' = [s \in Streams |-> <<>>]
  /\ UNCHANGED where

\* A result: what it says, beside the shell the earlier ones let one count on.
Returns(failure, sh, said, text) ==
  /\ pc' = "idle"
  /\ last' = [failure |-> failure, shell |-> sh, said |-> said,
              counted |-> believed, got |-> text, wrote |-> wrote]
  /\ believed' = IF failure = "none" THEN sh ELSE 0

\* _invalidate_result: the command was never submitted.
Invalidate ==
  /\ Terminated
  /\ ResetState
  /\ Returns("not_submitted", shell, FALSE, 0)
  /\ UNCHANGED <<ever, shells, calls, target, moves, fresh, cancelled, seen, eof,
                 record, got, ran, wrote, replaced>>

\* Stop came before the session lock was taken.
CancelledBefore ==
  /\ pc = "execute" /\ cancelled
  /\ Invalidate

\* A new shell, in the workspace root.
Started ==
  /\ shells < MaxShells
  /\ shells' = shells + 1
  /\ shell' = shells + 1
  /\ queue' = <<>>
  /\ alive' = TRUE
  /\ where' = Root
  /\ stage' = "idle"
  /\ held' = FALSE
  /\ pipe' = [s \in Streams |-> <<>>]

\* Only a session without a process counts as new.
EnsureStarted_Quiet ==
  /\ pc = "execute" /\ ~cancelled
  /\ pc' = "submit"
  /\ IF shell # 0 /\ alive
       THEN fresh' = FALSE /\ UNCHANGED <<session, process>>
       ELSE fresh' = (shell = 0) /\ known' = Root /\ Started /\ UNCHANGED ever
  /\ replaced' = (shell # 0 /\ ~alive)
  /\ UNCHANGED <<calls, target, moves, cancelled, seen, eof, record, got, ran, wrote,
                 believed, last>>

\* _ensure_started: the shell that runs is used; one that has died is cleared
\* away, with the directory it was in, and a new one started.
EnsureStarted ==
  /\ pc = "execute" /\ ~cancelled
  /\ pc' = "submit"
  /\ IF shell # 0 /\ alive
       THEN fresh' = FALSE /\ UNCHANGED <<session, process>>
       ELSE fresh' = TRUE /\ known' = Root /\ Started /\ UNCHANGED ever
  /\ replaced' = (shell # 0 /\ ~alive)
  /\ UNCHANGED <<calls, target, moves, cancelled, seen, eof, record, got, ran, wrote,
                 believed, last>>

\* No shell can be found or started.
StartFails ==
  /\ pc = "execute" /\ ~cancelled /\ ~(shell # 0 /\ alive)
  /\ Invalidate

\* The framed command is written to a live shell.
Submit ==
  /\ pc = "submit" /\ alive
  /\ pc' = "collect"
  /\ stage' = "given"
  /\ ever' = TRUE
  /\ seen' = {} /\ eof' = {} /\ record' = NoDir /\ got' = 0
  /\ wrote' = 0
  /\ UNCHANGED <<shell, known, queue, shells, alive, where, pipe, held,
                 calls, target, moves, fresh, cancelled, ran, replaced, believed, last>>

\* The shell died since: the pipe is broken.
SubmitFails ==
  /\ pc = "submit" /\ ~alive
  /\ Invalidate

-----------------------------------------------------------------------------
(* The shell process.                                                       *)

\* It takes the command, after the Set-Location it may have been given.
Begin ==
  /\ alive /\ stage = "given"
  /\ stage' = "running"
  /\ where' = IF moves THEN target ELSE where
  /\ ran' = where'
  /\ UNCHANGED <<session, alive, pipe, held, call, wrote, replaced, believed, last>>

Prints(s) ==
  /\ alive /\ stage = "running" /\ wrote < MaxText
  /\ pipe' = [pipe EXCEPT ![s] = Append(@, "text")]
  /\ wrote' = wrote + 1
  /\ UNCHANGED <<session, alive, where, stage, held, call, ran, replaced, believed, last>>

ChangesDirectory(d) ==
  /\ alive /\ stage = "running"
  /\ where' = d
  /\ UNCHANGED <<session, alive, stage, pipe, held, call, history>>

LeavesChild ==
  /\ alive /\ stage = "running"
  /\ held' = TRUE
  /\ UNCHANGED <<session, alive, where, stage, pipe, call, history>>

\* frame_command: the record on stdout, then the marker on stderr.
Bounds(s, before, after) ==
  /\ alive /\ stage = before
  /\ stage' = after
  /\ pipe' = [pipe EXCEPT ![s] = Append(@, "boundary")]
  /\ UNCHANGED <<session, alive, where, held, call, history>>

WritesRecord == Bounds("stdout", "running", "recorded")
WritesMarker == Bounds("stderr", "recorded", "idle")

\* The ends of the pipes, once nothing holds them.
Closed(p) == [s \in Streams |-> Append(p[s], "eof")]

\* The shell dies: the command ends it, or somebody else does.
Dies ==
  /\ alive
  /\ alive' = FALSE
  /\ pipe' = IF held THEN pipe ELSE Closed(pipe)
  /\ UNCHANGED <<session, where, stage, held, call, history>>

\* The child it left behind ends.
ChildEnds ==
  /\ held
  /\ held' = FALSE
  /\ pipe' = IF alive THEN pipe ELSE Closed(pipe)
  /\ UNCHANGED <<session, alive, where, stage, call, history>>

\* read_pipe.
Reads(s) ==
  /\ pipe[s] # <<>>
  /\ queue' = Append(queue, <<s, Head(pipe[s])>>)
  /\ pipe' = [pipe EXCEPT ![s] = Tail(@)]
  /\ UNCHANGED <<shell, known, ever, shells, alive, where, stage, held, call, history>>

-----------------------------------------------------------------------------
(* collect_boundaries.                                                      *)

Collecting == pc = "collect" /\ seen # Streams

\* The end of a stream is taken for its boundary.
Consume_EndIsBoundary ==
  /\ Collecting /\ ~cancelled /\ queue # <<>>
  /\ queue' = Tail(queue)
  /\ LET s == Head(queue)[1]
         item == Head(queue)[2]
     IN /\ eof' = IF item = "eof" THEN eof \cup {s} ELSE eof
        /\ seen' = IF item # "text" THEN seen \cup {s} ELSE seen
        /\ record' = IF item = "boundary" /\ s = "stdout" THEN where ELSE record
        /\ got' = IF item = "text" /\ s \notin seen THEN got + 1 ELSE got
  /\ UNCHANGED <<shell, known, ever, shells, process, pc, calls, target, moves, fresh,
                 cancelled, history>>

\* consume: a stream that has shown its boundary is not listened to any more,
\* but for its end.  The record is of the directory the shell was in.
Consume ==
  /\ Collecting /\ ~cancelled /\ queue # <<>>
  /\ queue' = Tail(queue)
  /\ LET s == Head(queue)[1]
         item == Head(queue)[2]
     IN /\ eof' = IF item = "eof" THEN eof \cup {s} ELSE eof
        /\ seen' = IF item = "boundary" THEN seen \cup {s} ELSE seen
        /\ record' = IF item = "boundary" /\ s = "stdout" THEN where ELSE record
        /\ got' = IF item = "text" /\ s \notin seen THEN got + 1 ELSE got
  /\ UNCHANGED <<shell, known, ever, shells, process, pc, calls, target, moves, fresh,
                 cancelled, history>>

\* _collection_failure_result: the session is reset, and the result says so.
Failed(failure) ==
  /\ Terminated
  /\ ResetState
  /\ Returns(failure, shell, fresh, got)
  /\ UNCHANGED <<ever, shells, calls, target, moves, fresh, cancelled, seen, eof,
                 record, got, ran, wrote, replaced>>

CancelledDuring == Collecting /\ cancelled /\ Failed("cancelled")

\* The limit is looked at only while the shell runs.
TimesOut_WhileAlive == Collecting /\ alive /\ Failed("timeout")

\* The time limit, which is looked at before each read of the queue.
TimesOut == Collecting /\ Failed("timeout")

\* It counts as soon as nothing is in the queue.
ShellExited_Unread ==
  /\ Collecting /\ ~cancelled /\ queue = <<>> /\ ~alive
  /\ Failed("shell_exited")

\* It counts only once both pipes have been read to their ends.
ShellExited ==
  /\ Collecting /\ ~cancelled /\ queue = <<>> /\ ~alive /\ eof = Streams
  /\ Failed("shell_exited")

\* Something else wrote between the marker and the end of its line, so that what is
\* read there is no record.
Malformed ==
  /\ Collecting /\ ~cancelled /\ queue # <<>>
  /\ Head(queue)[2] = "boundary" /\ Head(queue)[1] \notin seen
  /\ Failed("malformed_record")

Completes ==
  /\ pc = "collect" /\ seen = Streams
  /\ known' = record
  /\ Returns("none", shell, fresh, got)
  /\ UNCHANGED <<shell, ever, queue, shells, process, calls, target, moves, fresh,
                 cancelled, seen, eof, record, got, ran, wrote, replaced>>

-----------------------------------------------------------------------------
(* The person.                                                              *)

Stop ==
  /\ pc # "idle"
  /\ cancelled' = TRUE
  /\ UNCHANGED <<session, process, pc, calls, target, moves, fresh, seen, eof, record,
                 got, history>>

\* The next turn.
NewTurn ==
  /\ pc = "idle" /\ cancelled
  /\ cancelled' = FALSE
  /\ UNCHANGED <<session, process, pc, calls, target, moves, fresh, seen, eof, record,
                 got, history>>

\* reset: another conversation gets a session of its own.
Reset ==
  /\ pc = "idle"
  /\ Terminated
  /\ ResetState
  /\ ever' = FALSE
  /\ believed' = 0
  /\ UNCHANGED <<shells, call, ran, wrote, replaced, last>>

Tool ==
  \/ CancelledBefore \/ EnsureStarted \/ StartFails \/ Submit \/ SubmitFails
  \/ Consume \/ Malformed \/ CancelledDuring \/ ShellExited \/ Completes

Next ==
  \/ \E d \in Dirs \cup {NoDir} : Call(d)
  \/ Tool \/ TimesOut
  \/ Begin \/ LeavesChild \/ WritesRecord \/ WritesMarker \/ Dies \/ ChildEnds
  \/ \E s \in Streams : Prints(s) \/ Reads(s)
  \/ \E d \in Dirs : ChangesDirectory(d)
  \/ Stop \/ NewTurn \/ Reset

\* The tool's thread is scheduled, and its clock runs; nothing is asked of the
\* shell, of its pipes or of the person.
Spec == Init /\ [][Next]_vars /\ WF_vars(Tool) /\ WF_vars(TimesOut)

-----------------------------------------------------------------------------
(* Properties.                                                              *)

TypeOK ==
  /\ shell \in 0 .. MaxShells
  /\ known \in Dirs
  /\ ever \in BOOLEAN
  /\ queue \in Seq(Streams \X Items)
  /\ shells \in 0 .. MaxShells
  /\ alive \in BOOLEAN
  /\ where \in Dirs
  /\ stage \in {"idle", "given", "running", "recorded"}
  /\ pipe \in [Streams -> Seq(Items)]
  /\ held \in BOOLEAN
  /\ pc \in {"idle", "execute", "submit", "collect"}
  /\ calls \in 0 .. MaxCalls
  /\ target \in Dirs
  /\ moves \in BOOLEAN
  /\ fresh \in BOOLEAN
  /\ cancelled \in BOOLEAN
  /\ seen \subseteq Streams
  /\ eof \subseteq Streams
  /\ record \in Dirs \cup {NoDir}
  /\ got \in Nat
  /\ ran \in Dirs \cup {NoDir}
  /\ wrote \in Nat
  /\ replaced \in BOOLEAN
  /\ believed \in 0 .. MaxShells
  /\ last \in [failure : Failures, shell : 0 .. MaxShells, said : BOOLEAN,
               counted : 0 .. MaxShells, got : Nat, wrote : Nat]

\* A command that runs in another shell than the one the results so far spoke of,
\* so that variables, functions and the location are gone, says that its shell is
\* new.  Guards session_started, session_restarted and session_reset.
ToldOfReset ==
  last.failure \notin {"not_submitted"} /\ last.shell # last.counted => last.said

\* A result the time limit or a Stop did not cut short holds everything the command
\* printed, though the process ends before its readers have read it all.
OutputComplete ==
  last.failure \in {"none", "shell_exited"} => last.got = last.wrote

\* A command runs in the directory its start was announced for, unless the shell
\* had died since the last one.
RightDirectory ==
  pc = "collect" /\ ran # NoDir /\ ~replaced => ran = target

\* What a call tells of its command is so.
ResultTrue == OutputComplete /\ RightDirectory

\* Every call comes back, whatever the shell does.
CallsReturn == pc # "idle" ~> pc = "idle"
=============================================================================
