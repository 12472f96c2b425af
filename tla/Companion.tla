----------------------------- MODULE Companion -----------------------------
(***************************************************************************)
(* Chat from a phone: the chat screen (src/companion-web/src), the         *)
(* desktop's Companion manager (src/aura/companion/manager.py) and, as far *)
(* as the manager hears of it, the turn that the Qt bridge runs            *)
(* (src/aura/bridge/qt_bridge.py).                                         *)
(*                                                                         *)
(* Between a phone and the desktop the relay keeps messages in order, and  *)
(* a socket that breaks takes what is in flight along: module Relay has    *)
(* the sockets and the sessions.  The desktop hears messages and signals   *)
(* of the turn one at a time, on its GUI thread; the turn runs on a thread *)
(* of its own.                                                             *)
(*                                                                         *)
(* A definition named X_Something beside X is X with a plausible defect,   *)
(* used by the mutation runs of PROJECT.json only.                         *)
(***************************************************************************)
EXTENDS PhoneIds, Naturals, Sequences

CONSTANTS
  NoPhone,    \* the empty device id
  MaxChats,   \* bound: messages sent from phones
  MaxRounds,  \* bound: streams of a turn that are not its last
  MaxFaults   \* bound: sockets that break, and errors of the relay beside a chat

ASSUME NoPhoneAssumption == NoPhone \notin Phones
ASSUME ChatsAssumption == MaxChats \in Nat /\ MaxRounds \in Nat /\ MaxFaults \in Nat

Chats == 1..MaxChats

\* The messages that end a chat.
Closing == {"complete", "error"}

\* A message: its type, the chat it answers (or is), and, for the properties
\* only, the chat whose turn produced it.
Message(t, c, by) == [t |-> t, c |-> c, by |-> by]
Types == {"send", "cancel", "delta", "complete", "error", "offline"}
Messages == [t : Types, c : 0..MaxChats, by : 0..MaxChats]

\* What the turn's thread signals; "answer" is the streamDone of its last stream.
Signals == {"delta", "done", "answer", "apiError", "finished"}

VARIABLES
  linked,    \* the desktop's client is connected
  toDesktop, \* from each phone, in flight
  toPhone    \* to each phone

links == <<linked, toDesktop, toPhone>>

\* The phones' chat screens.
VARIABLES
  sent,      \* the phone of every chat sent so far
  turn,      \* turnIdRef, 0 when nothing is awaited
  cleared,   \* the 60 s watchdog of that was cleared
  verified   \* the screen's phase is "connected"

screens == <<sent, turn, cleared, verified>>

\* The desktop: the manager's state and the bridge's turn.
VARIABLES
  pending,      \* pending_chat_id
  pendingPhone, \* pending_chat_phone_id
  busy,         \* is_running()
  running,      \* the chat the turn was started for, 0 for the desktop's own
  working,      \* the thread of the turn has not signalled finished
  cancelled,    \* the cancel event
  rounds,       \* streams of the turn that have ended
  said,         \* the stream has produced text
  gui           \* signals of the turn, posted to the GUI thread

manager == <<pending, pendingPhone>>
bridge == <<busy, running, working, cancelled, rounds, said, gui>>

\* A bound, and history variables, which only the properties read.
VARIABLES
  faults,    \* how many of these there were so far
  handled,   \* chats the desktop has taken or refused
  ended,     \* how many closing messages it had for each
  missed,    \* chats which, or the end of which, were lost under way
  early      \* chats closed by a stream that was not the last of their turn

history == <<faults, handled, ended, missed, early>>
chatVars == <<links, screens, manager, bridge, history>>

-----------------------------------------------------------------------------
ChatInit ==
  /\ linked = TRUE
  /\ toDesktop = [p \in Phones |-> <<>>] /\ toPhone = [p \in Phones |-> <<>>]
  /\ sent = <<>>
  /\ turn = [p \in Phones |-> 0] /\ cleared = [p \in Phones |-> FALSE]
  /\ verified = [p \in Phones |-> TRUE]
  /\ pending = 0 /\ pendingPhone = NoPhone
  /\ busy = FALSE /\ running = 0 /\ working = FALSE /\ cancelled = FALSE
  /\ rounds = 0 /\ said = FALSE /\ gui = <<>>
  /\ faults = 0 /\ handled = {} /\ ended = [c \in Chats |-> 0] /\ missed = {} /\ early = {}

-----------------------------------------------------------------------------
(* The links.                                                              *)

\* The chats of the messages of types T in queue q.
ChatsOf(q, T) == {q[i].c : i \in {j \in DOMAIN q : q[j].t \in T}}

Fault == faults < MaxFaults /\ faults' = faults + 1

\* The desktop's socket breaks; what it has sent may still arrive.
Unlink ==
  /\ linked /\ Fault
  /\ linked' = FALSE
  /\ toDesktop' = [p \in Phones |-> <<>>]
  /\ missed' = missed \union UNION {ChatsOf(toDesktop[p], {"send"}) : p \in Phones}
  /\ UNCHANGED <<toPhone, screens, manager, bridge, handled, ended, early>>

\* It is connected again.
Link ==
  /\ ~linked
  /\ linked' = TRUE
  /\ UNCHANGED <<toDesktop, toPhone, screens, manager, bridge, history>>

\* The relay drops the message and says "Desktop not online".
Offline(p) ==
  /\ ~linked /\ toDesktop[p] # <<>>
  /\ toDesktop' = [toDesktop EXCEPT ![p] = Tail(@)]
  /\ LET m == Head(toDesktop[p]) IN
       /\ toPhone' = [toPhone EXCEPT ![p] = Append(@, Message("offline", m.c, m.by))]
       /\ missed' = IF m.t = "send" THEN missed \union {m.c} ELSE missed
  /\ UNCHANGED <<linked, screens, manager, bridge, faults, handled, ended, early>>

\* A phone's socket breaks, with what is in flight on it.
PhoneLost(p) ==
  /\ toDesktop[p] # <<>> \/ toPhone[p] # <<>>
  /\ Fault
  /\ toDesktop' = [toDesktop EXCEPT ![p] = <<>>]
  /\ toPhone' = [toPhone EXCEPT ![p] = <<>>]
  /\ missed' = missed \union ChatsOf(toDesktop[p], {"send"}) \union ChatsOf(toPhone[p], Closing)
  /\ UNCHANGED <<linked, screens, manager, bridge, handled, ended, early>>

-----------------------------------------------------------------------------
(* The phone's screen.                                                     *)

ToDesktop(p, t, c) ==
  toDesktop' = [toDesktop EXCEPT ![p] = Append(@, Message(t, c, c))]

\* sendMessage.
Send(p) ==
  /\ verified[p] /\ turn[p] = 0 /\ Len(sent) < MaxChats
  /\ sent' = Append(sent, p)
  /\ turn' = [turn EXCEPT ![p] = Len(sent) + 1]
  /\ cleared' = [cleared EXCEPT ![p] = FALSE]
  /\ ToDesktop(p, "send", Len(sent) + 1)
  /\ UNCHANGED <<linked, toPhone, verified, manager, bridge, history>>

\* cancel: the turn is no longer awaited, and the desktop is asked to stop.
Cancel(p) ==
  /\ verified[p] /\ turn[p] # 0
  /\ turn' = [turn EXCEPT ![p] = 0]
  /\ ToDesktop(p, "cancel", turn[p])
  /\ UNCHANGED <<linked, toPhone, sent, cleared, verified, manager, bridge, history>>

\* No delta and no end came within the minute.
Watchdog(p) ==
  /\ turn[p] # 0 /\ ~cleared[p]
  /\ turn' = [turn EXCEPT ![p] = 0]
  /\ UNCHANGED <<links, sent, cleared, verified, manager, bridge, history>>

\* The screen says "Previous desktop unavailable": the phase is another one, so
\* that the effect of the chat is cleaned up, its watchdog and listeners with it.
Leaves(p) ==
  /\ verified' = [verified EXCEPT ![p] = FALSE]
  /\ cleared' = [cleared EXCEPT ![p] = TRUE]

\* onmessage: any delta clears the watchdog; an end counts for its own turn only,
\* and only while the screen listens; an error of the relay makes it unavailable.
PhoneReceives(p) ==
  /\ toPhone[p] # <<>>
  /\ toPhone' = [toPhone EXCEPT ![p] = Tail(@)]
  /\ LET m == Head(toPhone[p]) IN
       /\ IF verified[p] /\ m.t = "offline" THEN Leaves(p)
          ELSE /\ cleared' = [cleared EXCEPT ![p] = @ \/ (verified[p] /\ m.t = "delta")]
               /\ UNCHANGED verified
       /\ turn' = [turn EXCEPT ![p] =
                     IF verified[p] /\ m.t \in Closing /\ m.c = @ THEN 0 ELSE @]
       /\ missed' = IF ~verified[p] /\ m.t \in Closing THEN missed \union {m.c} ELSE missed
  /\ UNCHANGED <<linked, toDesktop, sent, manager, bridge, faults, handled, ended, early>>

\* An error or auth.error answers a request of the screen for the history, which
\* is not modelled itself.
Unavailable(p) ==
  /\ verified[p] /\ Fault /\ Leaves(p)
  /\ UNCHANGED <<links, sent, turn, manager, bridge, handled, ended, missed, early>>

\* "Retry": the desktop answers a companion.verify, and the chat listens again.
Retry(p) ==
  /\ ~verified[p] /\ linked
  /\ verified' = [verified EXCEPT ![p] = TRUE]
  /\ UNCHANGED <<links, sent, turn, cleared, manager, bridge, history>>

-----------------------------------------------------------------------------
(* The desktop's manager.                                                  *)

\* Whoever is connected is sent it.
Sends_ToAll(t, to, c, by) ==
  toPhone' = [p \in Phones |-> IF linked /\ to # NoPhone
                                 THEN Append(toPhone[p], Message(t, c, by))
                                 ELSE toPhone[p]]

\* send_event: nothing goes out without a connection, or to nobody.
Sends(t, to, c, by) ==
  toPhone' = [p \in Phones |-> IF linked /\ p = to
                                 THEN Append(toPhone[p], Message(t, c, by))
                                 ELSE toPhone[p]]

Ends(c) == ended' = [ended EXCEPT ![c] = @ + 1]

\* _on_raw_message: the next message of a phone.
Takes(p, t) ==
  /\ linked /\ toDesktop[p] # <<>>
  /\ Head(toDesktop[p]).t = t
  /\ toDesktop' = [toDesktop EXCEPT ![p] = Tail(@)]

\* A message that comes while a turn runs is dropped.
ChatRefused_Silent(p) ==
  /\ Takes(p, "send")
  /\ LET c == Head(toDesktop[p]).c IN
       /\ handled' = handled \union {c}
       /\ Ends(c)
  /\ UNCHANGED <<linked, toPhone, screens, manager, bridge, faults, missed, early>>

\* reply_error: a turn is running, or no conversation is open.
ChatRefused(p) ==
  /\ Takes(p, "send")
  /\ LET c == Head(toDesktop[p]).c IN
       /\ Sends("error", p, c, c)
       /\ handled' = handled \union {c}
       /\ Ends(c)
  /\ UNCHANGED <<linked, screens, manager, bridge, faults, missed, early>>

\* A turn begins, for chat c or, with 0, for the desktop's own message.
Begins(c) ==
  /\ busy' = TRUE /\ running' = c /\ working' = TRUE
  /\ cancelled' = FALSE /\ rounds' = 0 /\ said' = FALSE
  /\ UNCHANGED gui

\* _handle_chat_send, when the bridge is free.
ChatAccepted(p) ==
  /\ Takes(p, "send")
  /\ ~busy
  /\ LET c == Head(toDesktop[p]).c IN
       /\ pending' = c /\ pendingPhone' = p
       /\ handled' = handled \union {c}
       /\ Begins(c)
  /\ UNCHANGED <<linked, toPhone, screens, faults, ended, missed, early>>

\* _handle_chat_cancel, whichever phone asks and whatever turn runs.
ChatCancel(p) ==
  /\ Takes(p, "cancel")
  /\ cancelled' = (cancelled \/ busy)
  /\ UNCHANGED <<linked, toPhone, screens, manager, busy, running, working,
                 rounds, said, gui, history>>

\* The person at the desktop sends a message.
OwnTurn ==
  /\ ~busy
  /\ Begins(0)
  /\ UNCHANGED <<links, screens, manager, history>>

\* The person at the desktop stops the turn.
Stop ==
  /\ busy
  /\ cancelled' = TRUE
  /\ UNCHANGED <<links, screens, manager, busy, running, working, rounds, said,
                 gui, history>>

-----------------------------------------------------------------------------
(* The turn's thread.                                                      *)

Signal(s) == gui' = gui \o s

\* Text arrives; the texts of a stream count as one.
Delta ==
  /\ working /\ ~said
  /\ said' = TRUE
  /\ Signal(<<"delta">>)
  /\ UNCHANGED <<links, screens, manager, busy, running, working, cancelled,
                 rounds, history>>

\* A stream ends in tool calls, or the person has steered: another follows.
RoundDone ==
  /\ working /\ rounds < MaxRounds
  /\ rounds' = rounds + 1
  /\ said' = FALSE
  /\ Signal(<<"done">>)
  /\ UNCHANGED <<links, screens, manager, busy, running, working, cancelled,
                 history>>

\* The turn is over: with its answer, with an error of the provider or of the
\* turn itself (after a cancellation perhaps with both that and "Cancelled."),
\* or with nothing, a stream that ended without a Done.
TurnOver ==
  /\ working
  /\ working' = FALSE
  /\ \/ Signal(<<"answer", "finished">>)
     \/ Signal(<<"apiError", "finished">>)
     \/ cancelled /\ Signal(<<"apiError", "apiError", "finished">>)
     \/ Signal(<<"finished">>)
  /\ UNCHANGED <<links, screens, manager, busy, running, cancelled, rounds,
                 said, history>>

-----------------------------------------------------------------------------
(* The manager hears of the turn.                                          *)

Hears(s) ==
  /\ gui # <<>> /\ Head(gui) = s
  /\ gui' = Tail(gui)

Closes(t) ==
  /\ Sends(t, pendingPhone, pending, running)
  /\ IF pending # 0 THEN Ends(pending) ELSE UNCHANGED ended
  /\ missed' = IF pending # 0 /\ ~linked THEN missed \union {pending} ELSE missed

\* The phone is kept.
Forgets_KeepsPhone == pending' = 0 /\ UNCHANGED pendingPhone

Forgets == pending' = 0 /\ pendingPhone' = NoPhone

OnDelta ==
  /\ Hears("delta")
  /\ Sends("delta", pendingPhone, pending, running)
  /\ UNCHANGED <<linked, toDesktop, screens, manager, busy, running, working,
                 cancelled, rounds, said, history>>

\* _on_bridge_stream_done, for every stream of the turn: a chat is closed by the
\* first of them, although "A stream can end mid-turn" (main_window.py).
OnStreamDone ==
  /\ \/ Hears("done") /\ early' = early \union ({pending} \ {0})
     \/ Hears("answer") /\ UNCHANGED early
  /\ Closes("complete")
  /\ Forgets
  /\ UNCHANGED <<linked, toDesktop, screens, busy, running, working, cancelled,
                 rounds, said, faults, handled>>

OnApiError ==
  /\ Hears("apiError")
  /\ Closes("error")
  /\ Forgets
  /\ UNCHANGED <<linked, toDesktop, screens, busy, running, working, cancelled,
                 rounds, said, faults, handled, early>>

\* The bridge's _on_finished, and the manager's: what is still pending is cancelled.
OnFinished ==
  /\ Hears("finished")
  /\ busy' = FALSE
  /\ running' = 0
  /\ Closes("complete")
  /\ Forgets
  /\ UNCHANGED <<linked, toDesktop, screens, working, cancelled, rounds, said,
                 faults, handled, early>>

-----------------------------------------------------------------------------
ChatNext ==
  \/ Unlink \/ Link
  \/ \E p \in Phones : Offline(p) \/ PhoneLost(p)
  \/ \E p \in Phones : Send(p) \/ Cancel(p) \/ Watchdog(p) \/ PhoneReceives(p)
  \/ \E p \in Phones : Unavailable(p) \/ Retry(p)
  \/ \E p \in Phones : ChatRefused(p) \/ ChatAccepted(p) \/ ChatCancel(p)
  \/ OwnTurn \/ Stop
  \/ Delta \/ RoundDone \/ TurnOver
  \/ OnDelta \/ OnStreamDone \/ OnApiError \/ OnFinished

ChatSpec == ChatInit /\ [][ChatNext]_chatVars

-----------------------------------------------------------------------------
(* Properties.                                                             *)

\* Types; the chat and its phone are noted and forgotten together.
ChatTypeOK ==
  /\ linked \in BOOLEAN
  /\ toDesktop \in [Phones -> Seq(Messages)] /\ toPhone \in [Phones -> Seq(Messages)]
  /\ sent \in Seq(Phones) /\ Len(sent) <= MaxChats
  /\ turn \in [Phones -> 0..MaxChats] /\ cleared \in [Phones -> BOOLEAN]
  /\ verified \in [Phones -> BOOLEAN]
  /\ pending \in 0..MaxChats /\ pendingPhone \in Phones \union {NoPhone}
  /\ pending = 0 <=> pendingPhone = NoPhone
  /\ busy \in BOOLEAN /\ running \in 0..MaxChats /\ working \in BOOLEAN
  /\ cancelled \in BOOLEAN /\ rounds \in 0..MaxRounds /\ said \in BOOLEAN /\ gui \in Seq(Signals)
  /\ faults \in 0..MaxFaults /\ handled \subseteq Chats /\ ended \in [Chats -> Nat]
  /\ missed \subseteq Chats /\ early \subseteq Chats

\* What a phone is sent of a turn is of the turn its own message started, and
\* is labelled with that message: never another phone's, or the desktop's own,
\* however their messages and the ends of their turns cross.
ToAsker ==
  \A p \in Phones : \A i \in DOMAIN toPhone[p] :
    LET m == toPhone[p][i] IN m.c \in 1..Len(sent) /\ sent[m.c] = p /\ m.by = m.c

\* No chat is closed twice, and none the desktop has taken is dropped: it is
\* pending until it is closed, and that only once its turn's thread is through.
\* The exception is a chat of `early`, which the end of a stream before the last
\* closed: the answer of its turn then goes to nobody.
EndsOnce ==
  \A c \in Chats :
    /\ ended[c] <= 1
    /\ c \in handled /\ ended[c] = 0 => pending = c
    /\ ended[c] = 1 /\ running = c /\ working => c \in early

\* The chat that waits for its end has its turn running, so that the end comes.
PendingRuns == pending # 0 => busy /\ running = pending

\* A phone whose screen waits has its watchdog armed, or its chat or the end of
\* that still to come, whatever became of other chats and other phones: only a
\* chat that was itself missed, on the way or by a screen that did not listen,
\* leaves its screen waiting for the person once the watchdog is cleared.
ScreenComesBack ==
  \A p \in Phones :
    turn[p] # 0 /\ cleared[p] /\ turn[p] \notin missed =>
      \/ pending = turn[p]
      \/ turn[p] \in ChatsOf(toDesktop[p], {"send"}) \union ChatsOf(toPhone[p], Closing)

\* Every message the desktop took from a phone is closed for that phone, once,
\* or its turn still runs; what a phone hears is of its own messages; and its
\* screen comes back.
Answered == ToAsker /\ EndsOnce /\ PendingRuns /\ ScreenComesBack
=============================================================================
