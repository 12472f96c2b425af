---------------------------- MODULE ConsentProofs ----------------------------
(***************************************************************************)
(* Proofs about Consent, for any number of turns, requests and events: that*)
(* a change is made only with the yes it needs (OnlyOnYes), and that the   *)
(* queue of the GUI thread stays as short as TypeOK says.                  *)
(*                                                                         *)
(* A yes is given to a card or a dialog and used by the tool thread.  What *)
(* makes the property inductive is what connects the two: the slot and the *)
(* dialog belong to the request that is waited for (Asking); an event in   *)
(* the queue is posted once and tells of nothing that was answered (Mail); *)
(* and whatever stands for an approval, an acceptance or a rejection in    *)
(* the program's state goes back to the person's own (Backed).  The length *)
(* of the queue needs to know what the tool thread can still post before   *)
(* it must wait (Backlog).                                                 *)
(***************************************************************************)
EXTENDS Consent, TLAPS

Waiting(what) == worker = "waiting" /\ (kind = "plan" <=> what = "plan")

\* Whose question is under way: the slot is its own, a dialog waits for it, and
\* it was asked in this turn.
Asking ==
  /\ slot = IF worker = "registered" \/ Waiting("plan") THEN ask ELSE NoAsk
  /\ dialog # NoAsk => Waiting("diff") /\ answer = "none"
  /\ worker \in {"admitted", "registered", "waiting"} => ask > first
  /\ worker = "registered" => kind = "plan"
  /\ stopping # "no" => cancel

\* What an event in the queue, the one at i, tells: a dialog that is still to
\* open is the one waited for; a card that is still to come is not on the screen,
\* nor is it that of a review not yet shown; both are posted once.
Letter(i) ==
  /\ queue[i][2] <= ask
  /\ queue[i][1] = "open" =>
       queue[i][2] = ask /\ Waiting("diff") /\ answer = "none" /\ dialog = NoAsk
  /\ queue[i][1] = "card" =>
       queue[i][2] # card /\ (queue[i][2] = ask => worker \notin {"admitted", "registered"})
  /\ queue[i][1] # "reject" => \A j \in 1 .. Len(queue) : j # i => queue[j] # queue[i]

Mail ==
  /\ \A i \in 1 .. Len(queue) : Letter(i)
  /\ card <= ask /\ (worker \in {"admitted", "registered"} => card # ask)

Posted(e) == \E i \in 1 .. Len(queue) : queue[i] = e

\* The tool thread waits for an answer that no one can give before the GUI
\* thread has taken an event.
Unread ==
  \/ Waiting("plan") /\ verdict = "none" /\ Posted(<<"card", ask>>)
  \/ Waiting("diff") /\ answer = "none" /\ Posted(<<"open", ask>>)

\* How long the queue may get before an event is taken or Stop pressed: a review
\* that was stopped before it was shown is still shown, and another one after it.
Ahead ==
  IF Unread THEN Len(queue)
  ELSE IF worker = "registered" /\ verdict # "none" THEN Len(queue) + 2
  ELSE Len(queue) + 1

\* A Stop that is under way finds nothing to post, and no review to resolve.
Settled ==
  dialog = NoAsk /\ (worker \in {"idle", "over"} \/ (slot # NoAsk /\ verdict # "none"))

Backlog ==
  /\ Ahead <= MaxPosted + 2
  /\ stopping # "no" =>
       \/ Ahead <= MaxPosted + 1
       \/ Settled
       \/ stopping = "review" /\ dialog # NoAsk

PlanAccepted == \E p \in yes : p[1] = "plan" /\ p[2] > first

\* What an approval, an acceptance and a rejection go back to.
Backed ==
  /\ approved => PlanAccepted
  /\ slot # NoAsk /\ verdict = "yes" => <<"plan", ask>> \in yes
  /\ Waiting("diff") =>
       /\ (kind = "write" => ~rejectAll) /\ ~Blocks
       /\ answer \in {"approve", "approve_all"} => <<"diff", ask>> \in yes
  /\ never => rejectAll \/ (Waiting("diff") /\ kind # "tool" /\ answer = "reject_all")

IInv == TypeOK /\ Asking /\ Mail /\ Backlog /\ Backed

-----------------------------------------------------------------------------
\* What appending and taking do to the events of the queue.
LEMMA Appended ==
  ASSUME queue \in Seq(Events), NEW e \in Events, queue' = Append(queue, e)
  PROVE  /\ queue' \in Seq(Events) /\ Len(queue') = Len(queue) + 1 /\ Len(queue) \in Nat
         /\ \A i \in 1 .. Len(queue) : queue'[i] = queue[i]
         /\ queue'[Len(queue) + 1] = e
OBVIOUS

LEMMA Taken ==
  ASSUME queue \in Seq(Events), queue # <<>>, queue' = Tail(queue)
  PROVE  /\ queue' \in Seq(Events) /\ Len(queue') = Len(queue) - 1 /\ Len(queue) \in Nat \ {0}
         /\ \A i \in 1 .. Len(queue') : queue'[i] = queue[i + 1]
         /\ Head(queue) = queue[1] /\ Head(queue) \in Events
OBVIOUS

\* Every step keeps the types, but for the length of the queue, and whose question
\* is under way.
LEMMA TypeStep ==
  IInv /\ [Next]_vars =>
    queue' \in Seq(Events) /\ Asking' /\ (Len(queue') <= MaxPosted + 2 => TypeOK')
<1> DEFINE G == queue' \in Seq(Events) /\ Asking' /\ (Len(queue') <= MaxPosted + 2 => TypeOK')
<1> SUFFICES ASSUME IInv, [Next]_vars PROVE G
  OBVIOUS
<1>0. TypeOK /\ Asking /\ MaxAsks \in Nat /\ MaxTurns \in Nat \ {0} /\ MaxPosted \in Nat
  BY MaxAsksAssumption, MaxTurnsAssumption, MaxPostedAssumption DEF IInv
<1>q. queue \in Seq(Events)
  BY <1>0 DEF TypeOK
<1> USE <1>0, <1>q DEF TypeOK, Asking, Waiting, Answers, Changes, Blocks, turnVars, workerVars,
     reviewVars, diffVars, guiVars, ghostTurn, history, Becomes, NoAsk, Asks, Changes
<1>1. CASE Claim
  BY <1>1 DEF Claim, NoAsk
<1>2. CASE Refuse
  BY <1>2 DEF Refuse
<1>3. CASE AutoApprove
  BY <1>3 DEF AutoApprove, MayChange, Lands
<1>4. CASE RequestApproval
  <2>1. <<"open", ask>> \in Events
    BY <1>4 DEF RequestApproval, MayChange, Events
  <2>2. queue' \in Seq(Events)
    BY <1>4, <2>1, Appended DEF RequestApproval, Post
  <2> QED
    BY <1>4, <2>2 DEF RequestApproval, MayChange
<1>5. CASE RequestReview
  BY <1>5 DEF RequestReview
<1>6. CASE EmitReview
  <2>1. <<"card", ask>> \in Events
    BY <1>6 DEF EmitReview, Events
  <2>2. queue' \in Seq(Events)
    BY <1>6, <2>1, Appended DEF EmitReview, Post
  <2> QED
    BY <1>6, <2>2 DEF EmitReview
<1>7. CASE ReviewReturns
  BY <1>7 DEF ReviewReturns
<1>8. CASE ApprovalReturns
  <2>1. landed' \subseteq Asks /\ authority' \subseteq landed'
    <3>1. ask \in Asks
      BY <1>8 DEF ApprovalReturns
    <3> QED
      BY <1>8, <3>1 DEF ApprovalReturns, Lands
  <2>2. rejectAll' \in BOOLEAN
    BY <1>8 DEF ApprovalReturns
  <2>3. UNCHANGED <<turn, required, approved, cancel, reviewVars, diffVars, guiVars, stopping,
                    ghostTurn, yes>>
    BY <1>8 DEF ApprovalReturns
  <2>4. worker' = "idle" /\ worker = "waiting" /\ kind \in Changes /\ UNCHANGED <<kind, ask>> /\ answer # "none"
    BY <1>8 DEF ApprovalReturns
  <2>5. Asking'
    BY <2>3, <2>4
  <2> QED
    BY <2>1, <2>2, <2>3, <2>4, <2>5
<1>9. CASE TurnEnds
  BY <1>9 DEF TurnEnds
<1>10. CASE TakeEvent
  <2>1. /\ queue' \in Seq(Events) /\ Head(queue) = queue[1] /\ 1 \in 1 .. Len(queue)
        /\ queue[1] \in Events
    BY <1>10, Taken DEF TakeEvent
  <2>2. queue[1][1] = "open" =>
          queue[1][2] = ask /\ Waiting("diff") /\ answer = "none" /\ dialog = NoAsk
    BY <2>1 DEF IInv, Mail, Letter
  <2>3. queue[1][2] \in Asks
    BY <2>1 DEF Events
  <2> QED
    BY <1>10, <2>1, <2>2, <2>3, SMTT(30) DEF TakeEvent, Idle, Close
<1>11. CASE StopDialog
  <2>1. dialog # NoAsk => <<"reject", dialog>> \in Events
    BY <1>11 DEF StopDialog, Events
  <2>2. queue' \in Seq(Events)
    BY <1>11, <2>1, Appended DEF StopDialog, Post
  <2> QED
    BY <1>11, <2>2 DEF StopDialog
<1>12. CASE StopReview
  BY <1>12 DEF StopReview
<1>13. CASE Send
  <2>1. turn' \in 1 .. MaxTurns /\ required' \in BOOLEAN /\ always' \in BOOLEAN
    BY <1>13 DEF Send
  <2>2. /\ approved' = FALSE /\ rejectAll' = FALSE /\ cancel' = FALSE /\ first' = ask
        /\ never' = FALSE /\ worker' = "idle" /\ stopping = "no" /\ worker = "over"
        /\ UNCHANGED <<kind, ask, reviewVars, answer, guiVars, stopping, yes, history>>
    BY <1>13 DEF Send, Idle
  <2>3. Asking'
    BY <2>2
  <2>4. queue' \in Seq(Events)
    BY <2>2
  <2>5. first' \in 0 .. ask' /\ worker' \in {"idle", "admitted", "registered", "waiting", "over"}
    BY <2>2
  <2>6. /\ approved' \in BOOLEAN /\ rejectAll' \in BOOLEAN /\ cancel' \in BOOLEAN
        /\ never' \in BOOLEAN
    BY <2>2
  <2>7. /\ slot' \in {NoAsk, ask'} /\ dialog' \in {NoAsk, ask'} /\ card' \in {NoAsk} \cup Asks
        /\ answer' \in Answers \cup {"none"} /\ stopping' \in {"no", "dialog", "review"}
        /\ verdict' \in {"none", "yes", "no"} /\ kind' \in {"plan"} \cup Changes /\ ask' \in 0 .. MaxAsks
    BY <2>2
  <2>8. /\ yes' \subseteq {"plan", "diff"} \X Asks /\ landed' \subseteq Asks
        /\ authority' \subseteq landed'
    BY <2>2
  <2>9. Len(queue') <= MaxPosted + 2 => TypeOK'
    BY <2>1, <2>4, <2>5, <2>6, <2>7, <2>8
  <2> QED
    BY <2>9, <2>3, <2>4, <2>5
<1>14. CASE AnswerDialog
  BY <1>14 DEF AnswerDialog, Idle, Close
<1>15. CASE AnswerCard
  BY <1>15 DEF AnswerCard, Idle, Resolve
<1>16. CASE Stop
  BY <1>16 DEF Stop, Idle
<1>17. CASE Rest
  BY <1>17 DEF Rest, vars
<1>18. CASE UNCHANGED vars
  BY <1>18 DEF vars
<1> QED
  BY <1>1, <1>2, <1>3, <1>4, <1>5, <1>6, <1>7, <1>8, <1>9,
     <1>10, <1>11, <1>12, <1>13, <1>14, <1>15, <1>16, <1>17, <1>18 DEF Next, Tool, Gui

\* Every step posts news only, once, and takes what it handles.
LEMMA MailStep == IInv /\ [Next]_vars => Mail'
<1> SUFFICES ASSUME IInv, [Next]_vars PROVE Mail'
  OBVIOUS
<1>0. Mail /\ Asking /\ queue \in Seq(Events) /\ ask \in Nat /\ Len(queue) \in Nat /\ card \in Nat
  BY MaxAsksAssumption DEF IInv, TypeOK, NoAsk, Asks
<1>e. \A i \in 1 .. Len(queue) : /\ queue[i] \in Events /\ queue[i] = <<queue[i][1], queue[i][2]>>
                                 /\ queue[i][2] \in Nat \ {0}
                                 /\ queue[i][1] \in {"open", "card", "reject"}
  BY <1>0, MaxAsksAssumption DEF Events, Asks
<1>d. dialog \in {NoAsk, ask} /\ slot \in {NoAsk, ask}
  BY DEF IInv, TypeOK
<1> USE <1>0, <1>e, <1>d DEF Mail, Letter, Asking, Waiting, turnVars, workerVars,
     reviewVars, diffVars, guiVars, ghostTurn, history, Becomes, NoAsk, Asks, Changes
<1>1. CASE Claim
  BY <1>1 DEF Claim, NoAsk
<1>2. CASE Refuse
  BY <1>2 DEF Refuse
<1>3. CASE AutoApprove
  BY <1>3 DEF AutoApprove, MayChange, Lands
<1>4. CASE RequestApproval
  <2>1. <<"open", ask>> \in Events
    BY <1>4, MaxAsksAssumption DEF RequestApproval, Events, IInv, TypeOK, MayChange
  <2>2. /\ Len(queue') = Len(queue) + 1
        /\ \A i \in 1 .. Len(queue) : queue'[i] = queue[i]
        /\ queue'[Len(queue) + 1] = <<"open", ask>>
    BY <1>4, <2>1, Appended DEF RequestApproval, Post
  <2>3. \A i \in 1 .. Len(queue) : queue[i] # <<"open", ask>>
    BY <1>4 DEF RequestApproval, MayChange
  <2>4. ASSUME NEW i \in 1 .. Len(queue')
        PROVE  Letter(i)'
    <3>u. queue'[i][1] # "reject" => \A j \in 1 .. Len(queue') : j # i => queue'[j] # queue'[i]
      <4> SUFFICES ASSUME queue'[i][1] # "reject", NEW j \in 1 .. Len(queue'), j # i
                   PROVE queue'[j] # queue'[i]
        OBVIOUS
      <4>1. CASE i \in 1 .. Len(queue) /\ j \in 1 .. Len(queue)
        BY <2>2, <4>1
      <4>2. CASE i = Len(queue) + 1 /\ j \in 1 .. Len(queue)
        BY <2>2, <2>3, <4>2
      <4>3. CASE i \in 1 .. Len(queue) /\ j = Len(queue) + 1
        BY <2>2, <2>3, <4>3
      <4> QED
        BY <2>2, <4>1, <4>2, <4>3
    <3>1. CASE i \in 1 .. Len(queue)
      <4>1. Letter(i) /\ queue'[i] = queue[i]
        BY <2>2, <3>1
      <4> HIDE DEF Mail
      <4> QED
        BY <1>4, <2>3, <3>1, <4>1, <3>u DEF RequestApproval, MayChange
    <3>2. CASE i = Len(queue) + 1
      <4>1. queue'[i] = <<"open", ask>>
        BY <2>2, <3>2
      <4> QED
        BY <1>4, <2>3, <4>1, <3>u DEF RequestApproval, MayChange
    <3> QED
      BY <2>2, <3>1, <3>2
  <2> QED
    BY <1>4, <2>4 DEF RequestApproval, MayChange
<1>5. CASE RequestReview
  BY <1>5 DEF RequestReview
<1>6. CASE EmitReview
  <2>1. <<"card", ask>> \in Events
    BY <1>6, MaxAsksAssumption DEF EmitReview, Events, IInv, TypeOK
  <2>2. /\ Len(queue') = Len(queue) + 1
        /\ \A i \in 1 .. Len(queue) : queue'[i] = queue[i]
        /\ queue'[Len(queue) + 1] = <<"card", ask>>
    BY <1>6, <2>1, Appended DEF EmitReview, Post
  <2>3. \A i \in 1 .. Len(queue) : queue[i] # <<"card", ask>> /\ queue[i][1] # "open"
    BY <1>6 DEF EmitReview
  <2>4. ASSUME NEW i \in 1 .. Len(queue')
        PROVE  Letter(i)'
    <3>u. queue'[i][1] # "reject" => \A j \in 1 .. Len(queue') : j # i => queue'[j] # queue'[i]
      <4> SUFFICES ASSUME queue'[i][1] # "reject", NEW j \in 1 .. Len(queue'), j # i
                   PROVE queue'[j] # queue'[i]
        OBVIOUS
      <4>1. CASE i \in 1 .. Len(queue) /\ j \in 1 .. Len(queue)
        BY <2>2, <4>1
      <4>2. CASE i = Len(queue) + 1 /\ j \in 1 .. Len(queue)
        BY <2>2, <2>3, <4>2
      <4>3. CASE i \in 1 .. Len(queue) /\ j = Len(queue) + 1
        BY <2>2, <2>3, <4>3
      <4> QED
        BY <2>2, <4>1, <4>2, <4>3
    <3>1. CASE i \in 1 .. Len(queue)
      <4>1. Letter(i) /\ queue'[i] = queue[i]
        BY <2>2, <3>1
      <4>2. queue'[i][1] # "open" /\ worker' = "waiting" /\ UNCHANGED <<ask, card>>
        BY <1>6, <2>3, <3>1, <4>1 DEF EmitReview
      <4>3. queue[i][2] <= ask /\ (queue[i][1] = "card" => queue[i][2] # card)
        BY <4>1
      <4> HIDE <1>0, <1>e, <1>d DEF Mail, Asking
      <4> QED
        BY <4>1, <4>2, <4>3, <3>u
    <3>2. CASE i = Len(queue) + 1
      <4>1. queue'[i] = <<"card", ask>>
        BY <2>2, <3>2
      <4> QED
        BY <1>6, <2>3, <4>1, <3>u DEF EmitReview
    <3> QED
      BY <2>2, <3>1, <3>2
  <2> QED
    BY <1>6, <2>4 DEF EmitReview
<1>7. CASE ReviewReturns
  BY <1>7 DEF ReviewReturns
<1>8. CASE ApprovalReturns
  BY <1>8 DEF ApprovalReturns, Lands
<1>9. CASE TurnEnds
  BY <1>9 DEF TurnEnds
<1>10. CASE TakeEvent
  <2>1. /\ Len(queue') = Len(queue) - 1 /\ 1 \in 1 .. Len(queue)
        /\ \A i \in 1 .. Len(queue') : queue'[i] = queue[i + 1] /\ i + 1 \in 1 .. Len(queue)
        /\ Head(queue) = queue[1]
    BY <1>10, Taken DEF TakeEvent
  <2>2. \A i \in 1 .. Len(queue) : i # 1 /\ queue[1][1] # "reject" => queue[i] # queue[1]
    BY <2>1
  <2>3. UNCHANGED <<ask, worker, kind>>
    BY <1>10 DEF TakeEvent
  <2>4. card' <= ask' /\ (worker' \in {"admitted", "registered"} => card' # ask')
    BY <1>10, <2>1, <2>3 DEF TakeEvent
  <2>5. ASSUME NEW i \in 1 .. Len(queue') PROVE Letter(i)'
    <3> DEFINE e == queue[i + 1]
    <3>1. queue'[i] = e /\ i + 1 \in 1 .. Len(queue) /\ (e # queue[1] \/ queue[1][1] = "reject")
      BY <2>1, <2>2
    <3>2. e[1] # "reject" => \A j \in 1 .. Len(queue') : j # i => queue'[j] # queue'[i]
      <4> SUFFICES ASSUME e[1] # "reject", NEW j \in 1 .. Len(queue'), j # i
                   PROVE queue'[j] # queue'[i]
        OBVIOUS
      <4>1. i + 1 \in 1 .. Len(queue) /\ j + 1 \in 1 .. Len(queue) /\ j + 1 # i + 1
        BY <2>1
      <4> QED
        BY <2>1, <4>1
    <3>l. Letter(i + 1) /\ e[2] <= ask
      BY <2>1
    <3>p. Letter(1) /\ queue[1] = <<queue[1][1], queue[1][2]>> /\ e = <<e[1], e[2]>>
      BY <2>1
    <3>3. e[1] = "open" =>
            e[2] = ask' /\ Waiting("diff")' /\ answer' = "none" /\ dialog' = NoAsk
      <4> SUFFICES ASSUME e[1] = "open"
                   PROVE e[2] = ask' /\ Waiting("diff")' /\ answer' = "none" /\ dialog' = NoAsk
        OBVIOUS
      <4>1. e[2] = ask /\ Waiting("diff") /\ answer = "none" /\ dialog = NoAsk
        BY <3>l
      <4>2. queue[1][1] # "open"
        <5> SUFFICES ASSUME queue[1][1] = "open" PROVE FALSE
          OBVIOUS
        <5>1. queue[1][2] = ask
          BY <3>p
        <5>2. queue[1] = e
          BY <3>p, <4>1, <5>1
        <5> QED
          BY <3>1, <5>2
      <4>3. queue[1][2] # NoAsk
        BY <2>1
      <4>4. UNCHANGED <<dialog, answer>>
        BY <1>10, <2>1, <4>1, <4>2, <4>3 DEF TakeEvent
      <4> QED
        BY <2>3, <4>1, <4>4
    <3>4. e[1] = "card" =>
            e[2] # card' /\ (e[2] = ask' => worker' \notin {"admitted", "registered"})
      <4> SUFFICES ASSUME e[1] = "card"
                   PROVE e[2] # card' /\ (e[2] = ask' => worker' \notin {"admitted", "registered"})
        OBVIOUS
      <4>1. e[2] # card /\ (e[2] = ask => worker \notin {"admitted", "registered"})
        BY <3>l
      <4>2. card' = card \/ (queue[1][1] = "card" /\ card' = queue[1][2])
        BY <1>10, <2>1 DEF TakeEvent
      <4>3. queue[1][1] = "card" => queue[1][2] # e[2]
        <5> SUFFICES ASSUME queue[1][1] = "card", queue[1][2] = e[2] PROVE FALSE
          OBVIOUS
        <5>1. queue[1] = e
          BY <3>p
        <5> QED
          BY <3>1, <5>1
      <4> HIDE DEF e
      <4> QED
        BY <2>3, <4>1, <4>2, <4>3
    <3> QED
      BY <2>1, <2>3, <3>2, <3>3, <3>4
  <2> QED
    BY <2>4, <2>5
<1>11. CASE StopDialog
  <2>1. CASE dialog # NoAsk
    <3>1. <<"reject", dialog>> \in Events
      BY <1>11, <2>1, MaxAsksAssumption DEF StopDialog, Events, IInv, TypeOK
    <3>2. /\ Len(queue') = Len(queue) + 1
          /\ \A i \in 1 .. Len(queue) : queue'[i] = queue[i]
          /\ queue'[Len(queue) + 1] = <<"reject", dialog>>
      BY <1>11, <2>1, <3>1, Appended DEF StopDialog, Post
    <3>3. \A i \in 1 .. Len(queue) : queue[i][1] # "open"
      BY <1>11, <2>1 DEF StopDialog
    <3>4. ASSUME NEW i \in 1 .. Len(queue')
          PROVE  Letter(i)'
      <4>u. queue'[i][1] # "reject" => \A j \in 1 .. Len(queue') : j # i => queue'[j] # queue'[i]
        <5> SUFFICES ASSUME queue'[i][1] # "reject", NEW j \in 1 .. Len(queue'), j # i
                     PROVE queue'[j] # queue'[i]
          OBVIOUS
        <5>1. CASE i \in 1 .. Len(queue) /\ j \in 1 .. Len(queue)
          BY <3>2, <5>1
        <5>2. CASE i = Len(queue) + 1 /\ j \in 1 .. Len(queue)
          BY <3>2, <3>3, <5>2
        <5>3. CASE i \in 1 .. Len(queue) /\ j = Len(queue) + 1
          BY <3>2, <3>3, <5>3
        <5> QED
          BY <3>2, <5>1, <5>2, <5>3
      <4>1. CASE i \in 1 .. Len(queue)
        <5>1. Letter(i) /\ queue'[i] = queue[i]
          BY <3>2, <4>1
        <5> HIDE DEF Mail
        <5> QED
          BY <1>11, <2>1, <3>3, <4>1, <5>1, <4>u DEF StopDialog
      <4>2. CASE i = Len(queue) + 1
        <5>1. queue'[i] = <<"reject", dialog>>
          BY <3>2, <4>2
        <5> QED
          BY <1>11, <2>1, <3>3, <5>1, <4>u DEF StopDialog
      <4> QED
        BY <3>2, <4>1, <4>2
    <3> QED
      BY <1>11, <2>1, <3>4 DEF StopDialog
  <2>2. CASE dialog = NoAsk
    BY <1>11, <2>2 DEF StopDialog
  <2> QED
    BY <2>1, <2>2
<1>12. CASE StopReview
  BY <1>12 DEF StopReview
<1>13. CASE Send
  BY <1>13 DEF Send, Idle
<1>14. CASE AnswerDialog
  BY <1>14 DEF AnswerDialog, Idle, Close
<1>15. CASE AnswerCard
  BY <1>15 DEF AnswerCard, Idle, Resolve
<1>16. CASE Stop
  BY <1>16 DEF Stop, Idle
<1>17. CASE Rest
  BY <1>17 DEF Rest, vars
<1>18. CASE UNCHANGED vars
  BY <1>18 DEF vars
<1> QED
  BY <1>1, <1>2, <1>3, <1>4, <1>5, <1>6, <1>7, <1>8, <1>9,
     <1>10, <1>11, <1>12, <1>13, <1>14, <1>15, <1>16, <1>17, <1>18 DEF Next, Tool, Gui

\* Every step that lengthens the queue uses up what might still be posted.
LEMMA BacklogStep == IInv /\ [Next]_vars => Backlog'
<1> SUFFICES ASSUME IInv, [Next]_vars PROVE Backlog'
  OBVIOUS
<1>0. Mail /\ Asking /\ Backlog /\ queue \in Seq(Events) /\ Len(queue) \in Nat /\ MaxPosted \in Nat
      /\ ask \in Nat
  BY MaxPostedAssumption, MaxAsksAssumption DEF IInv, TypeOK
<1>o. Posted(<<"open", ask>>) => Waiting("diff") /\ answer = "none" /\ dialog = NoAsk
  BY <1>0 DEF Posted, Mail, Letter
<1>c. Posted(<<"card", ask>>) => card # ask /\ worker \notin {"admitted", "registered"}
  BY <1>0 DEF Posted, Mail, Letter
<1>p. UNCHANGED queue => \A e : Posted(e) <=> Posted(e)'
  BY DEF Posted
<1>d. /\ dialog \in {NoAsk, ask} /\ slot \in {NoAsk, ask}
      /\ verdict \in {"none", "yes", "no"} /\ worker \in {"idle", "admitted", "registered", "waiting", "over"}
      /\ kind \in {"plan"} \cup Changes /\ stopping \in {"no", "dialog", "review"}
  BY DEF IInv, TypeOK
<1> USE <1>0, <1>o, <1>c, <1>p, <1>d DEF Backlog, Ahead, Unread, Settled, Asking,
     Waiting, turnVars, workerVars, reviewVars, diffVars, guiVars, ghostTurn, history,
     Becomes, NoAsk, Asks, Changes
<1>1. CASE Claim
  BY <1>1 DEF Claim, NoAsk
<1>2. CASE Refuse
  BY <1>2 DEF Refuse
<1>3. CASE AutoApprove
  BY <1>3 DEF AutoApprove, MayChange, Lands
<1>4. CASE RequestApproval
  <2>1. <<"open", ask>> \in Events
    BY <1>4, MaxAsksAssumption DEF RequestApproval, Events, IInv, TypeOK, MayChange
  <2>a. Len(queue') = Len(queue) + 1 /\ queue'[Len(queue) + 1] = <<"open", ask>>
    BY <1>4, <2>1, Appended DEF RequestApproval, Post
  <2>b. UNCHANGED ask
    BY <1>4 DEF RequestApproval
  <2>2. Len(queue') = Len(queue) + 1 /\ (Posted(<<"open", ask>>))'
    BY <2>a, <2>b, SMTT(30) DEF Posted
  <2>3. Unread' /\ ~Unread /\ Ahead' = Ahead
    BY <1>4, <2>2 DEF RequestApproval, MayChange
  <2>4. ~Settled /\ dialog = NoAsk
    BY <1>4 DEF RequestApproval, MayChange
  <2> QED
    BY <1>4, <2>3, <2>4 DEF RequestApproval, MayChange
<1>5. CASE RequestReview
  BY <1>5 DEF RequestReview
<1>6. CASE EmitReview
  <2>1. <<"card", ask>> \in Events
    BY <1>6, MaxAsksAssumption DEF EmitReview, Events, IInv, TypeOK
  <2>a. Len(queue') = Len(queue) + 1 /\ queue'[Len(queue) + 1] = <<"card", ask>>
    BY <1>6, <2>1, Appended DEF EmitReview, Post
  <2>b. UNCHANGED ask
    BY <1>6 DEF EmitReview
  <2>2. Len(queue') = Len(queue) + 1 /\ (Posted(<<"card", ask>>))'
    BY <2>a, <2>b DEF Posted
  <2>3. Ahead' = Ahead
    <3>1. CASE verdict = "none"
      BY <1>6, <2>2, <3>1 DEF EmitReview
    <3>2. CASE verdict # "none"
      BY <1>6, <2>2, <3>2 DEF EmitReview
    <3> QED
      BY <3>1, <3>2
  <2>4. dialog = NoAsk /\ (Settled => Settled')
    BY <1>6 DEF EmitReview
  <2>5. UNCHANGED <<stopping, dialog>>
    BY <1>6 DEF EmitReview
  <2> HIDE DEF Ahead, Settled
  <2> QED
    BY <2>3, <2>4, <2>5
<1>7. CASE ReviewReturns
  BY <1>7 DEF ReviewReturns
<1>8. CASE ApprovalReturns
  BY <1>8 DEF ApprovalReturns, Lands
<1>9. CASE TurnEnds
  BY <1>9 DEF TurnEnds
<1>10. CASE TakeEvent
  BY <1>10 DEF TakeEvent, Idle, Close
<1>11. CASE StopDialog
  BY <1>11 DEF StopDialog, Post
<1>12. CASE StopReview
  BY <1>12 DEF StopReview
<1>13. CASE Send
  BY <1>13 DEF Send, Idle
<1>14. CASE AnswerDialog
  BY <1>14 DEF AnswerDialog, Idle, Close
<1>15. CASE AnswerCard
  <2>0. UNCHANGED <<ask, queue, slot, worker, kind, answer>>
    BY <1>15 DEF AnswerCard
  <2>1. CASE slot # NoAsk /\ slot = card
    <3>1. ~Posted(<<"card", ask>>) /\ Waiting("plan")
      BY <2>1 DEF Mail
    <3>2. ~Unread /\ ~Unread'
      BY <2>0, <3>1
    <3> QED
      BY <1>15, <2>0, <3>1, <3>2 DEF AnswerCard, Idle
  <2>2. CASE ~(slot # NoAsk /\ slot = card)
    <3>1. UNCHANGED verdict
      BY <1>15, <2>2 DEF AnswerCard, Resolve
    <3>2. Ahead' = Ahead
      BY <2>0, <3>1
    <3> HIDE DEF Ahead
    <3> QED
      BY <1>15, <3>2 DEF AnswerCard, Idle
  <2> QED
    BY <2>1, <2>2
<1>16. CASE Stop
  <2>1. first \in Nat
    BY DEF IInv, TypeOK
  <2>2. Ahead' = Ahead
    BY <1>16 DEF Stop
  <2>3. Ahead <= MaxPosted + 1 \/ Settled'
    BY <1>16, <2>1 DEF Stop
  <2> HIDE DEF Ahead, Settled
  <2> QED
    BY <1>16, <2>2, <2>3 DEF Stop
<1>17. CASE Rest
  BY <1>17 DEF Rest, vars
<1>18. CASE UNCHANGED vars
  BY <1>18 DEF vars
<1> QED
  BY <1>1, <1>2, <1>3, <1>4, <1>5, <1>6, <1>7, <1>8, <1>9,
     <1>10, <1>11, <1>12, <1>13, <1>14, <1>15, <1>16, <1>17, <1>18 DEF Next, Tool, Gui

\* No step makes up a yes.
LEMMA BackedStep == IInv /\ [Next]_vars => Backed'
<1> SUFFICES ASSUME IInv, [Next]_vars PROVE Backed'
  OBVIOUS
<1>0. /\ Asking /\ Backed /\ slot \in {NoAsk, ask} /\ dialog \in {NoAsk, ask} /\ ask \in Nat
      /\ first \in Nat /\ required \in BOOLEAN /\ approved \in BOOLEAN /\ rejectAll \in BOOLEAN
      /\ never \in BOOLEAN
  BY MaxAsksAssumption DEF IInv, TypeOK
<1> USE <1>0 DEF Backed, Asking, Waiting, Blocks, turnVars, workerVars, reviewVars,
     diffVars, guiVars, ghostTurn, history, Becomes, NoAsk, Asks, Changes
<1>1. CASE Claim
  <2>1. PlanAccepted => PlanAccepted'
    BY <1>1 DEF Claim, PlanAccepted
  <2> QED
    BY <1>1, <2>1 DEF Claim, NoAsk
<1>2. CASE Refuse
  <2>1. PlanAccepted => PlanAccepted'
    BY <1>2 DEF Refuse, PlanAccepted
  <2> QED
    BY <1>2, <2>1 DEF Refuse
<1>3. CASE AutoApprove
  <2>1. PlanAccepted => PlanAccepted'
    BY <1>3 DEF AutoApprove, PlanAccepted
  <2> QED
    BY <1>3, <2>1 DEF AutoApprove, MayChange, Lands
<1>4. CASE RequestApproval
  <2>1. PlanAccepted => PlanAccepted'
    BY <1>4 DEF RequestApproval, PlanAccepted
  <2> QED
    BY <1>4, <2>1 DEF RequestApproval, MayChange, Post
<1>5. CASE RequestReview
  <2>1. PlanAccepted => PlanAccepted'
    BY <1>5 DEF RequestReview, PlanAccepted
  <2> QED
    BY <1>5, <2>1 DEF RequestReview
<1>6. CASE EmitReview
  <2>1. PlanAccepted => PlanAccepted'
    BY <1>6 DEF EmitReview, PlanAccepted
  <2> QED
    BY <1>6, <2>1 DEF EmitReview, Post
<1>7. CASE ReviewReturns
  <2>1. slot # NoAsk /\ ask > first
    BY <1>7 DEF ReviewReturns
  <2>2. verdict = "yes" => PlanAccepted
    BY <2>1 DEF PlanAccepted
  <2>3. PlanAccepted => PlanAccepted'
    BY <1>7 DEF ReviewReturns, PlanAccepted
  <2> QED
    BY <1>7, <2>2, <2>3 DEF ReviewReturns
<1>8. CASE ApprovalReturns
  <2>1. PlanAccepted => PlanAccepted'
    BY <1>8 DEF ApprovalReturns, PlanAccepted
  <2> QED
    BY <1>8, <2>1 DEF ApprovalReturns, Lands
<1>9. CASE TurnEnds
  <2>1. PlanAccepted => PlanAccepted'
    BY <1>9 DEF TurnEnds, PlanAccepted
  <2> QED
    BY <1>9, <2>1 DEF TurnEnds
<1>10. CASE TakeEvent
  <2>1. queue # <<>> /\ queue[1][2] \in Nat \ {0} /\ Head(queue) = queue[1] /\ 1 \in 1 .. Len(queue)
    BY <1>10, Taken, MaxAsksAssumption DEF TakeEvent, IInv, TypeOK, Events
  <2>2. PlanAccepted => PlanAccepted'
    BY <1>10 DEF TakeEvent, PlanAccepted
  <2>3. UNCHANGED answer \/ (answer' = "reject" /\ dialog # NoAsk)
    BY <1>10, <2>1 DEF TakeEvent, Close
  <2> QED
    BY <1>10, <2>2, <2>3 DEF TakeEvent
<1>11. CASE StopDialog
  <2>1. PlanAccepted => PlanAccepted'
    BY <1>11 DEF StopDialog, PlanAccepted
  <2> QED
    BY <1>11, <2>1 DEF StopDialog, Post
<1>12. CASE StopReview
  <2>1. PlanAccepted => PlanAccepted'
    BY <1>12 DEF StopReview, PlanAccepted
  <2> QED
    BY <1>12, <2>1 DEF StopReview
<1>13. CASE Send
  BY <1>13 DEF Send, Idle
<1>14. CASE AnswerDialog
  <2>1. PlanAccepted => PlanAccepted'
    BY <1>14 DEF AnswerDialog, PlanAccepted
  <2> QED
    BY <1>14, <2>1 DEF AnswerDialog, Idle, Close
<1>15. CASE AnswerCard
  <2>1. PlanAccepted => PlanAccepted'
    BY <1>15 DEF AnswerCard, PlanAccepted
  <2> QED
    BY <1>15, <2>1 DEF AnswerCard, Idle, Resolve
<1>16. CASE Stop
  <2>1. PlanAccepted => PlanAccepted'
    BY <1>16 DEF Stop, PlanAccepted
  <2> QED
    BY <1>16, <2>1 DEF Stop, Idle
<1>17. CASE Rest
  <2>1. PlanAccepted => PlanAccepted'
    BY <1>17 DEF Rest, PlanAccepted, vars
  <2> QED
    BY <1>17, <2>1 DEF Rest, vars
<1>18. CASE UNCHANGED vars
  <2>1. PlanAccepted => PlanAccepted'
    BY <1>18 DEF vars, PlanAccepted
  <2> QED
    BY <1>18, <2>1 DEF vars
<1> QED
  BY <1>1, <1>2, <1>3, <1>4, <1>5, <1>6, <1>7, <1>8, <1>9,
     <1>10, <1>11, <1>12, <1>13, <1>14, <1>15, <1>16, <1>17, <1>18 DEF Next, Tool, Gui

\* The invariant holds at the start, is kept by every step, and so always holds.
LEMMA InitInv == Init => IInv
<1> SUFFICES ASSUME Init PROVE IInv
  OBVIOUS
<1>0. MaxAsks \in Nat /\ MaxTurns \in Nat \ {0} /\ MaxPosted \in Nat
  BY MaxAsksAssumption, MaxTurnsAssumption, MaxPostedAssumption
<1>1. queue \in Seq(Events) /\ Len(queue) = 0
  BY DEF Init
<1>2. TypeOK
  <2>1. turn \in 1 .. MaxTurns /\ ask \in 0 .. MaxAsks /\ first \in 0 .. ask
    BY <1>0 DEF Init
  <2>2. Len(queue) <= MaxPosted + 2
    BY <1>0, <1>1
  <2>3. required \in BOOLEAN /\ always \in BOOLEAN
    BY DEF Init
  <2>4. /\ yes \subseteq {"plan", "diff"} \X Asks /\ landed \subseteq Asks
        /\ authority \subseteq landed
    BY DEF Init
  <2> QED
    BY <1>1, <2>1, <2>2, <2>3, <2>4 DEF Init, TypeOK, Answers
<1>3. Asking
  BY DEF Init, Asking, Waiting, NoAsk
<1>4. Mail
  BY <1>1 DEF Init, Mail, NoAsk
<1>5. Backlog
  BY <1>0, <1>1 DEF Init, Backlog, Ahead, Unread, Waiting
<1>6. Backed
  BY DEF Init, Backed, Waiting, NoAsk
<1> QED
  BY <1>2, <1>3, <1>4, <1>5, <1>6 DEF IInv

LEMMA Inductive == IInv /\ [Next]_vars => IInv'
<1> SUFFICES ASSUME IInv, [Next]_vars PROVE IInv'
  OBVIOUS
<1>1. queue' \in Seq(Events) /\ Asking' /\ (Len(queue') <= MaxPosted + 2 => TypeOK')
  BY TypeStep
<1>2. Backlog'
  BY BacklogStep
<1>3. Len(queue') <= MaxPosted + 2
  <2>1. Len(queue') \in Nat /\ MaxPosted \in Nat
    BY <1>1, MaxPostedAssumption
  <2>2. Ahead' <= MaxPosted + 2
    BY <1>2 DEF Backlog
  <2> QED
    BY <2>1, <2>2 DEF Ahead
<1> QED
  BY <1>1, <1>2, <1>3, MailStep, BackedStep DEF IInv

LEMMA Invariance == Spec => []IInv
  BY InitInv, Inductive, PTL DEF Spec

(* Every variable has its type in every reachable state, and the GUI       *)
(* thread's queue is never longer than a Stop found it, and two.           *)
THEOREM TypeCorrect == Spec => []TypeOK
<1>1. IInv => TypeOK
  BY DEF IInv
<1> QED
  BY Invariance, <1>1, PTL

\* The two steps that make a change do it with the yes it needs.
LEMMA YesStep == IInv /\ [Next]_vars => \A a \in landed' \ landed : Allowed(a)
<1> SUFFICES ASSUME IInv, [Next]_vars, NEW a \in landed' \ landed PROVE Allowed(a)
  OBVIOUS
<1>0. Backed /\ Asking /\ required \in BOOLEAN
  BY DEF IInv, TypeOK
<1> USE <1>0 DEF turnVars, workerVars, reviewVars, diffVars, guiVars, ghostTurn,
     history, Becomes, NoAsk, Asks, Changes
<1>1. CASE Claim
  BY <1>1 DEF Claim
<1>2. CASE Refuse
  BY <1>2 DEF Refuse
<1>3. CASE AutoApprove
  <2>1. a = ask /\ (kind = "write" => ~rejectAll) /\ ~Waiting("diff") /\ <<"diff", a>> \in yes' /\ UNCHANGED never
    BY <1>3 DEF AutoApprove, MayChange, Lands, Waiting
  <2>2. required => PlanAccepted
    BY <1>3 DEF AutoApprove, MayChange, Blocks, Backed
  <2>3. a \in authority'
    BY <1>3, <2>1, <2>2 DEF AutoApprove, Lands, PlanAccepted
  <2> QED
    BY <2>1, <2>3 DEF Allowed, Backed
<1>4. CASE RequestApproval
  BY <1>4 DEF RequestApproval
<1>5. CASE RequestReview
  BY <1>5 DEF RequestReview
<1>6. CASE EmitReview
  BY <1>6 DEF EmitReview
<1>7. CASE ReviewReturns
  BY <1>7 DEF ReviewReturns
<1>8. CASE ApprovalReturns
  <2>1. /\ a = ask /\ answer \in {"approve", "approve_all"} /\ Waiting("diff")
        /\ UNCHANGED <<yes, never>>
    BY <1>8 DEF ApprovalReturns, Lands, Waiting
  <2>2. required => PlanAccepted
    BY <2>1 DEF Blocks, Backed
  <2>3. a \in authority'
    BY <1>8, <2>1, <2>2 DEF ApprovalReturns, Lands, PlanAccepted
  <2>4. (kind = "write" => ~rejectAll) /\ <<"diff", ask>> \in yes
    BY <2>1 DEF Backed
  <2> QED
    BY <2>1, <2>3, <2>4 DEF Allowed, Backed
<1>9. CASE TurnEnds
  BY <1>9 DEF TurnEnds
<1>10. CASE TakeEvent
  BY <1>10 DEF TakeEvent
<1>11. CASE StopDialog
  BY <1>11 DEF StopDialog
<1>12. CASE StopReview
  BY <1>12 DEF StopReview
<1>13. CASE Send
  BY <1>13 DEF Send
<1>14. CASE AnswerDialog
  BY <1>14 DEF AnswerDialog
<1>15. CASE AnswerCard
  BY <1>15 DEF AnswerCard
<1>16. CASE Stop
  BY <1>16 DEF Stop
<1>17. CASE Rest
  BY <1>17 DEF Rest, vars
<1>18. CASE UNCHANGED vars
  BY <1>18 DEF vars
<1> QED
  BY <1>1, <1>2, <1>3, <1>4, <1>5, <1>6, <1>7, <1>8, <1>9,
     <1>10, <1>11, <1>12, <1>13, <1>14, <1>15, <1>16, <1>17, <1>18 DEF Next, Tool, Gui

(* A change is made only with the person's yes to it, given in its own     *)
(* dialog or for the session, under an accepted plan of the same turn      *)
(* where one is required, and no write after they rejected all writes.     *)
THEOREM OnlyOnYesHolds == Spec => OnlyOnYes
<1>1. IInv /\ [Next]_vars => [\A a \in landed' \ landed : Allowed(a)]_vars
  BY YesStep
<1> QED
  BY Invariance, <1>1, PTL DEF Spec, OnlyOnYes
=============================================================================
