------------------------- MODULE ShellSessionProofs -------------------------
(***************************************************************************)
(* Proofs about ShellSession: types; a command that finds another shell    *)
(* than the one the model may count on is told so; and what a result tells *)
(* of its command is so.                                                   *)
(*                                                                         *)
(* The invariant behind ToldOfReset: between two commands the results so   *)
(* far let one count on exactly the shell the session holds, dead or       *)
(* alive, and on none when it holds none; and a call that has found that   *)
(* shell alive has it, while one that had to start another remembers so.   *)
(*                                                                         *)
(* The invariant behind ResultTrue follows a piece of text from the        *)
(* process through a pipe and the queue to the call: a stream is text,     *)
(* then its boundary, then its end, in both places together; what was      *)
(* printed is what was collected and what is still on its way; and once    *)
(* the boundary of a stream was read none of its text is.  Between calls a *)
(* shell that lives has nothing on its way and is where _current_cwd says. *)
(***************************************************************************)
EXTENDS ShellSession, FiniteSetTheorems, TLAPS

\* The boundary of stdout brings the completion record.
Recorded == "stdout" \in seen => record # NoDir

CountedOn ==
  /\ pc \in {"idle", "execute"} => believed = shell
  /\ pc \in {"submit", "collect"} /\ ~fresh => believed = shell

IInv == TypeOK /\ Recorded /\ CountedOn /\ ToldOfReset

LEMMA NothingPrinted == [s \in Streams |-> <<>>] \in [Streams -> Seq(Items)]
<1>1. <<>> \in Seq(Items)
  OBVIOUS
<1> QED
  BY <1>1

LEMMA InitInv == Init => IInv
<1> SUFFICES ASSUME Init PROVE IInv
  OBVIOUS
<1>1. TypeOK
  <2>1. /\ shell \in 0 .. MaxShells /\ shells \in 0 .. MaxShells /\ calls \in 0 .. MaxCalls
        /\ believed \in 0 .. MaxShells
    BY BoundAssumption DEF Init
  <2>2. last \in [failure : Failures, shell : 0 .. MaxShells, said : BOOLEAN,
                  counted : 0 .. MaxShells, got : Nat, wrote : Nat]
    BY BoundAssumption DEF Init, Failures
  <2>3. pipe \in [Streams -> Seq(Items)] /\ queue \in Seq(Streams \X Items)
    BY NothingPrinted DEF Init
  <2> QED
    BY <2>1, <2>2, <2>3, DirsAssumption DEF Init, TypeOK
<1> QED
  BY <1>1 DEF Init, IInv, Recorded, CountedOn, ToldOfReset

LEMMA TerminatedTyped ==
  Terminated /\ TypeOK => /\ alive' \in BOOLEAN /\ held' \in BOOLEAN /\ where' \in Dirs
                          /\ stage' \in {"idle", "given", "running", "recorded"}
                          /\ pipe' \in [Streams -> Seq(Items)]
  BY NothingPrinted DEF Terminated, TypeOK

LEMMA ResetStateTyped ==
  ResetState => /\ shell' \in 0 .. MaxShells /\ known' \in Dirs
                /\ queue' \in Seq(Streams \X Items)
  BY DirsAssumption, BoundAssumption DEF ResetState

LEMMA ReturnsTyped ==
  ASSUME TypeOK, NEW failure \in Failures, NEW sh \in 0 .. MaxShells, NEW said \in BOOLEAN,
         NEW text \in Nat, Returns(failure, sh, said, text)
  PROVE  /\ pc' = "idle"
         /\ believed' \in 0 .. MaxShells
         /\ last' \in [failure : Failures, shell : 0 .. MaxShells, said : BOOLEAN,
                       counted : 0 .. MaxShells, got : Nat, wrote : Nat]
  BY BoundAssumption DEF TypeOK, Returns

\* A result that never was a command's, with the session reset.
LEMMA InvalidateStep == IInv /\ Invalidate => IInv'
<1> SUFFICES ASSUME IInv, Invalidate PROVE IInv'
  OBVIOUS
<1> USE DEF IInv
<1>1. Returns("not_submitted", shell, FALSE, 0) /\ shell \in 0 .. MaxShells
  BY DEF Invalidate, TypeOK
<1>2. TypeOK'
  <2>1. /\ pc' = "idle" /\ believed' \in 0 .. MaxShells
        /\ last' \in [failure : Failures, shell : 0 .. MaxShells, said : BOOLEAN,
                      counted : 0 .. MaxShells, got : Nat, wrote : Nat]
    BY <1>1, ReturnsTyped DEF Failures
  <2> QED
    BY <2>1, TerminatedTyped, ResetStateTyped DEF Invalidate, TypeOK
<1>3. Recorded'
  BY DEF Invalidate, Recorded
<1>4. CountedOn' /\ ToldOfReset'
  BY <1>1 DEF Invalidate, ResetState, Returns, CountedOn, ToldOfReset
<1> QED
  BY <1>2, <1>3, <1>4

\* A command that came to no end of its own.
LEMMA FailedStep ==
  ASSUME IInv, NEW failure \in {"cancelled", "timeout", "shell_exited", "malformed_record"},
         pc = "collect", Failed(failure)
  PROVE  IInv'
<1> USE DEF IInv
<1>1. Returns(failure, shell, fresh, got) /\ failure \in Failures
  BY DEF Failed, Failures
<1>2. TypeOK'
  <2>1. /\ pc' = "idle" /\ believed' \in 0 .. MaxShells
        /\ last' \in [failure : Failures, shell : 0 .. MaxShells, said : BOOLEAN,
                      counted : 0 .. MaxShells, got : Nat, wrote : Nat]
    BY <1>1, ReturnsTyped DEF TypeOK
  <2> QED
    BY <2>1, TerminatedTyped, ResetStateTyped DEF Failed, TypeOK
<1>3. Recorded'
  BY DEF Failed, Recorded
<1>4. CountedOn' /\ ToldOfReset'
  BY <1>1 DEF Failed, ResetState, Returns, CountedOn, ToldOfReset
<1> QED
  BY <1>2, <1>3, <1>4

LEMMA CompletesStep == IInv /\ Completes => IInv'
<1> SUFFICES ASSUME IInv, Completes PROVE IInv'
  OBVIOUS
<1> USE DEF IInv
<1>1. Returns("none", shell, fresh, got)
  BY DEF Completes
<1>2. TypeOK'
  <2>1. /\ pc' = "idle" /\ believed' \in 0 .. MaxShells
        /\ last' \in [failure : Failures, shell : 0 .. MaxShells, said : BOOLEAN,
                      counted : 0 .. MaxShells, got : Nat, wrote : Nat]
    BY <1>1, ReturnsTyped DEF Failures, TypeOK
  <2>2. known' \in Dirs
    BY DEF Completes, Recorded, Streams, TypeOK
  <2> QED
    BY <2>1, <2>2 DEF Completes, TypeOK, process
<1>3. Recorded'
  BY DEF Completes, Recorded
<1>4. CountedOn' /\ ToldOfReset'
  BY <1>1 DEF Completes, Returns, CountedOn, ToldOfReset
<1> QED
  BY <1>2, <1>3, <1>4

LEMMA StartedTyped ==
  TypeOK /\ Started => /\ shell' \in 0 .. MaxShells /\ shells' \in 0 .. MaxShells
                       /\ queue' \in Seq(Streams \X Items)
                       /\ alive' \in BOOLEAN /\ where' \in Dirs /\ held' \in BOOLEAN
                       /\ stage' \in {"idle", "given", "running", "recorded"}
                       /\ pipe' \in [Streams -> Seq(Items)]
<1> SUFFICES ASSUME TypeOK, Started
             PROVE  /\ shell' \in 0 .. MaxShells /\ shells' \in 0 .. MaxShells
                    /\ queue' \in Seq(Streams \X Items)
                    /\ alive' \in BOOLEAN /\ where' \in Dirs /\ held' \in BOOLEAN
                    /\ stage' \in {"idle", "given", "running", "recorded"}
                    /\ pipe' \in [Streams -> Seq(Items)]
  OBVIOUS
<1>1. shells + 1 \in 0 .. MaxShells
  BY BoundAssumption DEF TypeOK, Started
<1>2. pipe' \in [Streams -> Seq(Items)] /\ queue' \in Seq(Streams \X Items)
  BY NothingPrinted DEF Started
<1> QED
  BY <1>1, <1>2, DirsAssumption DEF Started

LEMMA EnsureStartedStep == IInv /\ EnsureStarted => IInv'
<1> SUFFICES ASSUME IInv, EnsureStarted PROVE IInv'
  OBVIOUS
<1> USE DEF IInv
<1>1. TypeOK'
  <2>1. CASE shell # 0 /\ alive
    <3>1. /\ UNCHANGED <<session, process, calls, target, moves, cancelled, seen, eof, record,
                         got, ran, wrote, believed, last>>
          /\ fresh' = FALSE /\ pc' = "submit" /\ replaced' \in BOOLEAN
      BY <2>1 DEF EnsureStarted
    <3>2. UNCHANGED <<shell, known, ever, queue, shells, alive, where, stage, pipe, held>>
      BY <3>1 DEF session, process
    <3>3. TypeOK
      OBVIOUS
    <3>4. /\ UNCHANGED <<calls, target, moves, cancelled, seen, eof, record, got, ran, wrote,
                         believed, last>>
          /\ fresh' \in BOOLEAN /\ replaced' \in BOOLEAN
          /\ pc' \in {"idle", "execute", "submit", "collect"}
      BY <3>1
    <3> QED
      BY ONLY <3>2, <3>3, <3>4 DEF TypeOK
  <2>2. CASE ~(shell # 0 /\ alive)
    <3>1. Started /\ fresh' = TRUE /\ known' = Root /\ UNCHANGED ever
      BY <2>2 DEF EnsureStarted
    <3>2. /\ pc' = "submit" /\ replaced' \in BOOLEAN
          /\ UNCHANGED <<calls, target, moves, cancelled, seen, eof, record, got, ran,
                         wrote, believed, last>>
      BY DEF EnsureStarted
    <3> QED
      BY <3>1, <3>2, DirsAssumption, StartedTyped DEF TypeOK
  <2> QED
    BY <2>1, <2>2
<1>2. Recorded' /\ CountedOn' /\ ToldOfReset'
  BY DEF EnsureStarted, Recorded, CountedOn, ToldOfReset, session
<1> QED
  BY <1>1, <1>2

LEMMA ConsumeStep == IInv /\ Consume => IInv'
<1> SUFFICES ASSUME IInv, Consume PROVE IInv'
  OBVIOUS
<1> USE DEF IInv
<1>1. /\ queue \in Seq(Streams \X Items) /\ queue # <<>>
      /\ Head(queue) \in Streams \X Items
  BY DEF Consume, TypeOK
<1>2. Head(queue)[1] \in Streams
  BY <1>1
<1>3. queue' \in Seq(Streams \X Items)
  BY <1>1 DEF Consume
<1>4. eof' \subseteq Streams /\ seen' \subseteq Streams
  BY <1>2 DEF Consume, TypeOK
<1>5. record' \in Dirs \cup {NoDir} /\ got' \in Nat
  BY DEF Consume, TypeOK
<1>6. TypeOK'
  BY <1>3, <1>4, <1>5 DEF Consume, TypeOK, process, history
<1>7. Recorded'
  BY DirsAssumption DEF Consume, Recorded, TypeOK
<1>8. CountedOn' /\ ToldOfReset'
  BY DEF Consume, CountedOn, ToldOfReset, history
<1> QED
  BY <1>6, <1>7, <1>8

\* What the shell and the readers of its pipes do.
LEMMA ProcessStep ==
  ASSUME IInv,
         \/ Begin \/ LeavesChild \/ WritesRecord \/ WritesMarker \/ Dies \/ ChildEnds
         \/ \E s \in Streams : Prints(s) \/ Reads(s)
         \/ \E d \in Dirs : ChangesDirectory(d)
  PROVE  IInv'
<1> USE DEF IInv
<1>1. ASSUME NEW s \in Streams, NEW i \in Items
      PROVE  [pipe EXCEPT ![s] = Append(@, i)] \in [Streams -> Seq(Items)]
  BY <1>1 DEF TypeOK
<1>2. Closed(pipe) \in [Streams -> Seq(Items)]
  BY DEF Closed, TypeOK, Items
<1>3. CASE Begin
  BY <1>3 DEF Begin, TypeOK, Recorded, CountedOn, ToldOfReset, session, call
<1>4. CASE LeavesChild
  BY <1>4 DEF LeavesChild, TypeOK, Recorded, CountedOn, ToldOfReset, session, call, history
<1>5. CASE WritesRecord \/ WritesMarker
  <2>1. pipe' \in [Streams -> Seq(Items)]
    BY <1>1, <1>5 DEF WritesRecord, WritesMarker, Bounds, Streams, Items
  <2>2. stage' \in {"recorded", "idle"} /\ UNCHANGED <<session, alive, where, held, call, history>>
    BY <1>5 DEF WritesRecord, WritesMarker, Bounds
  <2> QED
    BY <2>1, <2>2 DEF TypeOK, Recorded, CountedOn, ToldOfReset, session, call, history
<1>6. CASE Dies \/ ChildEnds
  <2>1. pipe' \in [Streams -> Seq(Items)] /\ alive' \in BOOLEAN /\ held' \in BOOLEAN
    BY <1>2, <1>6 DEF Dies, ChildEnds, TypeOK
  <2>2. UNCHANGED <<session, where, stage, call, history>>
    BY <1>6 DEF Dies, ChildEnds
  <2> QED
    BY <2>1, <2>2 DEF TypeOK, Recorded, CountedOn, ToldOfReset, session, call, history
<1>7. ASSUME NEW s \in Streams, Prints(s) PROVE IInv'
  <2>1. pipe' \in [Streams -> Seq(Items)]
    BY <1>1, <1>7 DEF Prints, Items
  <2> QED
    BY <1>7, <2>1 DEF Prints, TypeOK, Recorded, CountedOn, ToldOfReset, session, call
<1>8. ASSUME NEW s \in Streams, Reads(s) PROVE IInv'
  <2>1. pipe[s] \in Seq(Items) /\ Head(pipe[s]) \in Items /\ Tail(pipe[s]) \in Seq(Items)
    BY <1>8 DEF Reads, TypeOK
  <2>2. pipe' \in [Streams -> Seq(Items)]
    BY <1>8, <2>1 DEF Reads, TypeOK
  <2>3. queue' \in Seq(Streams \X Items)
    BY <1>8, <2>1 DEF Reads, TypeOK
  <2> QED
    BY <1>8, <2>2, <2>3 DEF Reads, TypeOK, Recorded, CountedOn, ToldOfReset, call, history
<1>9. ASSUME NEW d \in Dirs, ChangesDirectory(d) PROVE IInv'
  BY <1>9 DEF ChangesDirectory, TypeOK, Recorded, CountedOn, ToldOfReset, session, call,
              history
<1> QED
  BY <1>3, <1>4, <1>5, <1>6, <1>7, <1>8, <1>9

LEMMA Step == IInv /\ [Next]_vars => IInv'
<1> SUFFICES ASSUME IInv, [Next]_vars PROVE IInv'
  OBVIOUS
<1>1. ASSUME NEW d \in Dirs \cup {NoDir}, Call(d) PROVE IInv'
  <2>1. target' \in Dirs /\ moves' \in BOOLEAN /\ calls' \in 0 .. MaxCalls
    BY <1>1, BoundAssumption DEF Call, IInv, TypeOK
  <2> QED
    BY <1>1, <2>1 DEF Call, IInv, TypeOK, Recorded, CountedOn, ToldOfReset, session, process
<1>2. CASE CancelledBefore \/ StartFails \/ SubmitFails
  BY <1>2, InvalidateStep DEF CancelledBefore, StartFails, SubmitFails
<1>3. CASE EnsureStarted
  BY <1>3, EnsureStartedStep
<1>4. CASE Submit
  BY <1>4 DEF Submit, IInv, TypeOK, Recorded, CountedOn, ToldOfReset
<1>5. CASE Consume
  BY <1>5, ConsumeStep
<1>6. CASE CancelledDuring \/ ShellExited \/ TimesOut \/ Malformed
  BY <1>6, FailedStep DEF CancelledDuring, ShellExited, TimesOut, Malformed, Collecting
<1>7. CASE Completes
  BY <1>7, CompletesStep
<1>8. CASE Stop \/ NewTurn
  <2>1. /\ cancelled' \in BOOLEAN
        /\ UNCHANGED <<session, process, pc, calls, target, moves, fresh, seen, eof, record,
                       got, history>>
    BY <1>8 DEF Stop, NewTurn
  <2> QED
    BY <2>1 DEF IInv, TypeOK, Recorded, CountedOn, ToldOfReset, session, process, history
<1>9. CASE Reset
  <2>1. TypeOK'
    <3>1. believed' \in 0 .. MaxShells /\ ever' \in BOOLEAN
      <4>1. believed' = 0 /\ ever' = FALSE
        BY <1>9 DEF Reset
      <4>2. 0 \in 0 .. MaxShells
        BY BoundAssumption
      <4> QED
        BY <4>1, <4>2
    <3>2. /\ shell' \in 0 .. MaxShells /\ known' \in Dirs
          /\ queue' \in Seq(Streams \X Items)
      BY <1>9, ResetStateTyped DEF Reset
    <3>3. /\ alive' \in BOOLEAN /\ held' \in BOOLEAN /\ where' \in Dirs
          /\ stage' \in {"idle", "given", "running", "recorded"}
          /\ pipe' \in [Streams -> Seq(Items)]
      BY <1>9, TerminatedTyped DEF Reset, IInv
    <3>4. UNCHANGED <<shells, call, ran, wrote, replaced, last>>
      BY <1>9 DEF Reset
    <3> QED
      BY <3>1, <3>2, <3>3, <3>4 DEF IInv, TypeOK, call
  <2> QED
    BY <1>9, <2>1 DEF Reset, ResetState, IInv, Recorded, CountedOn, ToldOfReset, call
<1>10. CASE UNCHANGED vars
  BY <1>10 DEF vars, session, process, call, history, IInv, TypeOK, Recorded, CountedOn,
               ToldOfReset
<1> QED
  BY <1>1, <1>2, <1>3, <1>4, <1>5, <1>6, <1>7, <1>8, <1>9, <1>10, ProcessStep
     DEF Next, Tool

THEOREM Inductive == Spec => []IInv
  BY InitInv, Step, PTL DEF Spec

\* Every variable keeps its type.
THEOREM TypeCorrect == Spec => []TypeOK
<1>1. IInv => TypeOK
  BY DEF IInv
<1> QED
  BY <1>1, Inductive, PTL

\* Whatever dies, times out, is stopped or fails to start, a result that comes from
\* another shell than the results before it let one count on says that it is new.
THEOREM ResetIsTold == Spec => []ToldOfReset
<1>1. IInv => ToldOfReset
  BY DEF IInv
<1> QED
  BY <1>1, Inductive, PTL

-----------------------------------------------------------------------------
\* The positions of a sequence that hold a member of a set, and their number.
At(q, S) == {i \in 1 .. Len(q) : q[i] \in S}
Texts(q, S) == Cardinality(At(q, S))

LEMMA TextsFinite ==
  ASSUME NEW D, NEW q \in Seq(D), NEW S
  PROVE  IsFiniteSet(At(q, S)) /\ Texts(q, S) \in Nat
<1>1. IsFiniteSet(1 .. Len(q))
  <2>1. Len(q) \in Int
    OBVIOUS
  <2> QED
    BY <2>1, FS_Interval
<1>2. At(q, S) \in SUBSET (1 .. Len(q))
  BY DEF At
<1> QED
  BY <1>1, <1>2, FS_Subset, FS_CardinalityType DEF Texts

LEMMA TextsNone ==
  ASSUME NEW D, NEW q \in Seq(D), NEW S, \A i \in 1 .. Len(q) : q[i] \notin S
  PROVE  Texts(q, S) = 0
<1>1. At(q, S) = {}
  BY DEF At
<1> QED
  BY <1>1, FS_EmptySet DEF Texts

LEMMA TextsAppend ==
  ASSUME NEW D, NEW q \in Seq(D), NEW x \in D, NEW S
  PROVE  Texts(Append(q, x), S) = Texts(q, S) + (IF x \in S THEN 1 ELSE 0)
<1> DEFINE r == Append(q, x)
<1>1. /\ Len(r) = Len(q) + 1 /\ Len(q) \in Nat
      /\ \A i \in 1 .. Len(q) : r[i] = q[i]
      /\ r[Len(q) + 1] = x
  OBVIOUS
<1>2. CASE x \in S
  <2>1. At(r, S) = At(q, S) \cup {Len(q) + 1}
    <3> HIDE DEF r
    <3> QED
      BY <1>1, <1>2 DEF At
  <2>2. Len(q) + 1 \notin At(q, S)
    BY <1>1 DEF At
  <2>3. Cardinality(At(r, S)) = Cardinality(At(q, S)) + 1
    <3> HIDE DEF r
    <3> QED
      BY <2>1, <2>2, TextsFinite, FS_AddElement
  <2> QED
    BY <1>2, <2>3 DEF Texts
<1>3. CASE x \notin S
  <2>1. At(r, S) = At(q, S)
    <3> HIDE DEF r
    <3> QED
      BY <1>1, <1>3 DEF At
  <2>2. Texts(q, S) \in Nat
    BY TextsFinite
  <2> QED
    BY <1>3, <2>1, <2>2 DEF Texts
<1> QED
  BY <1>2, <1>3

LEMMA TextsTail ==
  ASSUME NEW D, NEW q \in Seq(D), q # <<>>, NEW S
  PROVE  Texts(q, S) = Texts(Tail(q), S) + (IF Head(q) \in S THEN 1 ELSE 0)
<1> DEFINE r == Tail(q)
           n == Len(q)
           A == At(q, S) \ {1}
           B == At(r, S)
           f == [i \in A |-> i - 1]
<1>1. /\ r \in Seq(D) /\ Len(r) = n - 1 /\ n \in Nat /\ n > 0
      /\ \A i \in 1 .. n - 1 : r[i] = q[i + 1]
      /\ Head(q) = q[1]
  OBVIOUS
<1>2. A = {i \in 2 .. n : q[i] \in S} /\ B = {i \in 1 .. n - 1 : q[i + 1] \in S}
  <2> HIDE DEF r, n
  <2> QED
    BY <1>1 DEF At, n
<1>3. IsFiniteSet(At(q, S)) /\ IsFiniteSet(A) /\ Cardinality(At(q, S)) \in Nat
  <2>1. IsFiniteSet(At(q, S))
    BY TextsFinite
  <2> QED
    BY <2>1, FS_RemoveElement, FS_CardinalityType
<1>4. f \in Bijection(A, B)
  <2> HIDE DEF A, B, n, r
  <2>1. f \in [A -> B]
    BY <1>1, <1>2
  <2>2. \A a, b \in A : f[a] = f[b] => a = b
    BY <1>1, <1>2
  <2>3. \A b \in B : \E a \in A : f[a] = b
    <3> SUFFICES ASSUME NEW b \in B PROVE \E a \in A : f[a] = b
      OBVIOUS
    <3>1. b + 1 \in A /\ b + 1 - 1 = b
      BY <1>1, <1>2
    <3> QED
      BY <3>1, <1>1, <1>2
  <2> HIDE DEF f
  <2> QED
    BY <2>1, <2>2, <2>3 DEF Bijection, Injection, Surjection, IsInjective
<1>5. Cardinality(A) = Cardinality(B)
  <2> HIDE DEF A, B, f
  <2>1. ExistsBijection(A, B)
    BY <1>4 DEF ExistsBijection
  <2> QED
    BY <2>1, <1>3, FS_Bijection
<1>6. 1 \in At(q, S) <=> Head(q) \in S
  <2> HIDE DEF r, n
  <2> QED
    BY <1>1 DEF At, n
<1>7. Cardinality(A) = IF 1 \in At(q, S) THEN Cardinality(At(q, S)) - 1 ELSE Cardinality(At(q, S))
  BY <1>3, FS_RemoveElement
<1>8. Cardinality(B) \in Nat
  BY <1>1, TextsFinite DEF Texts
<1> HIDE DEF A, B, r, n, f
<1> QED
  BY <1>3, <1>5, <1>6, <1>7, <1>8 DEF Texts, B, r

-----------------------------------------------------------------------------
\* One stream carries text, then its boundary, then its end.
Follows(a, b) == a = "text" \/ (a = "boundary" /\ b = "eof")

\* What a stream holds that the call has not consumed.
Unread(s) ==
  {pipe[s][i] : i \in 1 .. Len(pipe[s])}
    \cup {queue[i][2] : i \in {j \in 1 .. Len(queue) : queue[j][1] = s}}

Ordered ==
  /\ \A i, j \in 1 .. Len(queue) :
       i < j /\ queue[i][1] = queue[j][1] => Follows(queue[i][2], queue[j][2])
  /\ \A s \in Streams : \A i, j \in 1 .. Len(pipe[s]) :
       i < j => Follows(pipe[s][i], pipe[s][j])
  /\ \A i \in 1 .. Len(queue) : \A j \in 1 .. Len(pipe[queue[i][1]]) :
       Follows(queue[i][2], pipe[queue[i][1]][j])

Plain == {"text"}
AllTexts ==
  Texts(queue, Streams \X Plain) + Texts(pipe["stdout"], Plain) + Texts(pipe["stderr"], Plain)

LEMMA QueueItems ==
  ASSUME TypeOK, NEW i \in 1 .. Len(queue)
  PROVE  queue[i][1] \in Streams /\ queue[i][2] \in Items
<1>1. queue \in Seq(Streams \X Items)
  BY DEF TypeOK
<1>2. queue[i] \in Streams \X Items
  BY <1>1
<1> QED
  BY <1>2

LEMMA ItemsUnread ==
  ASSUME TypeOK, NEW s \in Streams
  PROVE  Unread(s) \subseteq Items
<1>1. \A i \in 1 .. Len(pipe[s]) : pipe[s][i] \in Items
  <2>1. pipe[s] \in Seq(Items)
    BY DEF TypeOK
  <2> QED
    BY <2>1
<1>2. \A i \in 1 .. Len(queue) : queue[i][2] \in Items
  BY QueueItems
<1> QED
  BY <1>1, <1>2 DEF Unread

LEMMA TextsTyped == TypeOK => AllTexts \in Nat
<1> SUFFICES ASSUME TypeOK PROVE AllTexts \in Nat
  OBVIOUS
<1>1. \A s \in Streams : Texts(pipe[s], Plain) \in Nat
  BY TextsFinite DEF TypeOK
<1>2. Texts(queue, Streams \X Plain) \in Nat
  BY TextsFinite DEF TypeOK
<1> QED
  BY <1>1, <1>2 DEF AllTexts, Streams

\* One more item at the end of some pipes.
LEMMA Grows ==
  ASSUME TypeOK, NEW A \in SUBSET Streams, NEW x \in Items,
         pipe' = [s \in Streams |-> IF s \in A THEN Append(pipe[s], x) ELSE pipe[s]],
         queue' = queue,
         Ordered, \A s \in A : \A y \in Unread(s) : Follows(y, x)
  PROVE  /\ Ordered'
         /\ \A s \in Streams : Unread(s)' = IF s \in A THEN Unread(s) \cup {x} ELSE Unread(s)
         /\ x # "text" => AllTexts' = AllTexts
         /\ \A s \in Streams : A = {s} /\ x = "text" => AllTexts' = AllTexts + 1
<1>1. ASSUME NEW s \in Streams
      PROVE  pipe[s] \in Seq(Items) /\ Len(pipe[s]) \in Nat
  BY DEF TypeOK
<1>2. ASSUME NEW s \in A
      PROVE  /\ pipe'[s] = Append(pipe[s], x)
             /\ Len(pipe'[s]) = Len(pipe[s]) + 1
             /\ \A i \in 1 .. Len(pipe[s]) : pipe'[s][i] = pipe[s][i]
             /\ pipe'[s][Len(pipe[s]) + 1] = x
  BY <1>1
<1>3. ASSUME NEW s \in Streams \ A
      PROVE  pipe'[s] = pipe[s]
  OBVIOUS
<1>4. ASSUME NEW i \in 1 .. Len(queue)
      PROVE  queue[i][1] \in Streams /\ queue[i][2] \in Unread(queue[i][1])
  BY QueueItems DEF Unread
<1>5. ASSUME NEW s \in Streams, NEW i \in 1 .. Len(pipe[s])
      PROVE  pipe[s][i] \in Unread(s)
  BY DEF Unread
<1>6. Ordered'
  <2>1. \A s \in Streams : \A i, j \in 1 .. Len(pipe'[s]) :
          i < j => Follows(pipe'[s][i], pipe'[s][j])
    <3> SUFFICES ASSUME NEW s \in Streams, NEW i \in 1 .. Len(pipe'[s]),
                        NEW j \in 1 .. Len(pipe'[s]), i < j
                 PROVE  Follows(pipe'[s][i], pipe'[s][j])
      OBVIOUS
    <3>1. CASE s \notin A
      BY <3>1, <1>3 DEF Ordered
    <3>2. CASE s \in A /\ j = Len(pipe[s]) + 1
      <4>1. i \in 1 .. Len(pipe[s])
        BY <3>2, <1>1, <1>2
      <4> QED
        BY <3>2, <4>1, <1>2, <1>5
    <3>3. CASE s \in A /\ j # Len(pipe[s]) + 1
      <4>1. i \in 1 .. Len(pipe[s]) /\ j \in 1 .. Len(pipe[s])
        BY <3>3, <1>1, <1>2
      <4>2. Follows(pipe[s][i], pipe[s][j])
        BY <4>1 DEF Ordered
      <4> QED
        BY <3>3, <4>1, <4>2, <1>2
    <3> QED
      BY <3>1, <3>2, <3>3
  <2>2. \A i \in 1 .. Len(queue) : \A j \in 1 .. Len(pipe'[queue[i][1]]) :
          Follows(queue[i][2], pipe'[queue[i][1]][j])
    <3> SUFFICES ASSUME NEW i \in 1 .. Len(queue), NEW j \in 1 .. Len(pipe'[queue[i][1]])
                 PROVE  Follows(queue[i][2], pipe'[queue[i][1]][j])
      OBVIOUS
    <3> DEFINE s == queue[i][1]
    <3>0. s \in Streams
      BY <1>4
    <3>1. CASE s \notin A
      BY <3>0, <3>1, <1>3 DEF Ordered
    <3>2. CASE s \in A /\ j = Len(pipe[s]) + 1
      BY <3>2, <1>2, <1>4
    <3>3. CASE s \in A /\ j # Len(pipe[s]) + 1
      <4>1. j \in 1 .. Len(pipe[s])
        BY <3>0, <3>3, <1>1, <1>2
      <4> QED
        BY <3>3, <4>1, <1>2 DEF Ordered
    <3> QED
      BY <3>1, <3>2, <3>3
  <2> QED
    BY <2>1, <2>2 DEF Ordered
<1>7. ASSUME NEW s \in Streams
      PROVE  Unread(s)' = IF s \in A THEN Unread(s) \cup {x} ELSE Unread(s)
  <2>1. CASE s \notin A
    BY <2>1, <1>3 DEF Unread
  <2>2. CASE s \in A
    <3>1. {pipe'[s][i] : i \in 1 .. Len(pipe'[s])}
             = {pipe[s][i] : i \in 1 .. Len(pipe[s])} \cup {x}
      BY <2>2, <1>1, <1>2
    <3> QED
      BY <2>2, <3>1 DEF Unread
  <2> QED
    BY <2>1, <2>2
<1>8. ASSUME NEW s \in Streams
      PROVE  /\ Texts(pipe[s], Plain) \in Nat
             /\ Texts(pipe'[s], Plain) = Texts(pipe[s], Plain)
                  + (IF s \in A /\ x = "text" THEN 1 ELSE 0)
  <2>1. Texts(pipe[s], Plain) \in Nat
    BY <1>1, TextsFinite
  <2>2. CASE s \notin A
    BY <2>1, <2>2, <1>3
  <2>3. CASE s \in A
    <3>1. Texts(Append(pipe[s], x), Plain) = Texts(pipe[s], Plain) + (IF x \in Plain THEN 1 ELSE 0)
      BY <1>1, TextsAppend
    <3> QED
      BY <2>1, <2>3, <3>1, <1>2 DEF Plain
  <2> QED
    BY <2>2, <2>3
<1>9. Texts(queue, Streams \X Plain) \in Nat
  BY TextsFinite DEF TypeOK
<1>10. Texts(queue, Streams \X Plain)' = Texts(queue, Streams \X Plain)
  BY DEF Texts, At
<1>11. AllTexts' = Texts(queue, Streams \X Plain) + Texts(pipe'["stdout"], Plain)
                     + Texts(pipe'["stderr"], Plain)
  BY <1>10 DEF AllTexts, Texts, At
<1>12. "stdout" \in Streams /\ "stderr" \in Streams /\ \A s \in Streams : s = "stdout" \/ s = "stderr"
  BY DEF Streams
<1>13. x # "text" => AllTexts' = AllTexts
  BY <1>8, <1>9, <1>11, <1>12 DEF AllTexts
<1>14. ASSUME NEW s \in Streams, A = {s}, x = "text" PROVE AllTexts' = AllTexts + 1
  BY <1>14, <1>8, <1>9, <1>11, <1>12 DEF AllTexts
<1> QED
  BY <1>6, <1>7, <1>13, <1>14

\* A reader moves an item from its pipe to the queue.
LEMMA Moves ==
  ASSUME TypeOK, Ordered, NEW r \in Streams, Reads(r)
  PROVE  /\ Ordered'
         /\ \A s \in Streams : Unread(s)' = Unread(s)
         /\ AllTexts' = AllTexts
<1> DEFINE h == Head(pipe[r])
<1>1. /\ pipe[r] \in Seq(Items) /\ pipe[r] # <<>> /\ Len(pipe[r]) \in Nat /\ Len(pipe[r]) > 0
      /\ h = pipe[r][1] /\ h \in Items
      /\ queue \in Seq(Streams \X Items) /\ Len(queue) \in Nat
  BY DEF Reads, TypeOK
<1>2. /\ pipe'[r] = Tail(pipe[r])
      /\ \A s \in Streams : s # r => pipe'[s] = pipe[s]
  BY DEF Reads, TypeOK
<1>3. /\ pipe'[r] \in Seq(Items)
      /\ Len(pipe'[r]) = Len(pipe[r]) - 1
      /\ \A i \in 1 .. Len(pipe'[r]) : pipe'[r][i] = pipe[r][i + 1]
  BY <1>1, <1>2
<1>4. /\ queue' = Append(queue, <<r, h>>)
      /\ Len(queue') = Len(queue) + 1
      /\ \A i \in 1 .. Len(queue) : queue'[i] = queue[i]
      /\ queue'[Len(queue) + 1] = <<r, h>>
  BY <1>1 DEF Reads
<1>5. \A i \in 1 .. Len(queue) : queue[i][1] \in Streams
  BY <1>1
<1>a. \A i \in 1 .. Len(queue') : i \in 1 .. Len(queue) \/ i = Len(queue) + 1
  <2>1. \A n \in Nat : \A i \in 1 .. n + 1 : i \in 1 .. n \/ i = n + 1
    OBVIOUS
  <2> QED
    BY <2>1, <1>1, <1>4
<1>b. \A i \in 1 .. Len(pipe'[r]) : i + 1 \in 1 .. Len(pipe[r]) /\ pipe'[r][i] = pipe[r][i + 1]
  <2>1. \A n \in Nat : \A i \in 1 .. n - 1 : i + 1 \in 1 .. n
    OBVIOUS
  <2>2. \A i \in 1 .. Len(pipe'[r]) : i + 1 \in 1 .. Len(pipe[r])
    BY <2>1, <1>1, <1>3
  <2> QED
    BY <2>2, <1>3
<1> HIDE DEF h
<1>6. Ordered'
  <2>1. \A i, j \in 1 .. Len(queue') :
          i < j /\ queue'[i][1] = queue'[j][1] => Follows(queue'[i][2], queue'[j][2])
    <3> SUFFICES ASSUME NEW i \in 1 .. Len(queue'), NEW j \in 1 .. Len(queue'),
                        i < j, queue'[i][1] = queue'[j][1]
                 PROVE  Follows(queue'[i][2], queue'[j][2])
      OBVIOUS
    <3>1. i \in 1 .. Len(queue) /\ queue'[i] = queue[i]
      BY <1>1, <1>4
    <3>2. CASE j \in 1 .. Len(queue)
      BY <3>1, <3>2, <1>4 DEF Ordered
    <3>3. CASE j = Len(queue) + 1
      <4>1. queue'[j][1] = r /\ queue'[j][2] = h
        BY <3>3, <1>4
      <4>2. 1 \in 1 .. Len(pipe[queue[i][1]])
        BY <3>1, <4>1, <1>1
      <4> QED
        BY <3>1, <4>1, <4>2, <1>1 DEF Ordered
    <3> QED
      BY <3>2, <3>3, <1>a
  <2>2. \A s \in Streams : \A i, j \in 1 .. Len(pipe'[s]) :
          i < j => Follows(pipe'[s][i], pipe'[s][j])
    <3> SUFFICES ASSUME NEW s \in Streams, NEW i \in 1 .. Len(pipe'[s]),
                        NEW j \in 1 .. Len(pipe'[s]), i < j
                 PROVE  Follows(pipe'[s][i], pipe'[s][j])
      OBVIOUS
    <3>1. CASE s # r
      BY <3>1, <1>2 DEF Ordered
    <3>2. CASE s = r
      <4>1. i + 1 \in 1 .. Len(pipe[r]) /\ j + 1 \in 1 .. Len(pipe[r]) /\ i + 1 < j + 1
        BY <3>2, <1>1, <1>3
      <4>2. Follows(pipe[r][i + 1], pipe[r][j + 1])
        BY <4>1 DEF Ordered
      <4> QED
        BY <3>2, <4>2, <1>3
    <3> QED
      BY <3>1, <3>2
  <2>3. \A i \in 1 .. Len(queue') : \A j \in 1 .. Len(pipe'[queue'[i][1]]) :
          Follows(queue'[i][2], pipe'[queue'[i][1]][j])
    <3> SUFFICES ASSUME NEW i \in 1 .. Len(queue'), NEW j \in 1 .. Len(pipe'[queue'[i][1]])
                 PROVE  Follows(queue'[i][2], pipe'[queue'[i][1]][j])
      OBVIOUS
    <3>1. CASE i = Len(queue) + 1
      <4>1. queue'[i][1] = r /\ queue'[i][2] = pipe[r][1]
        BY <3>1, <1>1, <1>4
      <4>2. /\ 1 \in 1 .. Len(pipe[r]) /\ j + 1 \in 1 .. Len(pipe[r]) /\ 1 < j + 1
            /\ pipe'[r][j] = pipe[r][j + 1]
        BY <4>1, <1>1, <1>3
      <4>3. Follows(pipe[r][1], pipe[r][j + 1])
        BY <4>2 DEF Ordered
      <4> QED
        BY <4>1, <4>2, <4>3
    <3>2. CASE i \in 1 .. Len(queue) /\ queue[i][1] # r
      BY <3>2, <1>2, <1>4, <1>5 DEF Ordered
    <3>3. CASE i \in 1 .. Len(queue) /\ queue[i][1] = r
      <4>1. queue'[i] = queue[i] /\ queue'[i][1] = r
        BY <3>3, <1>4
      <4>2. j + 1 \in 1 .. Len(pipe[r]) /\ pipe'[r][j] = pipe[r][j + 1]
        BY <4>1, <1>b
      <4>3. Follows(queue[i][2], pipe[r][j + 1])
        BY <3>3, <4>2 DEF Ordered
      <4> QED
        BY <3>3, <4>1, <4>2, <4>3
    <3> QED
      BY <3>1, <3>2, <3>3, <1>a
  <2> QED
    BY <2>1, <2>2, <2>3 DEF Ordered
<1>7. ASSUME NEW s \in Streams
      PROVE  {queue'[i][2] : i \in {j \in 1 .. Len(queue') : queue'[j][1] = s}}
               = {queue[i][2] : i \in {j \in 1 .. Len(queue) : queue[j][1] = s}}
                   \cup (IF s = r THEN {h} ELSE {})
  <2> DEFINE J == {j \in 1 .. Len(queue) : queue[j][1] = s}
  <2>1. {j \in 1 .. Len(queue') : queue'[j][1] = s}
          = J \cup (IF s = r THEN {Len(queue) + 1} ELSE {})
    BY <1>1, <1>4
  <2>2. \A i \in J : queue'[i] = queue[i]
    BY <1>4
  <2>3. queue'[Len(queue) + 1][2] = h
    BY <1>4
  <2> HIDE DEF J
  <2>4. {queue'[i][2] : i \in J \cup (IF s = r THEN {Len(queue) + 1} ELSE {})}
          = {queue[i][2] : i \in J} \cup (IF s = r THEN {h} ELSE {})
    BY <2>2, <2>3
  <2> QED
    BY <2>1, <2>4 DEF J
<1>8. {pipe[r][i] : i \in 1 .. Len(pipe[r])} = {pipe'[r][i] : i \in 1 .. Len(pipe'[r])} \cup {h}
  <2>1. ASSUME NEW i \in 1 .. Len(pipe[r])
        PROVE  pipe[r][i] = h \/ (i - 1 \in 1 .. Len(pipe'[r]) /\ pipe[r][i] = pipe'[r][i - 1])
    BY <1>1, <1>3
  <2>2. ASSUME NEW i \in 1 .. Len(pipe'[r])
        PROVE  i + 1 \in 1 .. Len(pipe[r]) /\ pipe'[r][i] = pipe[r][i + 1]
    BY <1>b
  <2>3. 1 \in 1 .. Len(pipe[r]) /\ h = pipe[r][1]
    BY <1>1
  <2> QED
    BY <2>1, <2>2, <2>3
<1>9. ASSUME NEW s \in Streams PROVE Unread(s)' = Unread(s)
  <2>1. Unread(s)' = {pipe'[s][i] : i \in 1 .. Len(pipe'[s])}
                       \cup {queue'[i][2] : i \in {j \in 1 .. Len(queue') : queue'[j][1] = s}}
    BY DEF Unread
  <2>2. CASE s = r
    <3>1. Unread(r)' = {pipe'[r][i] : i \in 1 .. Len(pipe'[r])}
            \cup ({queue[i][2] : i \in {j \in 1 .. Len(queue) : queue[j][1] = r}} \cup {h})
      BY <2>1, <2>2, <1>7
    <3>2. Unread(r) = ({pipe'[r][i] : i \in 1 .. Len(pipe'[r])} \cup {h})
            \cup {queue[i][2] : i \in {j \in 1 .. Len(queue) : queue[j][1] = r}}
      BY <1>8 DEF Unread
    <3> QED
      BY <2>2, <3>1, <3>2, ZenonT(30)
  <2>3. CASE s # r
    BY <2>1, <2>3, <1>2, <1>7 DEF Unread
  <2> QED
    BY <2>2, <2>3
<1>10. Texts(queue', Streams \X Plain)
         = Texts(queue, Streams \X Plain) + (IF h \in Plain THEN 1 ELSE 0)
  <2>1. <<r, h>> \in Streams \X Items
    BY <1>1
  <2>2. <<r, h>> \in Streams \X Plain <=> h \in Plain
    OBVIOUS
  <2>3. Texts(Append(queue, <<r, h>>), Streams \X Plain)
          = Texts(queue, Streams \X Plain) + (IF <<r, h>> \in Streams \X Plain THEN 1 ELSE 0)
    BY <2>1, <1>1, TextsAppend
  <2> QED
    BY <2>2, <2>3, <1>4
<1>11. Texts(pipe[r], Plain) = Texts(pipe'[r], Plain) + (IF h \in Plain THEN 1 ELSE 0)
  BY <1>1, <1>2, TextsTail DEF h
<1>12. /\ Texts(queue, Streams \X Plain) \in Nat /\ Texts(pipe'[r], Plain) \in Nat
       /\ \A s \in Streams : Texts(pipe[s], Plain) \in Nat
  BY <1>1, <1>3, TextsFinite DEF TypeOK
<1>13. AllTexts' = Texts(queue', Streams \X Plain) + Texts(pipe'["stdout"], Plain)
                     + Texts(pipe'["stderr"], Plain)
  BY DEF AllTexts, Texts, At
<1>14. AllTexts' = AllTexts
  <2>1. CASE r = "stdout"
    BY <2>1, <1>2, <1>10, <1>11, <1>12, <1>13 DEF AllTexts, Streams
  <2>2. CASE r = "stderr"
    BY <2>2, <1>2, <1>10, <1>11, <1>12, <1>13 DEF AllTexts, Streams
  <2> QED
    BY <2>1, <2>2 DEF Streams
<1> QED
  BY <1>6, <1>9, <1>14

\* The call takes the first item of the queue; what is left of its stream follows it.
LEMMA Takes ==
  ASSUME TypeOK, Ordered, queue # <<>>, queue' = Tail(queue), pipe' = pipe
  PROVE  /\ Ordered'
         /\ Head(queue)[1] \in Streams /\ Head(queue)[2] \in Unread(Head(queue)[1])
         /\ \A s \in Streams : Unread(s)' \subseteq Unread(s)
         /\ \A s \in Streams : s = Head(queue)[1] =>
              \A y \in Unread(s)' : Follows(Head(queue)[2], y)
         /\ AllTexts = AllTexts' + (IF Head(queue)[2] = "text" THEN 1 ELSE 0)
         /\ AllTexts' \in Nat
<1> DEFINE n == Len(queue)
           s0 == Head(queue)[1]
           x0 == Head(queue)[2]
<1>1. /\ queue \in Seq(Streams \X Items) /\ n \in Nat /\ n > 0
      /\ Head(queue) = queue[1] /\ Head(queue) \in Streams \X Items
      /\ Len(queue') = n - 1
      /\ \A i \in 1 .. n - 1 : queue'[i] = queue[i + 1]
  BY DEF TypeOK
<1>2. s0 \in Streams /\ x0 \in Items /\ s0 = queue[1][1] /\ x0 = queue[1][2]
  BY <1>1
<1>3. \A i \in 1 .. Len(queue') : i + 1 \in 1 .. n /\ queue'[i] = queue[i + 1]
  BY <1>1
<1>4. 1 \in 1 .. n /\ \A i \in 1 .. Len(queue') : 1 < i + 1
  BY <1>1
<1> HIDE DEF s0, x0
<1>5. Ordered'
  <2>1. ASSUME NEW i \in 1 .. Len(queue'), NEW j \in 1 .. Len(queue'),
               i < j, queue'[i][1] = queue'[j][1]
        PROVE  Follows(queue'[i][2], queue'[j][2])
    <3>1. i + 1 \in 1 .. n /\ j + 1 \in 1 .. n /\ i + 1 < j + 1
      BY <2>1, <1>1, <1>3
    <3> QED
      BY <2>1, <3>1, <1>3 DEF Ordered
  <2>2. ASSUME NEW i \in 1 .. Len(queue'), NEW j \in 1 .. Len(pipe'[queue'[i][1]])
        PROVE  Follows(queue'[i][2], pipe'[queue'[i][1]][j])
    BY <1>3 DEF Ordered
  <2>3. \A s \in Streams : \A i, j \in 1 .. Len(pipe'[s]) :
          i < j => Follows(pipe'[s][i], pipe'[s][j])
    BY DEF Ordered
  <2> QED
    BY <2>1, <2>2, <2>3 DEF Ordered
<1>6. x0 \in Unread(s0)
  BY <1>2, <1>4 DEF Unread
<1>7. ASSUME NEW s \in Streams PROVE Unread(s)' \subseteq Unread(s)
  BY <1>3 DEF Unread
<1>8. ASSUME NEW s \in Streams, s = s0, NEW y \in Unread(s)' PROVE Follows(x0, y)
  <2>1. Unread(s)' = {pipe[s][i] : i \in 1 .. Len(pipe[s])}
                       \cup {queue'[i][2] : i \in {j \in 1 .. Len(queue') : queue'[j][1] = s}}
    BY DEF Unread
  <2>2. ASSUME NEW i \in 1 .. Len(pipe[s]) PROVE Follows(x0, pipe[s][i])
    BY <1>2, <1>4, <1>8 DEF Ordered
  <2>3. ASSUME NEW i \in 1 .. Len(queue'), queue'[i][1] = s PROVE Follows(x0, queue'[i][2])
    BY <2>3, <1>2, <1>3, <1>4, <1>8 DEF Ordered
  <2> QED
    BY <1>8, <2>1, <2>2, <2>3
<1>9. AllTexts = AllTexts' + (IF x0 = "text" THEN 1 ELSE 0) /\ AllTexts' \in Nat
  <2>1. Texts(queue, Streams \X Plain)
          = Texts(queue', Streams \X Plain) + (IF Head(queue) \in Streams \X Plain THEN 1 ELSE 0)
    BY <1>1, TextsTail
  <2>2. Head(queue) \in Streams \X Plain <=> x0 = "text"
    BY <1>1, <1>2 DEF Plain
  <2>3. AllTexts' = Texts(queue', Streams \X Plain) + Texts(pipe["stdout"], Plain)
                      + Texts(pipe["stderr"], Plain)
    BY DEF AllTexts, Texts, At
  <2>4. queue' \in Seq(Streams \X Items)
    BY <1>1
  <2>5. /\ Texts(queue', Streams \X Plain) \in Nat
        /\ \A s \in Streams : Texts(pipe[s], Plain) \in Nat
    BY <2>4, TextsFinite DEF TypeOK
  <2> QED
    BY <2>1, <2>2, <2>3, <2>5 DEF AllTexts, Streams
<1> QED
  BY <1>2, <1>5, <1>6, <1>7, <1>8, <1>9 DEF s0, x0

-----------------------------------------------------------------------------
\* The process has not printed the boundary of this stream yet.
Unbounded(s) ==
  \/ stage \in {"given", "running"}
  \/ s = "stderr" /\ stage = "recorded"

\* How far a stream has come, from the process to the call.
Flow(s) ==
  /\ Unbounded(s) => s \notin seen /\ "boundary" \notin Unread(s)
  /\ alive \/ held => s \notin eof /\ "eof" \notin Unread(s)
  /\ s \in seen => Unread(s) \subseteq {"eof"}
  /\ s \in eof => Unread(s) = {}

\* While the call collects, nothing the command printed is lost, and the record is
\* of the directory the shell is in.
Going ==
  /\ shell # 0
  /\ Ordered
  /\ wrote = got + AllTexts
  /\ \A s \in Streams : Flow(s)
  /\ "stdout" \in seen => record = where
  /\ stage = "given" => ran = NoDir /\ (moves \/ replaced \/ where = target)

\* A shell that lives has nothing left to say, and is where the session believes it.
Quiet ==
  /\ shell # 0 /\ stage = "idle" /\ where = known
  /\ queue = <<>> /\ \A s \in Streams : pipe[s] = <<>>

Between ==
  /\ alive => Quiet
  /\ shell = 0 => known = Root
  /\ pc # "idle" => ran = NoDir
  /\ pc = "execute" \/ (pc = "submit" /\ ~replaced) => moves = (target # known)

Truth ==
  /\ pc = "collect" => Going
  /\ pc # "collect" => Between

RInv == Truth /\ ResultTrue

LEMMA RInit == Init => RInv
  BY DEF Init, RInv, Truth, Between, ResultTrue, OutputComplete, RightDirectory

\* A session without a shell.
LEMMA NoShell ==
  ASSUME Terminated, ResetState, pc' = "idle"
  PROVE  Truth' /\ RightDirectory'
  BY DEF Terminated, ResetState, Truth, Between, RightDirectory

\* Nothing printed is left unread once both streams have come to their boundary,
\* or to their end.
LEMMA AllCollected ==
  ASSUME TypeOK, \A s \in Streams : "text" \notin Unread(s), wrote = got + AllTexts
  PROVE  got = wrote
<1>1. ASSUME NEW s \in Streams PROVE Texts(pipe[s], Plain) = 0
  <2>1. \A i \in 1 .. Len(pipe[s]) : pipe[s][i] \notin Plain
    BY DEF Unread, Plain
  <2>2. pipe[s] \in Seq(Items)
    BY DEF TypeOK
  <2> QED
    BY <2>1, <2>2, TextsNone
<1>2. Texts(queue, Streams \X Plain) = 0
  <2>1. ASSUME NEW i \in 1 .. Len(queue) PROVE queue[i] \notin Streams \X Plain
    <3>1. queue[i][1] \in Streams /\ queue[i][2] \in Unread(queue[i][1])
      BY QueueItems DEF Unread
    <3> QED
      BY <3>1 DEF Plain
  <2>2. queue \in Seq(Streams \X Items)
    BY DEF TypeOK
  <2> QED
    BY <2>1, <2>2, TextsNone
<1>3. AllTexts = 0 /\ got \in Nat
  BY <1>1, <1>2 DEF AllTexts, Streams, TypeOK
<1> QED
  BY <1>3

LEMMA NothingUnread ==
  ASSUME TypeOK, \A s \in Streams : Unread(s) = {}
  PROVE  queue = <<>> /\ \A s \in Streams : pipe[s] = <<>>
<1>1. ASSUME NEW s \in Streams PROVE pipe[s] = <<>>
  <2>1. pipe[s] \in Seq(Items)
    BY DEF TypeOK
  <2>2. \A i \in 1 .. Len(pipe[s]) : FALSE
    BY DEF Unread
  <2>3. Len(pipe[s]) = 0
    <3>1. Len(pipe[s]) \in Nat
      BY <2>1
    <3>2. \A n \in Nat : (\A i \in 1 .. n : FALSE) => n = 0
      <4> SUFFICES ASSUME NEW n \in Nat, n # 0 PROVE 1 \in 1 .. n
        OBVIOUS
      <4> QED
        OBVIOUS
    <3> QED
      BY <2>2, <3>1, <3>2
  <2> QED
    BY <2>1, <2>3
<1>2. queue = <<>>
  <2>1. queue \in Seq(Streams \X Items)
    BY DEF TypeOK
  <2>2. ASSUME queue # <<>> PROVE FALSE
    <3>1. 1 \in 1 .. Len(queue) /\ queue[1][1] \in Streams
      BY <2>1, <2>2
    <3>2. queue[1][2] \in Unread(queue[1][1])
      BY <3>1 DEF Unread
    <3> QED
      BY <3>1, <3>2
  <2> QED
    BY <2>2
<1> QED
  BY <1>1, <1>2

\* A stream and what is unread of it stay: so does how far it has come.
LEMMA FlowKept ==
  ASSUME NEW s \in Streams, Flow(s), Unread(s)' = Unread(s),
         seen' = seen, eof' = eof, stage' = stage, alive' = alive, held' = held
  PROVE  Flow(s)'
  BY DEF Flow, Unbounded

\* What the call does.
LEMMA RCall ==
  ASSUME TypeOK, RInv, NEW d \in Dirs \cup {NoDir}, Call(d)
  PROVE  RInv'
  BY DEF Call, RInv, Truth, Between, Quiet, ResultTrue, OutputComplete, RightDirectory,
         session, process

LEMMA RInvalidate == TypeOK /\ RInv /\ Invalidate => RInv'
<1> SUFFICES ASSUME TypeOK, RInv, Invalidate PROVE RInv'
  OBVIOUS
<1>1. Terminated /\ ResetState /\ Returns("not_submitted", shell, FALSE, 0)
  BY DEF Invalidate
<1>2. Truth' /\ RightDirectory'
  BY <1>1, NoShell DEF Returns
<1>3. OutputComplete'
  BY <1>1 DEF Returns, OutputComplete
<1> QED
  BY <1>2, <1>3 DEF RInv, ResultTrue

LEMMA REnsureStarted == TypeOK /\ RInv /\ EnsureStarted => RInv'
<1> SUFFICES ASSUME TypeOK, RInv, EnsureStarted PROVE RInv'
  OBVIOUS
<1>0. pc = "execute" /\ pc' = "submit" /\ Between
  BY DEF EnsureStarted, RInv, Truth
<1>1. OutputComplete' /\ RightDirectory'
  BY DEF EnsureStarted, RInv, ResultTrue, OutputComplete, RightDirectory
<1>2. CASE shell # 0 /\ alive
  <2>1. UNCHANGED <<session, process, ran, moves, target>>
    BY <1>2 DEF EnsureStarted
  <2>2. Between'
    BY <1>0, <2>1 DEF Between, Quiet, session, process
  <2> QED
    BY <1>0, <1>1, <2>2 DEF RInv, Truth, ResultTrue
<1>3. CASE ~(shell # 0 /\ alive)
  <2>1. /\ Started /\ known' = Root /\ UNCHANGED <<ran, moves, target>>
        /\ replaced' = (shell # 0 /\ ~alive)
    BY <1>3 DEF EnsureStarted
  <2>2. shell' # 0
    BY <2>1 DEF Started, TypeOK
  <2>3. Quiet'
    BY <2>1, <2>2 DEF Started, Quiet
  <2>4. ~replaced' => known = Root
    BY <1>0, <1>3, <2>1 DEF Between
  <2>5. Between'
    BY <1>0, <2>1, <2>2, <2>3, <2>4 DEF Between
  <2> QED
    BY <1>0, <1>1, <2>5 DEF RInv, Truth, ResultTrue
<1> QED
  BY <1>2, <1>3

LEMMA RSubmit == TypeOK /\ RInv /\ Submit => RInv'
<1> SUFFICES ASSUME TypeOK, RInv, Submit PROVE RInv'
  OBVIOUS
<1>1. Between /\ Quiet /\ ran = NoDir
  BY DEF Submit, RInv, Truth, Between
<1>2. /\ pc' = "collect" /\ stage' = "given" /\ seen' = {} /\ eof' = {}
      /\ got' = 0 /\ wrote' = 0 /\ queue' = <<>> /\ \A s \in Streams : pipe'[s] = <<>>
      /\ UNCHANGED <<shell, where, pipe, queue, target, moves, ran, replaced, last>>
  BY <1>1 DEF Submit, Quiet
<1>3. \A s \in Streams : Unread(s)' = {}
  BY <1>2 DEF Unread
<1>4. AllTexts' = 0
  <2>1. \A S : Texts(<<>>, S) = 0
    <3> TAKE S
    <3>1. <<>> \in Seq(Items) /\ \A i \in 1 .. Len(<<>>) : FALSE
      OBVIOUS
    <3> QED
      BY <3>1, TextsNone
  <2>2. AllTexts' = Texts(queue', Streams \X Plain) + Texts(pipe'["stdout"], Plain)
                      + Texts(pipe'["stderr"], Plain)
    BY DEF AllTexts, Texts, At
  <2> QED
    BY <1>2, <2>1, <2>2 DEF Streams
<1>5. Ordered'
  <2>1. \A i \in 1 .. Len(<<>>) : FALSE
    OBVIOUS
  <2> QED
    BY <1>2, <2>1 DEF Ordered
<1>6. \A s \in Streams : Flow(s)'
  BY <1>2, <1>3 DEF Flow
<1>7. moves \/ replaced \/ where = target
  BY <1>1 DEF Submit, Between, Quiet
<1>8. Going'
  BY <1>1, <1>2, <1>4, <1>5, <1>6, <1>7 DEF Going, Quiet
<1>9. OutputComplete' /\ RightDirectory'
  BY <1>1, <1>2 DEF RInv, ResultTrue, OutputComplete, RightDirectory
<1> QED
  BY <1>2, <1>8, <1>9 DEF RInv, Truth, ResultTrue

\* The process prints on a stream that has not come to its boundary.
LEMMA RPrints == ASSUME TypeOK, RInv, NEW s \in Streams, Prints(s) PROVE RInv'
<1>1. pc = "collect" /\ Going /\ stage = "running"
  BY DEF Prints, RInv, Truth, Between, Quiet
<1>2. /\ pipe' = [t \in Streams |-> IF t \in {s} THEN Append(pipe[t], "text") ELSE pipe[t]]
      /\ wrote' = wrote + 1
      /\ UNCHANGED <<session, alive, where, stage, held, call, ran, replaced, believed, last>>
  BY DEF Prints, TypeOK
<1>3. queue' = queue /\ "text" \in Items /\ {s} \in SUBSET Streams
  BY <1>2 DEF session, Items
<1>4. \A t \in {s} : \A y \in Unread(t) : Follows(y, "text")
  BY <1>1, ItemsUnread DEF Going, Flow, Unbounded, Items, Follows, Prints
<1>5. /\ Ordered' /\ AllTexts' = AllTexts + 1
      /\ \A t \in Streams : Unread(t)' = IF t \in {s} THEN Unread(t) \cup {"text"} ELSE Unread(t)
  <2>1. Ordered
    BY <1>1 DEF Going
  <2> QED
    BY <2>1, <1>2, <1>3, <1>4, Grows
<1>6. ASSUME NEW t \in Streams PROVE Flow(t)'
  <2>1. Flow(t) /\ Flow(s) /\ s \notin seen /\ s \notin eof
    BY <1>1 DEF Going, Flow, Unbounded, Prints
  <2> QED
    BY <2>1, <1>2, <1>5 DEF Flow, Unbounded, call
<1>7. wrote' = got' + AllTexts'
  <2>1. got \in Nat /\ AllTexts \in Nat /\ got' = got /\ wrote = got + AllTexts
    BY <1>1, <1>2, TextsTyped DEF Going, call, TypeOK
  <2> QED
    BY <2>1, <1>2, <1>5
<1>8. Going'
  BY <1>1, <1>2, <1>5, <1>6, <1>7 DEF Going, session, call
<1>9. OutputComplete' /\ RightDirectory'
  BY <1>2 DEF RInv, ResultTrue, OutputComplete, RightDirectory, call
<1> QED
  BY <1>1, <1>2, <1>8, <1>9 DEF RInv, Truth, ResultTrue, call

\* It prints the boundary of a stream.
LEMMA RBounds ==
  ASSUME TypeOK, RInv, NEW s \in Streams, NEW before, NEW after,
         \/ s = "stdout" /\ before = "running" /\ after = "recorded"
         \/ s = "stderr" /\ before = "recorded" /\ after = "idle",
         Bounds(s, before, after)
  PROVE  RInv'
<1>1. pc = "collect" /\ Going /\ stage = before /\ Unbounded(s)
  BY DEF Bounds, RInv, Truth, Between, Quiet, Unbounded
<1>2. /\ pipe' = [t \in Streams |-> IF t \in {s} THEN Append(pipe[t], "boundary") ELSE pipe[t]]
      /\ stage' = after
      /\ UNCHANGED <<session, alive, where, held, call, history>>
  BY DEF Bounds, TypeOK
<1>3. queue' = queue /\ "boundary" \in Items /\ {s} \in SUBSET Streams /\ "boundary" # "text"
  BY <1>2 DEF session, Items
<1>4. alive /\ Flow(s)
  BY <1>1 DEF Bounds, Going
<1>5. \A t \in {s} : \A y \in Unread(t) : Follows(y, "boundary")
  BY <1>1, <1>4, ItemsUnread DEF Flow, Items, Follows
<1>6. /\ Ordered' /\ AllTexts' = AllTexts
      /\ \A t \in Streams :
           Unread(t)' = IF t \in {s} THEN Unread(t) \cup {"boundary"} ELSE Unread(t)
  <2>1. Ordered
    BY <1>1 DEF Going
  <2> QED
    <3>1. Ordered'
      BY <2>1, <1>2, <1>3, <1>5, Grows
    <3>2. AllTexts' = AllTexts
      <4>1. /\ TypeOK /\ {s} \in SUBSET Streams /\ "boundary" \in Items /\ queue' = queue
            /\ pipe' = [t \in Streams |-> IF t \in {s} THEN Append(pipe[t], "boundary") ELSE pipe[t]]
            /\ Ordered /\ \A t \in {s} : \A y \in Unread(t) : Follows(y, "boundary")
        BY <2>1, <1>2, <1>3, <1>5
      <4>2. "boundary" # "text" => AllTexts' = AllTexts
        BY ONLY <4>1, Grows
      <4> QED
        BY <4>2
    <3>3. \A t \in Streams :
           Unread(t)' = IF t \in {s} THEN Unread(t) \cup {"boundary"} ELSE Unread(t)
      BY <2>1, <1>2, <1>3, <1>5, Grows
    <3> QED
      BY <3>1, <3>2, <3>3
<1>7. ASSUME NEW t \in Streams PROVE Flow(t)'
  <2>1. Flow(t) /\ s \notin seen /\ s \notin eof
    BY <1>1, <1>4 DEF Going, Flow
  <2>2. UNCHANGED <<seen, eof, alive, held>>
    BY <1>2 DEF call
  <2>3. Unbounded(t)' => Unbounded(t) /\ t # s
    BY <1>1, <1>2 DEF Unbounded, Streams
  <2> QED
    BY <2>1, <2>2, <2>3, <1>4, <1>6 DEF Flow
<1>8. Going'
  BY <1>1, <1>2, <1>6, <1>7 DEF Going, session, call, history
<1>9. OutputComplete' /\ RightDirectory'
  BY <1>2 DEF RInv, ResultTrue, OutputComplete, RightDirectory, call, history
<1> QED
  BY <1>1, <1>2, <1>8, <1>9 DEF RInv, Truth, ResultTrue, call

\* The ends of the pipes come last, however the command ended.
LEMMA REnds == ASSUME TypeOK, RInv, Dies \/ ChildEnds PROVE RInv'
<1>1. /\ UNCHANGED <<session, where, stage, call, history>>
      /\ alive' => alive
      /\ held' => held
  BY DEF Dies, ChildEnds
<1>2. OutputComplete' /\ RightDirectory'
  BY <1>1 DEF RInv, ResultTrue, OutputComplete, RightDirectory, call, history
<1>3. CASE pc # "collect"
  <2>1. Between /\ (alive' => pipe' = pipe)
    BY <1>3 DEF RInv, Truth, Dies, ChildEnds
  <2>2. Between'
    BY <2>1, <1>1 DEF Between, Quiet, session, call, history
  <2> QED
    BY <1>1, <1>2, <1>3, <2>2 DEF RInv, Truth, ResultTrue, call
<1>4. CASE pc = "collect"
  <2>1. Going
    BY <1>4 DEF RInv, Truth
  <2>2. CASE pipe' = pipe
    <3>1. \A s \in Streams : Unread(s)' = Unread(s)
      BY <1>1, <2>2 DEF Unread, session
    <3>2. \A s \in Streams : Flow(s)'
      BY <2>1, <3>1, <1>1 DEF Going, Flow, Unbounded, call
    <3>3. Ordered' /\ AllTexts' = AllTexts
      BY <2>1, <2>2, <1>1 DEF Going, Ordered, AllTexts, Texts, At, session
    <3> QED
      BY <1>1, <1>2, <1>4, <2>1, <3>2, <3>3 DEF Going, RInv, Truth, ResultTrue, session, call,
                                              history
  <2>3. CASE pipe' # pipe
    <3>1. pipe' = Closed(pipe) /\ (alive \/ held) /\ ~alive' /\ ~held'
      BY <2>3 DEF Dies, ChildEnds
    <3>2. pipe' = [t \in Streams |-> IF t \in Streams THEN Append(pipe[t], "eof") ELSE pipe[t]]
      BY <3>1 DEF Closed
    <3>3. queue' = queue /\ "eof" \in Items /\ "eof" # "text" /\ Streams \in SUBSET Streams
      BY <1>1 DEF session, Items
    <3>4. \A t \in Streams : \A y \in Unread(t) : Follows(y, "eof")
      BY <2>1, <3>1, ItemsUnread DEF Going, Flow, Items, Follows
    <3>5. /\ Ordered' /\ AllTexts' = AllTexts
          /\ \A t \in Streams :
               Unread(t)' = IF t \in Streams THEN Unread(t) \cup {"eof"} ELSE Unread(t)
      <4>1. Ordered
        BY <2>1 DEF Going
      <4> QED
        BY <4>1, <3>2, <3>3, <3>4, Grows
    <3>6. ASSUME NEW t \in Streams PROVE Flow(t)'
      <4>1. Flow(t) /\ t \notin eof
        BY <2>1, <3>1 DEF Going, Flow
      <4>2. UNCHANGED <<seen, eof, stage>> /\ Unread(t)' = Unread(t) \cup {"eof"}
        BY <1>1, <3>5 DEF call
      <4> QED
        BY <3>1, <4>1, <4>2 DEF Flow, Unbounded
    <3> QED
      BY <1>1, <1>2, <1>4, <2>1, <3>5, <3>6 DEF Going, RInv, Truth, ResultTrue, session, call,
                                              history
  <2> QED
    BY <2>2, <2>3
<1> QED
  BY <1>3, <1>4

LEMMA RReads == ASSUME TypeOK, RInv, NEW s \in Streams, Reads(s) PROVE RInv'
<1>1. UNCHANGED <<shell, known, ever, shells, alive, where, stage, held, call, history>>
  BY DEF Reads
<1>2. OutputComplete' /\ RightDirectory'
  BY <1>1 DEF RInv, ResultTrue, OutputComplete, RightDirectory, call, history
<1>3. CASE pc # "collect"
  <2>1. Between /\ ~alive
    BY <1>3 DEF RInv, Truth, Reads, Between, Quiet
  <2>2. Between'
    BY <2>1, <1>1 DEF Between, call, history
  <2> QED
    BY <1>1, <1>2, <1>3, <2>2 DEF RInv, Truth, ResultTrue, call
<1>4. CASE pc = "collect"
  <2>1. Going /\ Ordered
    BY <1>4 DEF RInv, Truth, Going
  <2>2. Ordered' /\ AllTexts' = AllTexts /\ \A t \in Streams : Unread(t)' = Unread(t)
    BY <2>1, Moves
  <2>3. \A t \in Streams : Flow(t)'
    BY <2>1, <2>2, <1>1, FlowKept DEF Going, call
  <2>4. Going'
    BY <2>1, <2>2, <2>3, <1>1 DEF Going, call, history
  <2> QED
    BY <1>1, <1>2, <1>4, <2>4 DEF RInv, Truth, ResultTrue, call
<1> QED
  BY <1>3, <1>4

\* What the process does that nobody reads.
LEMMA ROther ==
  ASSUME TypeOK, RInv, Begin \/ LeavesChild \/ \E d \in Dirs : ChangesDirectory(d)
  PROVE  RInv'
<1>1. pc = "collect" /\ Going /\ alive /\ stage \in {"given", "running"}
  BY DEF Begin, LeavesChild, ChangesDirectory, RInv, Truth, Between, Quiet
<1>2. /\ stage' \in {stage, "running"} /\ stage' # "given"
      /\ UNCHANGED <<session, alive, pipe, call, wrote, replaced, believed, last>>
  BY DEF Begin, LeavesChild, ChangesDirectory, history
<1>3. \A s \in Streams : Unread(s)' = Unread(s)
  BY <1>2 DEF Unread, session
<1>4. \A s \in Streams : Flow(s)'
  BY <1>1, <1>2, <1>3 DEF Going, Flow, Unbounded, call
<1>5. Ordered' /\ AllTexts' = AllTexts
  BY <1>1, <1>2 DEF Going, Ordered, AllTexts, Texts, At, session
<1>6. "stdout" \notin seen
  BY <1>1 DEF Going, Flow, Unbounded, Streams
<1>7. Going'
  BY <1>1, <1>2, <1>4, <1>5, <1>6 DEF Going, session, call
<1>8. ran' # NoDir /\ ~replaced' => ran' = target'
  <2>1. CASE Begin
    BY <2>1, <1>1 DEF Begin, Going, call
  <2>2. CASE LeavesChild \/ \E d \in Dirs : ChangesDirectory(d)
    BY <2>2, <1>1 DEF LeavesChild, ChangesDirectory, RInv, ResultTrue, RightDirectory, call, history
  <2> QED
    BY <2>1, <2>2
<1>9. OutputComplete' /\ RightDirectory'
  BY <1>2, <1>8 DEF RInv, ResultTrue, OutputComplete, RightDirectory
<1> QED
  BY <1>1, <1>2, <1>7, <1>9 DEF RInv, Truth, ResultTrue, call

LEMMA RConsume == TypeOK /\ RInv /\ Consume => RInv'
<1> SUFFICES ASSUME TypeOK, RInv, Consume PROVE RInv'
  OBVIOUS
<1> DEFINE s == Head(queue)[1]
           item == Head(queue)[2]
<1>1. pc = "collect" /\ Going /\ Ordered
  BY DEF Consume, Collecting, RInv, Truth, Going
<1>2. /\ queue # <<>> /\ queue' = Tail(queue)
      /\ eof' = IF item = "eof" THEN eof \cup {s} ELSE eof
      /\ seen' = IF item = "boundary" THEN seen \cup {s} ELSE seen
      /\ record' = IF item = "boundary" /\ s = "stdout" THEN where ELSE record
      /\ got' = IF item = "text" /\ s \notin seen THEN got + 1 ELSE got
  BY DEF Consume
<1>3. UNCHANGED <<shell, known, ever, shells, process, pc, calls, target, moves, fresh,
                  cancelled, history>> /\ pipe' = pipe
  BY DEF Consume, process
<1>4. /\ Ordered'
      /\ s \in Streams /\ item \in Unread(s)
      /\ \A t \in Streams : Unread(t)' \subseteq Unread(t)
      /\ \A t \in Streams : t = s => \A y \in Unread(t)' : Follows(item, y)
      /\ AllTexts = AllTexts' + (IF item = "text" THEN 1 ELSE 0) /\ AllTexts' \in Nat
  BY <1>1, <1>2, <1>3, Takes
<1>5. item \in Items
  BY <1>4, ItemsUnread
<1> HIDE DEF s, item
<1>6. ASSUME NEW t \in Streams PROVE Flow(t)'
  <2>1. Flow(t) /\ UNCHANGED <<stage, alive, held>> /\ Unread(t)' \subseteq Unread(t)
    BY <1>1, <1>3, <1>4 DEF Going, process
  <2>2. CASE t # s
    <3>1. (t \in seen' <=> t \in seen) /\ (t \in eof' <=> t \in eof)
      BY <1>2, <2>2
    <3> QED
      BY <2>1, <3>1 DEF Flow, Unbounded
  <2>3. CASE t = s
    <3>1. item \in Unread(t) /\ \A y \in Unread(t)' : Follows(item, y)
      BY <1>4, <2>3
    <3>2. Unread(t) \subseteq Items
      BY ItemsUnread
    <3>3. CASE item = "text"
      BY <2>1, <3>3, <1>2 DEF Flow, Unbounded
    <3>4. CASE item = "boundary"
      BY <2>1, <2>3, <3>1, <3>2, <3>4, <1>2 DEF Flow, Unbounded, Follows
    <3>5. CASE item = "eof"
      BY <2>1, <2>3, <3>1, <3>2, <3>5, <1>2 DEF Flow, Unbounded, Follows
    <3> QED
      BY <1>5, <3>3, <3>4, <3>5 DEF Items
  <2> QED
    BY <2>2, <2>3
<1>7. item = "text" => s \notin seen
  BY <1>1, <1>4 DEF Going, Flow
<1>8. wrote' = got' + AllTexts'
  <2>1. got \in Nat /\ AllTexts \in Nat /\ AllTexts' \in Nat
    BY <1>4, TextsTyped DEF TypeOK
  <2>2. wrote' = wrote /\ wrote = got + AllTexts
    BY <1>1, <1>3 DEF Going, history
  <2> QED
    BY <2>1, <2>2, <1>2, <1>4, <1>7
<1>9. "stdout" \in seen' => record' = where'
  BY <1>1, <1>2, <1>3 DEF Going, process
<1>10. Going'
  BY <1>1, <1>3, <1>4, <1>6, <1>8, <1>9 DEF Going, process, history
<1>11. OutputComplete' /\ RightDirectory'
  BY <1>3 DEF RInv, ResultTrue, OutputComplete, RightDirectory, history
<1> QED
  BY <1>1, <1>3, <1>10, <1>11 DEF RInv, Truth, ResultTrue

\* A result tells of everything the command printed, or of a Stop or the time limit.
LEMMA RCollected ==
  ASSUME TypeOK, Going, seen = Streams \/ eof = Streams
  PROVE  got = wrote
<1>1. \A s \in Streams : "text" \notin Unread(s)
  BY DEF Going, Flow
<1> QED
  BY <1>1, AllCollected DEF Going

LEMMA RFailed ==
  ASSUME TypeOK, RInv, pc = "collect", NEW failure, Failed(failure),
         failure \in {"cancelled", "timeout", "malformed_record"} \/ (failure = "shell_exited" /\ eof = Streams)
  PROVE  RInv'
<1>1. Terminated /\ ResetState /\ Returns(failure, shell, fresh, got) /\ Going
  BY DEF Failed, RInv, Truth
<1>2. Truth' /\ RightDirectory'
  BY <1>1, NoShell DEF Returns
<1>3. OutputComplete'
  <2>1. failure = "shell_exited" => got = wrote
    BY <1>1, RCollected
  <2> QED
    BY <1>1, <2>1 DEF Returns, OutputComplete
<1> QED
  BY <1>2, <1>3 DEF RInv, ResultTrue

LEMMA RCompletes == TypeOK /\ RInv /\ Completes => RInv'
<1> SUFFICES ASSUME TypeOK, RInv, Completes PROVE RInv'
  OBVIOUS
<1>1. pc = "collect" /\ seen = Streams /\ Going /\ known' = record /\ pc' = "idle"
  BY DEF Completes, Returns, RInv, Truth
<1>2. got = wrote
  BY <1>1, RCollected
<1>3. OutputComplete' /\ RightDirectory'
  BY <1>1, <1>2 DEF Completes, Returns, OutputComplete, RightDirectory
<1>4. alive => Quiet'
  <2> SUFFICES ASSUME alive PROVE Quiet'
    OBVIOUS
  <2>1. \A s \in Streams : Unread(s) = {}
    BY <1>1 DEF Going, Flow
  <2>2. queue = <<>> /\ \A s \in Streams : pipe[s] = <<>>
    BY <2>1, NothingUnread
  <2>3. stage = "idle"
    BY <1>1 DEF Going, Flow, Unbounded, Streams, TypeOK
  <2>4. record = where
    BY <1>1 DEF Going, Streams
  <2> QED
    BY <1>1, <2>2, <2>3, <2>4 DEF Completes, Quiet, Going, process
<1>5. Between'
  BY <1>1, <1>4 DEF Completes, Between, Going, process
<1> QED
  BY <1>1, <1>3, <1>5 DEF RInv, Truth, ResultTrue

\* A step that changes nothing but the person's wish to stop.
LEMMA RPerson ==
  ASSUME RInv, UNCHANGED <<session, process, pc, target, moves, seen, eof, record, got, history>>
  PROVE  RInv'
<1>1. \A s \in Streams : Unread(s)' = Unread(s)
  BY DEF Unread, session, process
<1>2. Ordered' = Ordered /\ AllTexts' = AllTexts
  BY DEF Ordered, AllTexts, Texts, At, session, process
<1>3. Going => \A s \in Streams : Flow(s)'
  BY <1>1, FlowKept DEF Going, process
<1>4. Going => Going'
  BY <1>2, <1>3 DEF Going, session, process, history
<1>5. Between => Between'
  BY DEF Between, Quiet, session, process, history
<1>6. OutputComplete' /\ RightDirectory'
  BY DEF RInv, ResultTrue, OutputComplete, RightDirectory, history
<1> QED
  BY <1>4, <1>5, <1>6 DEF RInv, Truth, ResultTrue

LEMMA RReset == ASSUME TypeOK, RInv, Reset PROVE RInv'
<1>1. Terminated /\ ResetState /\ pc' = "idle" /\ last' = last
  BY DEF Reset, call
<1> QED
  BY <1>1, NoShell DEF RInv, ResultTrue, OutputComplete

LEMMA RStep == IInv /\ RInv /\ [Next]_vars => RInv'
<1> SUFFICES ASSUME IInv, TypeOK, RInv, [Next]_vars PROVE RInv'
  BY DEF IInv
<1>1. CASE \E d \in Dirs \cup {NoDir} : Call(d)
  BY <1>1, RCall
<1>2. CASE CancelledBefore \/ StartFails \/ SubmitFails
  BY <1>2, RInvalidate DEF CancelledBefore, StartFails, SubmitFails
<1>3. CASE EnsureStarted \/ Submit \/ Consume \/ Completes
  BY <1>3, REnsureStarted, RSubmit, RConsume, RCompletes
<1>4. CASE CancelledDuring \/ ShellExited \/ TimesOut \/ Malformed
  BY <1>4, RFailed DEF CancelledDuring, ShellExited, TimesOut, Malformed, Collecting
<1>5. CASE Begin \/ LeavesChild \/ \E d \in Dirs : ChangesDirectory(d)
  BY <1>5, ROther
<1>6. CASE WritesRecord \/ WritesMarker
  BY <1>6, RBounds DEF WritesRecord, WritesMarker, Streams
<1>7. CASE Dies \/ ChildEnds
  BY <1>7, REnds
<1>8. CASE \E s \in Streams : Prints(s) \/ Reads(s)
  BY <1>8, RPrints, RReads
<1>9. CASE Stop \/ NewTurn
  BY <1>9, RPerson DEF Stop, NewTurn
<1>10. CASE Reset
  BY <1>10, RReset
<1>11. CASE UNCHANGED vars
  BY <1>11, RPerson DEF vars, call
<1> QED
  BY <1>1, <1>2, <1>3, <1>4, <1>5, <1>6, <1>7, <1>8, <1>9, <1>10, <1>11 DEF Next, Tool

THEOREM ResultInductive == Spec => []RInv
  BY RInit, RStep, Inductive, PTL DEF Spec

\* What a result tells is so, whatever a command prints and wherever it goes: unless
\* a Stop or the time limit cut it short it holds everything the command printed, and
\* the command began in the directory it was announced for, unless the shell had died.
THEOREM ResultIsTrue == Spec => []ResultTrue
<1>1. RInv => ResultTrue
  BY DEF RInv
<1> QED
  BY <1>1, ResultInductive, PTL
=============================================================================
