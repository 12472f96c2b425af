---------------------------- MODULE TaskTurnProofs ----------------------------
(***************************************************************************)
(* Proofs about TaskTurn, for any children, any blocks of calls and any    *)
(* number of corrections and rounds: TypeOK, that steering is heeded, that *)
(* Stop is final, that the calls of every agent are closed and, as long as *)
(* no observer raises, that their results are faithful.                    *)
(*                                                                         *)
(* A correction is heard because a loop's history is always the first      *)
(* corrections, up to its cursor, and what it heard is that history        *)
(* (Cursor); an answer is taken with the corrections it had (Replied).     *)
(* A call is answered because only a loop in a round has one in progress   *)
(* (BusyInv), because a call is dispatched after all those before it and   *)
(* alone unless it is a read (InOrder), and because whatever is resolved   *)
(* up to the flushed ones, and a shell call that appended its own result,  *)
(* is behind the block (AnswerInv).  The order of the results needs that   *)
(* such a shell call is the next to be flushed (LogBounded, SerialNext).   *)
(*                                                                         *)
(* The first section is about Ordered, the numbers of a set in increasing  *)
(* order: the provers have no induction, so it argues by the least number  *)
(* for which a fact fails.                                                 *)
(***************************************************************************)
EXTENDS TaskTurn, FiniteSetTheorems, WellFoundedInduction, SequenceTheorems, TLAPS

(* Sets of numbers, and their members in increasing order.                 *)

Increasing(q, n) == \A i, j \in 1..n : i < j => q[i] < q[j]
Onto(q, n, S) == \A x \in S : \E i \in 1..n : q[i] = x

(* A nonempty set of natural numbers has a least one. *)
LEMMA Least ==
  ASSUME NEW S \in SUBSET Nat, S # {}
  PROVE  \E m \in S : \A n \in S : m <= n
<1> DEFINE R == OpToRel(<, Nat)
<1>1. IsWellFoundedOn(R, Nat)
  BY NatLessThanWellFounded
<1>2. \A x, y \in Nat : <<x, y>> \in R <=> x < y
  BY DEF OpToRel
<1> HIDE DEF R
<1>3. PICK m \in S : \A y \in S : ~(<<y, m>> \in R)
  BY <1>1, WFMin
<1>4. ASSUME NEW y \in S PROVE m <= y
  <2>1. m \in Nat /\ y \in Nat /\ ~(<<y, m>> \in R)
    BY <1>3
  <2>2. ~(y < m)
    BY <1>2, <2>1
  <2> QED BY <2>1, <2>2
<1> QED BY <1>4

(* An increasing enumeration of an interval goes one by one. *)
LEMMA OneByOne ==
  ASSUME NEW a \in Nat, NEW b \in Nat, a <= b, NEW m \in Nat, NEW q,
         \A i \in 1..m : q[i] \in a + 1 .. b,
         Increasing(q, m), Onto(q, m, a + 1 .. b)
  PROVE  m = b - a /\ \A i \in 1..m : q[i] = a + i
<1> DEFINE Off == {i \in 1..m : q[i] # a + i}
<1>1. Off = {}
  <2> SUFFICES ASSUME Off # {} PROVE FALSE
    OBVIOUS
  <2>1. PICK k \in Off : \A i \in Off : k <= i
    <3>1. Off \in SUBSET Nat
      OBVIOUS
    <3> HIDE DEF Off
    <3> QED BY <3>1, Least
  <2>2. k \in 1..m /\ q[k] # a + k /\ \A i \in 1..k - 1 : q[i] = a + i
    BY <2>1
  <2>3. q[k] > a + k
    <3>1. CASE k = 1
      BY <2>2, <3>1
    <3>2. CASE k > 1
      <4>1. k - 1 \in 1..m /\ q[k - 1] = a + (k - 1) /\ k - 1 < k
        BY <2>2, <3>2
      <4>2. q[k - 1] < q[k]
        BY <2>2, <4>1 DEF Increasing
      <4>3. q[k] \in Nat /\ k \in Nat /\ q[k] # a + k
        BY <2>2
      <4>4. a + (k - 1) < q[k]
        BY <4>1, <4>2
      <4>5. \A v \in Nat : a + (k - 1) < v /\ v # a + k => v > a + k
        BY <4>3
      <4> QED BY <4>3, <4>4, <4>5
    <3> QED BY <2>2, <3>1, <3>2
  <2>4. a + k \in a + 1 .. b
    BY <2>2, <2>3
  <2>5. PICK i \in 1..m : q[i] = a + k
    BY <2>4 DEF Onto
  <2>6. ~(i < k) /\ i # k
    BY <2>2, <2>5
  <2>7. q[k] < q[i]
    BY <2>2, <2>6 DEF Increasing
  <2> QED BY <2>2, <2>3, <2>5, <2>7
<1>2. \A i \in 1..m : q[i] = a + i
  BY <1>1
<1>3. m <= b - a
  <2>1. CASE m = 0
    BY <2>1
  <2>2. CASE m > 0
    BY <1>2, <2>2
  <2> QED BY <2>1, <2>2
<1>4. m >= b - a
  <2>1. CASE a = b
    BY <2>1
  <2>2. CASE a < b
    <3>1. PICK i \in 1..m : q[i] = b
      BY <2>2 DEF Onto
    <3> QED BY <1>2, <3>1
  <2> QED BY <2>1, <2>2
<1> QED BY <1>2, <1>3, <1>4

(* A set of numbers up to n is finite. *)
LEMMA Counted ==
  ASSUME NEW n \in Nat, NEW S \in SUBSET (1..n)
  PROVE  IsFiniteSet(S) /\ Cardinality(S) \in Nat
<1>1. IsFiniteSet(1..n)
  BY FS_Interval
<1>2. IsFiniteSet(S)
  BY <1>1, FS_Subset
<1> QED BY <1>2, FS_CardinalityType

Enumerates(q, S) ==
  q \in [1..Cardinality(S) -> S] /\ Increasing(q, Cardinality(S))

(* Every finite set of numbers has such an enumeration. *)
LEMMA CanEnumerate ==
  ASSUME NEW n \in Nat, NEW S \in SUBSET (1..n)
  PROVE  \E q : Enumerates(q, S)
<1> DEFINE Bad == {k \in Nat : \E T \in SUBSET (1..k) : \A q : ~Enumerates(q, T)}
<1> SUFFICES ASSUME Bad # {} PROVE FALSE
  OBVIOUS
<1>1. PICK k \in Bad : \A i \in Bad : k <= i
  BY Least
<1>2. PICK T \in SUBSET (1..k) : \A q : ~Enumerates(q, T)
  BY <1>1
<1>4. k \in Nat
  BY <1>1
<1>3. IsFiniteSet(T) /\ Cardinality(T) \in Nat
  BY <1>4, Counted
<1>5. k \in T
  <2> SUFFICES ASSUME k \notin T PROVE FALSE
    OBVIOUS
  <2>1. CASE k = 0
    <3>0. T = {}
      BY <2>1
    <3>1. T = {} /\ Cardinality(T) = 0
      BY <3>0, FS_EmptySet
    <3>2. 1..0 = {} /\ <<>> \in [{} -> T]
      BY <3>1
    <3>3. Enumerates(<<>>, T)
      BY <3>1, <3>2 DEF Enumerates, Increasing
    <3> QED BY <1>2, <3>3
  <2>2. CASE k > 0
    <3>1. T \in SUBSET (1..k - 1) /\ k - 1 \in Nat
      BY <1>4, <2>2
    <3>2. k - 1 \in Bad
      BY <1>2, <3>1
    <3> QED BY <1>1, <1>4, <3>2
  <2> QED BY <1>4, <2>1, <2>2
<1> DEFINE U == T \ {k}
           c == Cardinality(T)
<1>6. Cardinality(U) = c - 1 /\ U \in SUBSET (1..k - 1) /\ k - 1 \in Nat
  <2>1. Cardinality(U) = c - 1
    BY <1>3, <1>5, FS_RemoveElement
  <2>2. U \in SUBSET (1..k - 1) /\ k - 1 \in Nat
    BY <1>4, <1>5
  <2> QED BY <2>1, <2>2
<1>7. k - 1 \notin Bad
  BY <1>1, <1>4
<1>8. PICK q : Enumerates(q, U)
  BY <1>6, <1>7
<1> DEFINE r == [i \in 1..c |-> IF i = c THEN k ELSE q[i]]
<1>9. q \in [1..c - 1 -> U] /\ \A i, j \in 1..c - 1 : i < j => q[i] < q[j]
  BY <1>6, <1>8 DEF Enumerates, Increasing
<1>10. r \in [1..c -> T]
  BY <1>3, <1>5, <1>9
<1>11. \A i, j \in 1..c : i < j => r[i] < r[j]
  <2> TAKE i, j \in 1..c
  <2> HAVE i < j
  <2>1. i \in 1..c - 1 /\ r[i] = q[i] /\ q[i] \in U
    BY <1>3, <1>9
  <2>2. CASE j = c
    <3>1. r[i] \in 1..k - 1
      BY <1>6, <2>1
    <3> QED BY <1>4, <2>2, <3>1
  <2>3. CASE j # c
    BY <1>3, <1>9, <2>1, <2>3
  <2> QED BY <2>2, <2>3
<1>12. Enumerates(r, T)
  BY <1>10, <1>11 DEF Enumerates, Increasing
<1> QED BY <1>2, <1>12

(* What Ordered is. *)
LEMMA OrderedIs ==
  ASSUME NEW n \in Nat, NEW S \in SUBSET (1..n)
  PROVE  /\ Cardinality(S) \in Nat
         /\ Ordered(S) \in Seq(S)
         /\ Len(Ordered(S)) = Cardinality(S)
         /\ \A i \in 1..Cardinality(S) : Ordered(S)[i] \in S
         /\ Increasing(Ordered(S), Cardinality(S))
         /\ Onto(Ordered(S), Cardinality(S), S)
<1> DEFINE c == Cardinality(S)
           o == Ordered(S)
<1>1. IsFiniteSet(S) /\ c \in Nat
  BY Counted
<1>2. \E q \in [1..c -> S] : \A i, j \in 1..c : i < j => q[i] < q[j]
  BY CanEnumerate DEF Enumerates, Increasing
<1>3. o \in [1..c -> S] /\ \A i, j \in 1..c : i < j => o[i] < o[j]
  BY <1>2 DEF Ordered
<1> HIDE DEF o
<1>4. o \in Injection(1..c, S)
  <2>1. ASSUME NEW i \in 1..c, NEW j \in 1..c, o[i] = o[j] PROVE i = j
    <3>0. o[i] \in S /\ o[j] \in S
      BY <1>3
    <3>. S \subseteq Nat
      OBVIOUS
    <3>1. o[i] \in Nat /\ o[j] \in Nat
      BY <3>0
    <3>2. ~(i < j) /\ ~(j < i)
      BY <1>3, <2>1, <3>1
    <3> QED BY <1>1, <3>2
  <2> QED BY <1>3, <2>1 DEF Injection, IsInjective
<1>5. Cardinality(1..c) = c
  BY <1>1, FS_Interval
<1>6. o \in Surjection(1..c, S)
  BY <1>1, <1>4, <1>5, FS_Injection
<1>7. Onto(o, c, S)
  BY <1>6 DEF Surjection, Onto
<1>8. o \in Seq(S) /\ Len(o) = c
  BY <1>1, <1>3
<1> QED BY <1>1, <1>3, <1>7, <1>8 DEF Increasing, o

(* Of an interval, its members one by one. *)
LEMMA OrderedInterval ==
  ASSUME NEW a \in Nat, NEW b \in Nat, a <= b
  PROVE  Ordered(a + 1 .. b) = [i \in 1..b - a |-> a + i]
<1> DEFINE S == a + 1 .. b
           o == Ordered(S)
           m == Cardinality(S)
<1>0. S \in SUBSET (1..b)
  OBVIOUS
<1>1. /\ m \in Nat /\ o \in Seq(S) /\ Len(o) = m
      /\ \A i \in 1..m : o[i] \in S
      /\ Increasing(o, m) /\ Onto(o, m, S)
  <2> HIDE DEF S
  <2> QED BY <1>0, OrderedIs
<1> HIDE DEF o, m
<1>2. m = b - a /\ \A i \in 1..m : o[i] = a + i
  <2>1. /\ m \in Nat /\ \A i \in 1..m : o[i] \in a + 1 .. b
        /\ Increasing(o, m) /\ Onto(o, m, a + 1 .. b)
    BY <1>1
  <2> QED BY ONLY <2>1, OneByOne, a \in Nat, b \in Nat, a <= b
<1>3. o = [i \in 1..b - a |-> a + i]
  BY <1>1, <1>2
<1> QED BY <1>3 DEF o

(* The first numbers are their own enumeration. *)
LEMMA OrderedFirst ==
  ASSUME NEW n \in Nat
  PROVE  Ordered(1..n) = [i \in 1..n |-> i]
<1>1. Ordered(0 + 1 .. n) = [i \in 1..n - 0 |-> 0 + i]
  BY OrderedInterval
<1>2. 0 + 1 .. n = 1..n
  OBVIOUS
<1>3. [i \in 1..n - 0 |-> 0 + i] = [i \in 1..n |-> i]
  OBVIOUS
<1> QED BY <1>1, <1>2, <1>3

(* The numbers up to a, and then those up to b. *)
LEMMA Continued ==
  ASSUME NEW a \in Nat, NEW b \in Nat, a <= b
  PROVE  [i \in 1..a |-> i] \o [i \in 1..(b - a) |-> a + i] = [i \in 1..b |-> i]
<1> DEFINE q == [i \in 1..a |-> i]
           r == [i \in 1..(b - a) |-> a + i]
           s == [i \in 1..b |-> i]
<1>1. q \in Seq(Nat) /\ r \in Seq(Nat) /\ s \in Seq(Nat) /\ Len(q) = a /\ Len(r) = b - a /\ Len(s) = b
  OBVIOUS
<1>2. q \o r \in Seq(Nat) /\ Len(q \o r) = b
  <2> HIDE DEF q, r
  <2>0. q \in Seq(Nat) /\ r \in Seq(Nat)
    BY <1>1
  <2>1. q \o r \in Seq(Nat) /\ Len(q \o r) = Len(q) + Len(r)
    BY ONLY <2>0, ConcatProperties
  <2>2. a + (b - a) = b
    OBVIOUS
  <2> QED BY <1>1, <2>1, <2>2
<1>3. ASSUME NEW i \in 1..b PROVE (q \o r)[i] = s[i]
  <2>1. CASE i <= a
    <3>1. (q \o r)[i] = q[i]
      <4> HIDE DEF q, r, s
      <4> QED BY <1>1, <1>3, <2>1
    <3> QED BY <3>1, <2>1
  <2>2. CASE i > a
    <3>1. (q \o r)[i] = r[i - a]
      <4> HIDE DEF q, r, s
      <4>1. i - a \in 1..Len(r)
        BY <1>1, <2>2
      <4>2. i \in 1..Len(q) + Len(r) /\ i > Len(q) /\ i - Len(q) = i - a
        BY <1>1, <2>2
      <4>3. q \in Seq(Nat) /\ r \in Seq(Nat)
        BY <1>1
      <4>4. \A j \in 1..Len(q) + Len(r) :
              (q \o r)[j] = IF j <= Len(q) THEN q[j] ELSE r[j - Len(q)]
        BY ONLY <4>3, ConcatProperties
      <4>5. Len(q) \in Nat /\ Len(r) \in Nat
        BY <4>3
      <4>6. (q \o r)[i] = r[i - Len(q)]
        BY ONLY <4>2, <4>4, <4>5
      <4> QED BY <4>2, <4>6
    <3> QED BY <3>1, <2>2
  <2> QED BY <2>1, <2>2
<1> HIDE DEF q, r, s
<1>4. q \o r = s
  BY <1>1, <1>2, <1>3, SeqEqual
<1> QED BY <1>4 DEF q, r, s

-----------------------------------------------------------------------------
(* The results behind a block.                                             *)

Says == {"real", "updated", "invalid", "cancelled", "failed"}

(* Each of two parts of a log answers its own calls. *)
LEMMA AnsweredAppend ==
  ASSUME NEW X, NEW q \in Seq(X), NEW r \in Seq(X)
  PROVE  Answered(q \o r) = Answered(q) \cup Answered(r)
<1>1. ASSUME NEW c \in Answered(q \o r) PROVE c \in Answered(q) \cup Answered(r)
  <2>1. PICK i \in 1..Len(q \o r) : c = (q \o r)[i][1]
    BY <1>1 DEF Answered
  <2>2. CASE i <= Len(q)
    BY <2>1, <2>2 DEF Answered
  <2>3. CASE i > Len(q)
    <3>1. i - Len(q) \in 1..Len(r) /\ (q \o r)[i] = r[i - Len(q)]
      BY <2>1, <2>3
    <3> QED BY <2>1, <3>1 DEF Answered
  <2> QED BY <2>1, <2>2, <2>3
<1>2. ASSUME NEW c \in Answered(q) PROVE c \in Answered(q \o r)
  <2>1. PICK i \in 1..Len(q) : c = q[i][1]
    BY <1>2 DEF Answered
  <2>2. i \in 1..Len(q \o r) /\ (q \o r)[i] = q[i]
    BY <2>1
  <2> QED BY <2>1, <2>2 DEF Answered
<1>3. ASSUME NEW c \in Answered(r) PROVE c \in Answered(q \o r)
  <2>1. PICK i \in 1..Len(r) : c = r[i][1]
    BY <1>3 DEF Answered
  <2>2. Len(q) + i \in 1..Len(q \o r) /\ (q \o r)[Len(q) + i] = r[i]
    BY <2>1
  <2> QED BY <2>1, <2>2 DEF Answered
<1> QED BY <1>1, <1>2, <1>3

(* A result for each call of a set, and no other. *)
LEMMA SayOrdered ==
  ASSUME NEW n \in Nat, NEW S \in SUBSET (1..n), NEW what \in Says
  PROVE  /\ Say(what, Ordered(S)) \in Seq((1..n) \X Says)
         /\ Len(Say(what, Ordered(S))) = Cardinality(S)
         /\ Answered(Say(what, Ordered(S))) = S
<1> DEFINE o == Ordered(S)
           m == Cardinality(S)
           y == Say(what, o)
<1>1. /\ m \in Nat /\ Len(o) = m
      /\ \A i \in 1..m : o[i] \in S
      /\ Onto(o, m, S)
  BY OrderedIs
<1> HIDE DEF o, m
<1>2. y = [i \in 1..m |-> <<o[i], what>>]
  BY <1>1 DEF Say
<1>3. \A i \in 1..m : <<o[i], what>> \in (1..n) \X Says
  BY <1>1
<1>4. y \in Seq((1..n) \X Says) /\ Len(y) = m
  BY <1>1, <1>2, <1>3
<1>5. \A i \in 1..m : y[i][1] = o[i]
  BY <1>2
<1>6. Answered(y) = S
  <2>1. Answered(y) \subseteq S
    BY <1>1, <1>4, <1>5 DEF Answered
  <2>2. ASSUME NEW c \in S PROVE c \in Answered(y)
    <3>1. PICK i \in 1..m : o[i] = c
      BY <1>1 DEF Onto
    <3> QED BY <3>1, <1>4, <1>5 DEF Answered
  <2> QED BY <2>1, <2>2
<1> QED BY <1>4, <1>6 DEF o, m

(* After a repair every call has a result, and those before it stand. *)
LEMMA RepairIs ==
  ASSUME NEW l \in Loops, Len(batch[l]) \in Nat,
         NEW lg \in Seq(Calls(l) \X Says), NEW what \in Says
  PROVE  /\ Repair(l, lg, what) \in Seq(Calls(l) \X Says)
         /\ Answered(Repair(l, lg, what)) = Calls(l)
         /\ Len(Repair(l, lg, what)) = Len(lg) + Cardinality(Calls(l) \ Answered(lg))
         /\ Cardinality(Calls(l) \ Answered(lg)) \in Nat
         /\ \A i \in 1..Len(lg) : Repair(l, lg, what)[i] = lg[i]
<1> DEFINE S == Calls(l) \ Answered(lg)
           y == Say(what, Ordered(S))
           X == Calls(l) \X Says
<1>1. S \in SUBSET (1..Len(batch[l]))
  BY DEF Calls
<1>2. y \in Seq(X) /\ Len(y) = Cardinality(S) /\ Answered(y) = S /\ Cardinality(S) \in Nat
  <2> HIDE DEF S
  <2>1. y \in Seq((1..Len(batch[l])) \X Says) /\ Len(y) = Cardinality(S) /\ Answered(y) = S
    BY <1>1, SayOrdered
  <2>2. Cardinality(S) \in Nat
    BY <1>1, Counted
  <2> QED BY <2>1, <2>2 DEF Calls
<1>3. Answered(lg) \subseteq Calls(l)
  BY DEF Answered
<1>4. Repair(l, lg, what) = lg \o y
  BY DEF Repair
<1> HIDE DEF S, y, X
<1>5. lg \in Seq(X)
  BY DEF X
<1>6. Answered(lg \o y) = Calls(l)
  <2>1. Answered(lg \o y) = Answered(lg) \cup Answered(y)
    BY <1>2, <1>5, AnsweredAppend
  <2> QED BY <1>2, <1>3, <2>1 DEF S
<1>7. lg \o y \in Seq(X) /\ Len(lg \o y) = Len(lg) + Len(y)
      /\ \A i \in 1..Len(lg) : (lg \o y)[i] = lg[i]
  BY <1>2, <1>5
<1> QED BY <1>2, <1>4, <1>6, <1>7 DEF S, X

(* The results that can be flushed are the next ones, up to the first call *)
(* that has not returned.                                                  *)
LEMMA FlushableIs ==
  ASSUME NEW l \in Loops, Len(batch[l]) \in Nat, flushed[l] \in 0..Len(batch[l])
  PROVE  \E m \in flushed[l]..Len(batch[l]) :
           /\ Flushable(l) = flushed[l] + 1 .. m
           /\ Cardinality(Flushable(l)) = m - flushed[l]
           /\ \A d \in flushed[l] + 1 .. m : call[l][d] \in Resolved
           /\ m < Len(batch[l]) => call[l][m + 1] \notin Resolved
<1> DEFINE a == flushed[l]
           n == Len(batch[l])
           Left == {c \in a + 1 .. n : call[l][c] \notin Resolved} \cup {n + 1}
<1>1. PICK k \in Left : \A c \in Left : k <= c
  <2>1. Left \in SUBSET Nat /\ Left # {}
    OBVIOUS
  <2> HIDE DEF Left
  <2> QED BY <2>1, Least
<1> DEFINE m == k - 1
<1>2. a \in Nat /\ n \in Nat /\ k \in a + 1 .. n + 1 /\ m \in a..n
  BY <1>1
<1>3. \A d \in a + 1 .. m : call[l][d] \in Resolved
  BY <1>1, <1>2
<1>4. m < n => call[l][m + 1] \notin Resolved
  BY <1>1, <1>2
<1>5. Flushable(l) = a + 1 .. m
  <2>1. ASSUME NEW c \in Flushable(l) PROVE c \in a + 1 .. m
    <3>1. c \in a + 1 .. n /\ \A d \in a + 1 .. c : call[l][d] \in Resolved
      BY <2>1 DEF Flushable
    <3>2. CASE c > m
      <4>1. k \in a + 1 .. c /\ m < n
        BY <1>2, <3>1, <3>2
      <4>2. call[l][k] \in Resolved
        BY <3>1, <4>1
      <4> QED BY <1>2, <1>4, <4>1, <4>2
    <3> QED BY <1>2, <3>1, <3>2
  <2>2. ASSUME NEW c \in a + 1 .. m PROVE c \in Flushable(l)
    BY <1>2, <1>3, <2>2 DEF Flushable
  <2> QED BY <2>1, <2>2
<1>6. Cardinality(a + 1 .. m) = m - a
  <2>1. a + 1 \in Int /\ m \in Int
    BY <1>2
  <2> HIDE DEF a, m
  <2>2. Cardinality(a + 1 .. m) = IF a + 1 > m THEN 0 ELSE m - (a + 1) + 1
    BY <2>1, FS_Interval
  <2> QED BY <1>2, <2>1, <2>2
<1> QED BY <1>2, <1>3, <1>4, <1>5, <1>6

(* What flushing appends: a result for each of those that carry one, in    *)
(* call order.                                                             *)
LEMMA FlushedIs ==
  ASSUME NEW l \in Loops, Len(batch[l]) \in Nat, flushed[l] \in 0..Len(batch[l]),
         log[l] \in Seq(Calls(l) \X Says)
  PROVE  \E r \in Seq(Calls(l) \X Says) :
           /\ Flushed(l) = log[l] \o r
           /\ Len(r) = Len(Payloads(l))
           /\ Answered(r) = {c \in Flushable(l) : call[l][c] \in WithPayload}
           /\ \A i \in 1..Len(r) : r[i] = <<r[i][1], call[l][r[i][1]]>>
           /\ \A i, j \in 1..Len(r) : i < j => r[i][1] < r[j][1]
<1> DEFINE S == {c \in Flushable(l) : call[l][c] \in WithPayload}
           o == Payloads(l)
           m == Cardinality(S)
           r == [i \in 1..Len(o) |-> <<o[i], call[l][o[i]]>>]
<1>1. S \in SUBSET (1..Len(batch[l]))
  BY DEF Flushable
<1>2. /\ m \in Nat /\ Len(o) = m
      /\ \A i \in 1..m : o[i] \in S
      /\ Increasing(o, m) /\ Onto(o, m, S)
  <2>1. o = Ordered(S)
    BY DEF Payloads
  <2> HIDE DEF S, o
  <2> QED BY <1>1, <2>1, OrderedIs
<1>3. Flushed(l) = log[l] \o r
  BY DEF Flushed
<1>4. WithPayload \subseteq Says
  BY DEF WithPayload, Says
<1>5. \A c \in S : c \in Calls(l) /\ call[l][c] \in Says
  BY <1>1, <1>4 DEF Calls
<1> HIDE DEF o, m, S
<1>6. r \in Seq(Calls(l) \X Says) /\ Len(r) = m
  BY <1>2, <1>5
<1>7. \A i \in 1..m : r[i] = <<o[i], call[l][o[i]]>> /\ r[i][1] = o[i]
  BY <1>2
<1> HIDE DEF r
<1>8. Answered(r) = S
  <2>1. Answered(r) \subseteq S
    BY <1>2, <1>6, <1>7 DEF Answered
  <2>2. ASSUME NEW c \in S PROVE c \in Answered(r)
    <3>1. PICK i \in 1..m : o[i] = c
      BY <1>2 DEF Onto
    <3> QED BY <3>1, <1>6, <1>7 DEF Answered
  <2> QED BY <2>1, <2>2
<1>9. \A i \in 1..Len(r) : r[i] = <<r[i][1], call[l][r[i][1]]>>
  BY <1>6, <1>7
<1>10. \A i, j \in 1..Len(r) : i < j => r[i][1] < r[j][1]
  <2>1. \A i, j \in 1..m : i < j => o[i] < o[j]
    BY <1>2 DEF Increasing
  <2>2. \A i \in 1..m : r[i][1] = o[i]
    BY <1>7
  <2>3. Len(r) = m
    BY <1>6
  <2> TAKE i, j \in 1..Len(r)
  <2> HAVE i < j
  <2>4. i \in 1..m /\ j \in 1..m
    BY <2>3
  <2>5. o[i] < o[j]
    BY <2>1, <2>4
  <2> QED BY <2>2, <2>4, <2>5
<1>11. Len(r) = Len(Payloads(l)) /\ Answered(r) = {c \in Flushable(l) : call[l][c] \in WithPayload}
  BY <1>2, <1>6, <1>8 DEF S, o
<1> QED BY <1>3, <1>6, <1>9, <1>10, <1>11

(* Facts about sequences, in the form the steps below cite. *)
LEMMA FirstPart ==
  ASSUME NEW X, NEW q \in Seq(X), NEW n \in 0..Len(q)
  PROVE  /\ SubSeq(q, 1, n) \in Seq(X) /\ Len(SubSeq(q, 1, n)) = n
         /\ \A i \in 1..n : SubSeq(q, 1, n)[i] = q[i]
OBVIOUS

LEMMA LastPart ==
  ASSUME NEW X, NEW q \in Seq(X), NEW e \in X
  PROVE  /\ Append(q, e) \in Seq(X) /\ Len(Append(q, e)) = Len(q) + 1
         /\ \A i \in 1..Len(q) : Append(q, e)[i] = q[i]
         /\ Append(q, e)[Len(q) + 1] = e
OBVIOUS

LEMMA SeqOfMore ==
  ASSUME NEW S, NEW T, S \subseteq T, NEW q \in Seq(S)
  PROVE  q \in Seq(T)
<1>1. \A i \in 1..Len(q) : q[i] \in T
  OBVIOUS
<1> QED BY <1>1

(* What a flush leaves, or part of it, is a log. *)
LEMMA FlushedTyped ==
  ASSUME NEW l \in Loops, Len(batch[l]) \in Nat, flushed[l] \in 0..Len(batch[l]),
         log[l] \in Seq(Calls(l) \X Says)
  PROVE  /\ Flushed(l) \in Seq(Calls(l) \X Says)
         /\ \A k \in 1..Len(Payloads(l)) :
              SubSeq(Flushed(l), 1, Len(log[l]) + k) \in Seq(Calls(l) \X Says)
<1> DEFINE X == Calls(l) \X Says
<1>1. PICK r \in Seq(X) : Flushed(l) = log[l] \o r /\ Len(r) = Len(Payloads(l))
  BY FlushedIs
<1>2. log[l] \in Seq(X)
  OBVIOUS
<1> HIDE DEF X
<1>3. Flushed(l) \in Seq(X) /\ Len(Flushed(l)) = Len(log[l]) + Len(r)
      /\ Len(r) \in Nat /\ Len(log[l]) \in Nat
  BY <1>1, <1>2
<1>4. \A k \in 1..Len(r) : Len(log[l]) + k \in 0..Len(Flushed(l))
  BY <1>3
<1>5. \A k \in 1..Len(r) : SubSeq(Flushed(l), 1, Len(log[l]) + k) \in Seq(X)
  BY <1>3, <1>4, FirstPart
<1> QED BY <1>1, <1>3, <1>5 DEF X

-----------------------------------------------------------------------------
(* Types.                                                                  *)

(* TypeOK speaks of the block of each loop; there is nothing else.         *)
Shape ==
  /\ batch = [l \in Loops |-> batch[l]] /\ call = [l \in Loops |-> call[l]]
  /\ began = [l \in Loops |-> began[l]] /\ flushed = [l \in Loops |-> flushed[l]]
  /\ log = [l \in Loops |-> log[l]]

BlockType(l) ==
  /\ batch[l] \in Batches[l] \cup {<<>>}
  /\ call[l] \in [Calls(l) -> InProgress \cup Resolved \cup {"new"}]
  /\ began[l] \in [Calls(l) -> (-1)..MaxUpdates]
  /\ flushed[l] \in 0..Len(batch[l])
  /\ log[l] \in Seq(Calls(l) \X Says)

SameBlock(l) ==
  UNCHANGED <<batch[l], call[l], began[l], flushed[l], log[l]>>

(* A step of a loop, or of a call of it, is a step of no other loop.       *)
LEMMA BlocksApart ==
  ASSUME Shape, NEW l \in Loops, LoopStep(l) \/ \E c \in Calls(l) : CallStep(l, c)
  PROVE  Shape' /\ \A k \in Loops \ {l} : SameBlock(k)
<1>1. CASE LoopHead(l) \/ Receive(l) \/ StreamRaises(l) \/ Answer(l) \/ NoAnswer(l)
           \/ Settle(l) \/ DispatchOver(l)
  BY <1>1 DEF LoopHead, Receive, StreamRaises, Answer, NoAnswer, Settle, DispatchOver, blockVars,
             Shape, SameBlock
<1>2. CASE Request(l)
  BY <1>2 DEF Request, Shape, SameBlock
<1>3. CASE Propose(l)
  BY <1>3 DEF Propose, Shape, SameBlock
<1>4. CASE RejectBatch(l) \/ RefuseBatch(l) \/ RefusalRaises(l) \/ BeginBatch(l) \/ FlushRaises(l)
  BY <1>4 DEF RejectBatch, RefuseBatch, RefusalRaises, BeginBatch, FlushRaises, Shape, SameBlock
<1>5. CASE AcceptBatch(l) \/ Dispatch(l)
  BY <1>5 DEF AcceptBatch, Dispatch, Shape, SameBlock
<1>6. CASE Serial(l) \/ SerialDone(l) \/ RoundOver(l)
  BY <1>6 DEF Serial, SerialDone, RoundOver, Flush, Shape, SameBlock
<1>7. CASE \E c \in Calls(l) : CallStep(l, c)
  BY <1>7 DEF CallStep, Claim, Admit, Return, ShellReturns, Becomes, Shape, SameBlock
<1> QED BY <1>1, <1>2, <1>3, <1>4, <1>5, <1>6, <1>7 DEF LoopStep

(* Where an observer raised before any call of the batch ran.              *)
LEMMA RefusalSaid ==
  ASSUME NEW l \in Loops, Shape, Len(batch[l]) \in Nat, Calls(l) = 1..Len(batch[l]), RefusalRaises(l)
  PROVE  \E lg \in Seq(Calls(l) \X Says) : log'[l] = Repair(l, lg, "failed")
<1>1. PICK what \in {"invalid", "updated"}, k \in Calls(l) :
        log'[l] = Repair(l, Say(what, SubSeq(Ordered(Calls(l)), 1, k)), "failed")
  BY DEF RefusalRaises, Shape
<1>2. Ordered(Calls(l)) = [i \in 1..Len(batch[l]) |-> i]
  BY OrderedFirst
<1>3. SubSeq(Ordered(Calls(l)), 1, k) = [i \in 1..k |-> i]
  BY <1>2
<1>4. Say(what, [i \in 1..k |-> i]) = [i \in 1..k |-> <<i, what>>]
  <2>1. Len([i \in 1..k |-> i]) = k
    OBVIOUS
  <2> QED BY <2>1 DEF Say
<1>5. [i \in 1..k |-> <<i, what>>] \in Seq(Calls(l) \X Says)
  <2>1. \A i \in 1..k : <<i, what>> \in Calls(l) \X Says
    BY DEF Says
  <2> QED BY <2>1
<1> QED BY <1>1, <1>3, <1>4, <1>5

(* There is no block behind a loop that sends a request. *)
Fresh(l) == batch[l] = <<>> /\ flushed[l] = 0 /\ log[l] = <<>>

(* A block is only received while another round is allowed.                *)
RoomInv == \A l \in Loops : phase[l] = "received" /\ reply[l] = "calls" => rounds[l] < MaxRounds

FreshInv == \A l \in Loops : phase[l] \in {"off", "stream", "received"} => Fresh(l)

TInv == TypeOK /\ Shape /\ FreshInv /\ RoomInv

(* The facts of TypeOK about one block, in a form to cite.                 *)
LEMMA BlockTyped ==
  ASSUME TypeOK, NEW l \in Loops
  PROVE  /\ BlockType(l) /\ batch[l] \in Seq(Kinds) /\ Len(batch[l]) \in Nat
         /\ flushed[l] \in Nat /\ Calls(l) = 1..Len(batch[l])
<1>1. BlockType(l)
  BY DEF TypeOK, BlockType, Says
<1>2. batch[l] \in Seq(Kinds)
  <2>1. Batches[l] \in SUBSET (Seq(Kinds) \ {<<>>})
    BY BatchAssumption
  <2>2. <<>> \in Seq(Kinds)
    OBVIOUS
  <2>3. batch[l] \in Batches[l] \cup {<<>>}
    BY <1>1 DEF BlockType
  <2> QED BY <2>1, <2>2, <2>3
<1>3. Len(batch[l]) \in Nat
  BY <1>2
<1>4. flushed[l] \in Nat
  BY <1>1, <1>3 DEF BlockType
<1> QED BY <1>1, <1>2, <1>3, <1>4 DEF Calls

(* A request clears the block of its loop. *)
LEMMA RequestBlock ==
  ASSUME TInv, NEW l \in Loops, Request(l)
  PROVE  /\ batch'[l] = <<>> /\ call'[l] = <<>> /\ began'[l] = <<>>
         /\ flushed'[l] = 0 /\ log'[l] = <<>> /\ Calls(l)' = {}
BY DEF Request, TInv, Shape, Calls

(* The block of the loop that takes a step keeps its type.                 *)
LEMMA BlockTypes ==
  ASSUME TInv, NEW l \in Loops, LoopStep(l) \/ \E c \in Calls(l) : CallStep(l, c)
  PROVE  BlockType(l)'
<1> USE DEF TInv
<1>0. /\ BlockType(l) /\ batch[l] \in Seq(Kinds) /\ Len(batch[l]) \in Nat
      /\ flushed[l] \in Nat /\ Calls(l) = 1..Len(batch[l])
  BY BlockTyped
<1>r. \A lg \in Seq(Calls(l) \X Says), what \in Says : Repair(l, lg, what) \in Seq(Calls(l) \X Says)
  BY <1>0, RepairIs
<1>s. "failed" \in Says /\ "cancelled" \in Says
  BY DEF Says
<1> USE <1>0
<1>1. CASE LoopHead(l) \/ Receive(l) \/ StreamRaises(l) \/ Answer(l) \/ NoAnswer(l)
           \/ Settle(l) \/ DispatchOver(l)
  <2>1. UNCHANGED blockVars
    BY <1>1 DEF LoopHead, Receive, StreamRaises, Answer, NoAnswer, Settle, DispatchOver
  <2> QED BY <2>1 DEF blockVars, BlockType, Calls
<1>2. CASE Request(l)
  <2>1. batch'[l] = <<>> /\ call'[l] = <<>> /\ began'[l] = <<>>
        /\ flushed'[l] = 0 /\ log'[l] = <<>> /\ Calls(l)' = {}
    BY <1>2, RequestBlock
  <2> QED BY <2>1 DEF BlockType
<1>3. CASE Propose(l)
  <2>1. Fresh(l)
    BY <1>3 DEF Propose, FreshInv
  <2>2. PICK b \in Batches[l] :
          batch'[l] = b /\ call'[l] = [c \in 1..Len(b) |-> "new"]
          /\ began'[l] = [c \in 1..Len(b) |-> -1] /\ flushed'[l] = 0 /\ log'[l] = <<>>
    BY <1>3, <2>1 DEF Propose, Shape, Fresh
  <2>3. Len(b) \in Nat
    BY BatchAssumption
  <2> QED BY <2>2, <2>3, BoundAssumption DEF BlockType, Calls
<1>4. CASE RejectBatch(l) \/ RefuseBatch(l) \/ RefusalRaises(l)
  <2>1. UNCHANGED <<batch, call, began, flushed>>
    BY <1>4 DEF RejectBatch, RefuseBatch, RefusalRaises
  <2>2. log'[l] \in Seq(Calls(l) \X Says)
    <3>1. CASE RejectBatch(l) \/ RefuseBatch(l)
      <4>1. PICK what \in Says : log'[l] = Say(what, Ordered(Calls(l)))
        BY <3>1 DEF RejectBatch, RefuseBatch, Shape, Says
      <4> QED BY <4>1, SayOrdered
    <3>2. CASE RefusalRaises(l)
      <4>1. PICK lg \in Seq(Calls(l) \X Says) : log'[l] = Repair(l, lg, "failed")
        BY <3>2, RefusalSaid
      <4> QED BY ONLY <4>1, <1>r, <1>s
    <3> QED BY <1>4, <3>1, <3>2
  <2> QED BY <2>1, <2>2 DEF BlockType, Calls
<1>5. CASE AcceptBatch(l) \/ Dispatch(l)
  <2>1. UNCHANGED <<batch, began, flushed, log>>
    BY <1>5 DEF AcceptBatch, Dispatch
  <2>2. call'[l] \in [Calls(l) -> InProgress \cup Resolved \cup {"new"}]
    <3>1. CASE AcceptBatch(l)
      BY <3>1 DEF AcceptBatch, Shape, Resolved
    <3>2. CASE Dispatch(l)
      BY <3>2 DEF Dispatch, Shape, InProgress, BlockType, NextCall
    <3> QED BY <1>5, <3>1, <3>2
  <2> QED BY <2>1, <2>2 DEF BlockType, Calls
<1>6. CASE BeginBatch(l)
  <2>1. UNCHANGED <<batch, call, began, flushed>>
    BY <1>6 DEF BeginBatch
  <2>2. log'[l] = log[l] \/ log'[l] = Repair(l, log[l], "cancelled")
    BY <1>6 DEF BeginBatch, Shape
  <2>3. log'[l] \in Seq(Calls(l) \X Says)
    <3>1. log[l] \in Seq(Calls(l) \X Says)
      BY DEF BlockType
    <3> QED BY ONLY <2>2, <3>1, <1>r, <1>s
  <2> QED BY <2>1, <2>3 DEF BlockType, Calls
<1>7. CASE Serial(l) \/ SerialDone(l) \/ RoundOver(l)
  <2>1. UNCHANGED <<batch, began>>
    BY <1>7 DEF Serial, SerialDone, RoundOver
  <2>2. Flushed(l) \in Seq(Calls(l) \X Says)
    BY FlushedTyped DEF BlockType
  <2>3. log'[l] = Flushed(l) \/ log'[l] = Repair(l, Flushed(l), "cancelled")
    BY <1>7 DEF Serial, SerialDone, RoundOver, Flush, Shape
  <2>4. log'[l] \in Seq(Calls(l) \X Says)
    BY ONLY <2>2, <2>3, <1>r, <1>s
  <2>5. flushed'[l] = flushed[l] + Cardinality(Flushable(l))
    BY <1>7 DEF Serial, SerialDone, RoundOver, Flush, Shape
  <2>6. flushed'[l] \in 0..Len(batch[l])
    BY <2>5, FlushableIs DEF BlockType
  <2>7. call'[l] \in [Calls(l) -> InProgress \cup Resolved \cup {"new"}]
    <3>1. call'[l] = call[l] \/ \E c \in Calls(l) : call'[l] = [call[l] EXCEPT ![c] = "queued"]
      BY <1>7 DEF Serial, SerialDone, RoundOver, Shape, NextCall
    <3>2. call[l] \in [Calls(l) -> InProgress \cup Resolved \cup {"new"}] /\ "queued" \in InProgress
      BY DEF BlockType, InProgress
    <3> QED BY <3>1, <3>2
  <2> QED BY <2>1, <2>4, <2>6, <2>7 DEF BlockType, Calls
<1>8. CASE FlushRaises(l)
  <2>1. UNCHANGED <<batch, call, began, flushed>>
    BY <1>8 DEF FlushRaises
  <2>2. PICK k \in 1..Len(Payloads(l)) :
          log'[l] = Repair(l, SubSeq(Flushed(l), 1, Len(log[l]) + k), "failed")
    BY <1>8 DEF FlushRaises, Shape
  <2>3. SubSeq(Flushed(l), 1, Len(log[l]) + k) \in Seq(Calls(l) \X Says)
    BY FlushedTyped DEF BlockType
  <2>4. log'[l] \in Seq(Calls(l) \X Says)
    BY ONLY <2>2, <2>3, <1>r, <1>s
  <2> QED BY <2>1, <2>4 DEF BlockType, Calls
<1>9. CASE \E c \in Calls(l) : CallStep(l, c)
  <2>1. PICK c \in Calls(l) : CallStep(l, c)
    BY <1>9
  <2>2. UNCHANGED <<batch, flushed>>
    BY <2>1 DEF CallStep, Claim, Admit, Return, ShellReturns
  <2>3. call'[l] \in [Calls(l) -> InProgress \cup Resolved \cup {"new"}]
    <3>1. \E s \in InProgress \cup Resolved : call'[l] = [call[l] EXCEPT ![c] = s]
      <4>1. CASE Claim(l, c)
        BY <4>1 DEF Claim, Becomes, Shape, InProgress, Resolved
      <4>2. CASE Admit(l, c)
        BY <4>2 DEF Admit, Becomes, Shape, InProgress, Resolved
      <4>3. CASE Return(l, c) \/ ShellReturns(l, c)
        BY <4>3 DEF Return, ShellReturns, Becomes, Shape, InProgress, Resolved
      <4> QED BY <2>1, <4>1, <4>2, <4>3 DEF CallStep
    <3>2. call[l] \in [Calls(l) -> InProgress \cup Resolved \cup {"new"}]
      BY DEF BlockType
    <3> QED BY <3>1, <3>2
  <2>4. began'[l] \in [Calls(l) -> (-1)..MaxUpdates]
    <3>1. accepted \in -1..MaxUpdates
      BY BoundAssumption DEF TypeOK
    <3> QED BY <2>1, <3>1 DEF CallStep, Claim, Admit, Return, ShellReturns, Shape, BlockType
  <2>5. log'[l] \in Seq(Calls(l) \X Says)
    <3>1. log'[l] = log[l] \/ log'[l] = Append(log[l], <<c, "real">>)
      BY <2>1 DEF CallStep, Claim, Admit, Return, ShellReturns, Shape
    <3>2. log[l] \in Seq(Calls(l) \X Says) /\ <<c, "real">> \in Calls(l) \X Says
      BY DEF BlockType, Says
    <3> DEFINE X == Calls(l) \X Says
               e == <<c, "real">>
    <3>3. log[l] \in Seq(X) /\ e \in X /\ (log'[l] = log[l] \/ log'[l] = Append(log[l], e))
      BY <3>1, <3>2
    <3> HIDE DEF X, e
    <3>4. log'[l] \in Seq(X)
      BY ONLY <3>3, LastPart
    <3> QED BY <3>4 DEF X
  <2> QED BY <2>2, <2>3, <2>4, <2>5 DEF BlockType, Calls
<1> QED BY <1>1, <1>2, <1>3, <1>4, <1>5, <1>6, <1>7, <1>8, <1>9 DEF LoopStep

Phases == {"off", "head", "boundary", "stream", "received", "preflight", "accepted", "dispatch",
           "settle", "serial", "drain", "closing", "persist", "over"}

LogType ==
  /\ preceding \in 0..MaxUpdates
  /\ accepted \in preceding..MaxUpdates
  /\ status \in [UpdateIds -> {"none", "pending", "in_context", "not_delivered"}]
  /\ \A u \in UpdateIds : status[u] = "none" <=> u > accepted
  /\ open \in BOOLEAN /\ cancel \in BOOLEAN /\ stopping \in BOOLEAN

LoopType ==
  /\ phase \in [Loops -> Phases]
  /\ position \in [Loops -> 0..MaxUpdates]
  /\ told \in [Loops -> Seq(UpdateIds)]
  /\ heard \in [Loops -> SUBSET UpdateIds]
  /\ reply \in [Loops -> {"none", "answer", "calls", "error", "nothing"}]
  /\ late \in [Loops -> BOOLEAN]
  /\ rounds \in [Loops -> 0..MaxRounds]
  /\ ending \in [Loops -> Endings \cup {"none"}]

(* TypeOK in parts: the task, the loops, and the block of each loop. *)
LEMMA TypeParts == TypeOK <=> LogType /\ LoopType /\ \A l \in Loops : BlockType(l)
BY DEF TypeOK, LogType, LoopType, Phases, BlockType, Says

(* What AppendTo does to the history of a loop. *)
LEMMA AppendToTypes ==
  ASSUME LogType, LoopType, NEW l \in Loops, AppendTo(l)
  PROVE  /\ LogType' <=> cancel' \in BOOLEAN /\ stopping' \in BOOLEAN
         /\ position' \in [Loops -> 0..MaxUpdates]
         /\ told' \in [Loops -> Seq(UpdateIds)]
         /\ accepted' = accepted /\ preceding' = preceding /\ open' = open
<1> USE BoundAssumption
<1>1. CASE ~open
  BY <1>1 DEF AppendTo, LogType, LoopType, taskVars
<1>2. CASE open
  <2>1. /\ position' = [position EXCEPT ![l] = accepted]
        /\ told' = [told EXCEPT ![l] = @ \o Unseen(l)]
        /\ status' = [u \in UpdateIds |-> IF u <= accepted THEN "in_context" ELSE status[u]]
        /\ UNCHANGED <<preceding, accepted, open>>
    BY <1>2 DEF AppendTo
  <2>2. Unseen(l) \in Seq(UpdateIds)
    <3>1. accepted \in 0..MaxUpdates /\ position[l] \in 0..MaxUpdates
      BY DEF LogType, LoopType
    <3> DEFINE d == accepted - position[l]
    <3>2. \A i \in 1..d : position[l] + i \in UpdateIds
      BY <3>1 DEF UpdateIds
    <3>3. CASE d >= 0
      BY <3>1, <3>2, <3>3 DEF Unseen
    <3>4. CASE d < 0
      <4>1. 1..d = {}
        BY <3>1, <3>4
      <4>2. Unseen(l) = <<>>
        BY <4>1 DEF Unseen
      <4> QED BY <4>2
    <3> QED BY <3>1, <3>3, <3>4
  <2>3. told[l] \o Unseen(l) \in Seq(UpdateIds)
    BY <2>2 DEF LoopType
  <2>4. told' \in [Loops -> Seq(UpdateIds)]
    BY <2>1, <2>3 DEF LoopType
  <2>5. position' \in [Loops -> 0..MaxUpdates]
    BY <2>1 DEF LogType, LoopType
  <2>6. status' \in [UpdateIds -> {"none", "pending", "in_context", "not_delivered"}]
        /\ \A u \in UpdateIds : status'[u] = "none" <=> u > accepted
    BY <2>1 DEF LogType, UpdateIds
  <2> QED BY <2>1, <2>4, <2>5, <2>6 DEF LogType
<1> QED BY <1>1, <1>2 DEF LogType

(* What closing, ending, going and raising keep of the types. *)
LEMMA CloseTypes ==
  ASSUME LogType, Close, cancel' \in BOOLEAN, stopping' \in BOOLEAN
  PROVE  LogType'
BY DEF LogType, Close

LEMMA EndsTypes ==
  ASSUME LoopType, NEW l \in Loops, NEW how \in Endings, Ends(l, how)
  PROVE  phase' \in [Loops -> Phases] /\ ending' \in [Loops -> Endings \cup {"none"}]
BY DEF LoopType, Ends, Go, Phases

LEMMA GoTypes ==
  ASSUME LoopType, NEW l \in Loops, NEW p \in Phases, Go(l, p)
  PROVE  phase' \in [Loops -> Phases]
BY DEF LoopType, Go

LEMMA RaisesTypes ==
  ASSUME LoopType, NEW l \in Loops, Raises(l)
  PROVE  phase' \in [Loops -> Phases] /\ ending' \in [Loops -> Endings \cup {"none"}]
<1>1. \E how \in Endings : Ends(l, how)
  BY DEF Raises, Endings
<1> QED BY <1>1, EndsTypes

(* Every step keeps the types of the task and of the loops. *)
LEMMA LoopTypes ==
  ASSUME LogType, LoopType, RoomInv, [Next]_vars
  PROVE  LogType' /\ LoopType'
<1>0. "head" \in Phases /\ "boundary" \in Phases /\ "stream" \in Phases /\ "received" \in Phases
      /\ "preflight" \in Phases /\ "accepted" \in Phases /\ "dispatch" \in Phases
      /\ "settle" \in Phases /\ "serial" \in Phases /\ "drain" \in Phases
      /\ "persist" \in Phases /\ "over" \in Phases
      /\ \A how \in {"completed", "cancelled", "api_error", "no_response"} : how \in Endings
  BY DEF Phases, Endings
<1>1. CASE Submit
  <2>1. LogType'
    BY <1>1, BoundAssumption DEF Submit, LogType, UpdateIds, userVars
  <2>2. LoopType'
    BY <1>1 DEF Submit, LoopType, cursorVars, streamVars
  <2> QED BY <2>1, <2>2
<1>2. CASE Stop
  BY <1>2 DEF Stop, LogType, LoopType, taskVars, cursorVars, streamVars
<1>3. CASE StopCloses
  <2>1. LogType'
    BY <1>3, CloseTypes DEF StopCloses, LogType
  <2>2. LoopType'
    BY <1>3 DEF StopCloses, LoopType, cursorVars, streamVars
  <2> QED BY <2>1, <2>2
<1>4. ASSUME NEW l \in Loops, LoopStep(l) \/ \E c \in Calls(l) : CallStep(l, c)
      PROVE  LogType' /\ LoopType'
  <2>1. CASE LoopHead(l) \/ StreamRaises(l) \/ NoAnswer(l) \/ RejectBatch(l) \/ RefuseBatch(l)
             \/ RefusalRaises(l) \/ AcceptBatch(l) \/ BeginBatch(l) \/ Dispatch(l) \/ Settle(l)
             \/ Serial(l) \/ SerialDone(l) \/ DispatchOver(l) \/ RoundOver(l) \/ FlushRaises(l)
             \/ \E c \in Calls(l) : CallStep(l, c)
    <3>1. UNCHANGED restVars
      BY <2>1 DEF LoopHead, StreamRaises, NoAnswer, RejectBatch, RefuseBatch, RefusalRaises,
                  AcceptBatch, BeginBatch, Dispatch, Settle, Serial, SerialDone, DispatchOver,
                  RoundOver, FlushRaises, CallStep, Claim, Admit, Return, ShellReturns
    <3>2. \/ Raises(l) \/ (\E how \in Endings : Ends(l, how))
          \/ ((\E p \in Phases : Go(l, p)) /\ UNCHANGED ending) \/ UNCHANGED <<phase, ending>>
      <4>1. CASE LoopHead(l) \/ NoAnswer(l) \/ BeginBatch(l)
        BY <4>1, <1>0 DEF LoopHead, NoAnswer, BeginBatch
      <4>2. CASE StreamRaises(l) \/ RefusalRaises(l) \/ FlushRaises(l)
        BY <4>2 DEF StreamRaises, RefusalRaises, FlushRaises
      <4>3. CASE RejectBatch(l) \/ RefuseBatch(l) \/ AcceptBatch(l) \/ Settle(l) \/ Serial(l)
                 \/ SerialDone(l) \/ DispatchOver(l)
        BY <4>3, <1>0 DEF RejectBatch, RefuseBatch, AcceptBatch, Settle, Serial, SerialDone,
                          DispatchOver
      <4>4. CASE RoundOver(l)
        BY <4>4, <1>0 DEF RoundOver
      <4>5. CASE Dispatch(l) \/ \E c \in Calls(l) : CallStep(l, c)
        BY <4>5 DEF Dispatch, CallStep, Claim, Admit, Return, ShellReturns
      <4> QED BY <2>1, <4>1, <4>2, <4>3, <4>4, <4>5
    <3>3. phase' \in [Loops -> Phases] /\ ending' \in [Loops -> Endings \cup {"none"}]
      BY <3>2, RaisesTypes, EndsTypes, GoTypes DEF LoopType
    <3>4. LogType'
      BY <3>1 DEF LogType, restVars, taskVars, userVars
    <3> QED BY <3>1, <3>3, <3>4 DEF LoopType, restVars, cursorVars, streamVars
  <2>2. CASE Request(l)
    <3>1. AppendTo(l) /\ UNCHANGED <<userVars, rounds, ending>> /\ Go(l, "stream")
          /\ heard' = [heard EXCEPT ![l] = {told'[l][i] : i \in 1..Len(told'[l])}]
          /\ reply' = [reply EXCEPT ![l] = "none"] /\ late' = [late EXCEPT ![l] = FALSE]
      BY <2>2 DEF Request
    <3>2. /\ LogType' <=> cancel' \in BOOLEAN /\ stopping' \in BOOLEAN
          /\ position' \in [Loops -> 0..MaxUpdates] /\ told' \in [Loops -> Seq(UpdateIds)]
      BY <3>1, AppendToTypes
    <3>3. LogType'
      BY <3>1, <3>2 DEF LogType, userVars
    <3>4. phase' \in [Loops -> Phases]
      BY <3>1, <1>0, GoTypes
    <3>5. {told'[l][i] : i \in 1..Len(told'[l])} \in SUBSET UpdateIds
      <4>1. told'[l] \in Seq(UpdateIds)
        BY <3>2
      <4> QED BY <4>1
    <3>6. heard' \in [Loops -> SUBSET UpdateIds]
      BY <3>1, <3>5 DEF LoopType
    <3> QED BY <3>1, <3>2, <3>3, <3>4, <3>6 DEF LoopType
  <2>3. CASE Receive(l)
    <3>1. LogType'
      BY <2>3 DEF Receive, LogType, taskVars, userVars
    <3>2. phase' \in [Loops -> Phases]
      BY <2>3, <1>0, GoTypes DEF Receive
    <3>3. reply' \in [Loops -> {"none", "answer", "calls", "error", "nothing"}]
          /\ late' \in [Loops -> BOOLEAN]
      BY <2>3 DEF Receive, LoopType, LogType
    <3> QED BY <2>3, <3>1, <3>2, <3>3 DEF Receive, LoopType, cursorVars
  <2>4. CASE Answer(l)
    <3>1. UNCHANGED <<userVars, cursorVars, streamVars>> /\ Finish(l)
      BY <2>4 DEF Answer
    <3>2. phase' \in [Loops -> Phases] /\ ending' \in [Loops -> Endings \cup {"none"}]
      <4>1. (Go(l, "head") /\ UNCHANGED ending) \/ Ends(l, "completed")
        BY <3>1 DEF Finish
      <4> QED BY <4>1, <1>0, GoTypes, EndsTypes DEF LoopType
    <3>3. LogType'
      <4>1. UNCHANGED <<preceding, accepted, status>> /\ open' \in BOOLEAN
        BY <3>1 DEF Finish, taskVars, LogType
      <4> QED BY <3>1, <4>1 DEF LogType, userVars
    <3> QED BY <3>1, <3>2, <3>3 DEF LoopType, cursorVars, streamVars
  <2>5. CASE Propose(l)
    <3>1. LogType'
      BY <2>5 DEF Propose, LogType, taskVars, userVars
    <3>2. phase' \in [Loops -> Phases]
      BY <2>5, <1>0, GoTypes DEF Propose
    <3>3. rounds' \in [Loops -> 0..MaxRounds]
      BY <2>5, BoundAssumption DEF Propose, LoopType, RoomInv
    <3> QED BY <2>5, <3>1, <3>2, <3>3 DEF Propose, LoopType, cursorVars
  <2> QED BY <1>4, <2>1, <2>2, <2>3, <2>4, <2>5 DEF LoopStep
<1>5. ASSUME NEW k \in Children, ChildStarts(k)
      PROVE  LogType' /\ LoopType'
  <2>1. k \in Loops
    BY DEF Loops
  <2>2. phase' \in [Loops -> Phases] /\ UNCHANGED restVars /\ UNCHANGED ending
    BY <1>5, <2>1, <1>0, GoTypes DEF ChildStarts
  <2> QED BY <2>2 DEF LogType, LoopType, restVars, taskVars, userVars, cursorVars, streamVars
<1>6. ASSUME NEW c \in Calls(Root), DelegateReturns(c)
      PROVE  LogType' /\ LoopType'
  BY <1>6 DEF DelegateReturns, LogType, LoopType, restVars, taskVars, userVars, cursorVars, streamVars
<1>7. CASE CloseTask
  <2>1. LogType'
    BY <1>7, CloseTypes DEF CloseTask, LogType, userVars
  <2>2. Root \in Loops
    BY DEF Loops
  <2>3. phase' \in [Loops -> Phases]
    BY <1>7, <1>0, <2>2, GoTypes DEF CloseTask
  <2> QED BY <1>7, <2>1, <2>3 DEF CloseTask, LoopType, cursorVars, streamVars
<1>8. CASE Persist
  <2>1. LogType'
    BY <1>8 DEF Persist, LogType, taskVars, userVars
  <2>2. Root \in Loops
    BY DEF Loops
  <2>3. phase' \in [Loops -> Phases]
    BY <1>8, <1>0, <2>2, GoTypes DEF Persist
  <2>4. told' \in [Loops -> Seq(UpdateIds)]
    <3> DEFINE S == {u \in 1..accepted : \A i \in 1..Len(told[Root]) : told[Root][i] # u}
    <3>1. accepted \in Nat /\ S \in SUBSET (1..accepted) /\ S \subseteq UpdateIds
      BY BoundAssumption DEF LogType, UpdateIds
    <3>2. told' = [told EXCEPT ![Root] = @ \o Ordered(S)]
      BY <1>8 DEF Persist
    <3> HIDE DEF S
    <3>3. Ordered(S) \in Seq(S)
      BY <3>1, OrderedIs
    <3>4. Ordered(S) \in Seq(UpdateIds)
      BY <3>1, <3>3, SeqOfMore
    <3>5. told[Root] \o Ordered(S) \in Seq(UpdateIds)
      BY <2>2, <3>4 DEF LoopType
    <3> QED BY <3>2, <3>5 DEF LoopType
  <2> QED BY <1>8, <2>1, <2>3, <2>4 DEF Persist, LoopType, streamVars
<1>9. CASE UNCHANGED vars
  BY <1>9 DEF vars, restVars, LogType, LoopType, taskVars, userVars, cursorVars, streamVars
<1> QED BY <1>1, <1>2, <1>3, <1>4, <1>5, <1>6, <1>7, <1>8, <1>9 DEF Next, Finished

SameLoop(l) ==
  UNCHANGED <<phase[l], position[l], told[l], heard[l], reply[l], late[l], rounds[l], ending[l]>>

(* Where a loop goes, and that no other does. *)
LEMMA Goes ==
  ASSUME LoopType, NEW l \in Loops, NEW p, Go(l, p)
  PROVE  phase'[l] = p /\ \A k \in Loops \ {l} : phase'[k] = phase[k]
BY DEF LoopType, Go

LEMMA EndsSo ==
  ASSUME LoopType, NEW l \in Loops, NEW how, Ends(l, how)
  PROVE  /\ phase'[l] = (IF l = Root THEN "closing" ELSE "over") /\ ending'[l] = how
         /\ \A k \in Loops \ {l} : phase'[k] = phase[k] /\ ending'[k] = ending[k]
BY DEF LoopType, Ends, Go

LEMMA RaisesSo ==
  ASSUME LoopType, NEW l \in Loops, Raises(l)
  PROVE  \E how \in Endings : Ends(l, how)
BY DEF Raises, Endings

(* A step of a loop leaves the cursor and the stream of the others alone. *)
LEMMA LoopsApart ==
  ASSUME LoopType, NEW l \in Loops, LoopStep(l) \/ \E c \in Calls(l) : CallStep(l, c)
  PROVE  \A k \in Loops \ {l} : SameLoop(k)
<1> SUFFICES ASSUME NEW k \in Loops \ {l} PROVE SameLoop(k)
  OBVIOUS
<1>1. CASE LoopHead(l) \/ NoAnswer(l) \/ BeginBatch(l) \/ StreamRaises(l) \/ RefusalRaises(l)
           \/ FlushRaises(l) \/ RoundOver(l)
  <2>1. UNCHANGED restVars
    BY <1>1 DEF LoopHead, NoAnswer, BeginBatch, StreamRaises, RefusalRaises, FlushRaises, RoundOver
  <2>2. (\E how : Ends(l, how)) \/ (\E p : Go(l, p) /\ UNCHANGED ending)
    <3>1. CASE StreamRaises(l) \/ RefusalRaises(l) \/ FlushRaises(l)
      BY <3>1, RaisesSo DEF StreamRaises, RefusalRaises, FlushRaises
    <3>2. CASE LoopHead(l) \/ NoAnswer(l) \/ BeginBatch(l) \/ RoundOver(l)
      BY <3>2 DEF LoopHead, NoAnswer, BeginBatch, RoundOver
    <3> QED BY <1>1, <3>1, <3>2
  <2>3. phase'[k] = phase[k] /\ ending'[k] = ending[k]
    BY <2>2, EndsSo, Goes
  <2> QED BY <2>1, <2>3 DEF SameLoop, restVars, cursorVars, streamVars
<1>2. CASE RejectBatch(l) \/ RefuseBatch(l) \/ AcceptBatch(l) \/ Settle(l) \/ Serial(l)
           \/ SerialDone(l) \/ DispatchOver(l)
  <2>1. UNCHANGED restVars /\ UNCHANGED ending /\ \E p : Go(l, p)
    BY <1>2 DEF RejectBatch, RefuseBatch, AcceptBatch, Settle, Serial, SerialDone, DispatchOver
  <2>2. phase'[k] = phase[k]
    BY <2>1, Goes
  <2> QED BY <2>1, <2>2 DEF SameLoop, restVars, cursorVars, streamVars
<1>3. CASE Dispatch(l) \/ \E c \in Calls(l) : CallStep(l, c)
  BY <1>3 DEF Dispatch, CallStep, Claim, Admit, Return, ShellReturns, SameLoop, restVars,
              cursorVars, streamVars
<1>4. CASE Request(l)
  <2>1. position'[k] = position[k] /\ told'[k] = told[k]
    BY <1>4 DEF Request, AppendTo, LoopType
  <2>2. phase'[k] = phase[k]
    BY <1>4, Goes DEF Request
  <2> QED BY <1>4, <2>1, <2>2 DEF Request, SameLoop, LoopType
<1>5. CASE Receive(l)
  <2>1. phase'[k] = phase[k]
    BY <1>5, Goes DEF Receive
  <2>2. reply'[k] = reply[k] /\ late'[k] = late[k]
    BY <1>5 DEF Receive, LoopType
  <2> QED BY <1>5, <2>1, <2>2 DEF Receive, SameLoop, cursorVars
<1>6. CASE Answer(l)
  <2>1. phase'[k] = phase[k] /\ ending'[k] = ending[k]
    BY <1>6, Goes, EndsSo DEF Answer, Finish
  <2> QED BY <1>6, <2>1 DEF Answer, SameLoop, cursorVars, streamVars
<1>7. CASE Propose(l)
  <2>1. phase'[k] = phase[k]
    BY <1>7, Goes DEF Propose
  <2>2. rounds'[k] = rounds[k]
    BY <1>7 DEF Propose, LoopType
  <2> QED BY <1>7, <2>1, <2>2 DEF Propose, SameLoop, cursorVars
<1> QED BY <1>1, <1>2, <1>3, <1>4, <1>5, <1>6, <1>7 DEF LoopStep

(* Where a loop goes that starts or goes on with a request. *)
LEMMA WaitingPhases ==
  ASSUME LoopType, NEW l \in Loops, LoopStep(l), phase'[l] \in {"off", "stream", "received"}
  PROVE  Request(l) \/ Receive(l)
<1>1. ~LoopHead(l)
  BY Goes, EndsSo DEF LoopHead
<1>2. ~(StreamRaises(l) \/ RefusalRaises(l) \/ FlushRaises(l))
  BY RaisesSo, EndsSo DEF StreamRaises, RefusalRaises, FlushRaises
<1>3. ~(Answer(l) \/ NoAnswer(l) \/ BeginBatch(l) \/ RoundOver(l))
  BY Goes, EndsSo DEF Answer, Finish, NoAnswer, BeginBatch, RoundOver
<1>4. ~(Propose(l) \/ RejectBatch(l) \/ RefuseBatch(l) \/ AcceptBatch(l) \/ Settle(l)
        \/ SerialDone(l) \/ DispatchOver(l) \/ Serial(l))
  BY Goes DEF Propose, RejectBatch, RefuseBatch, AcceptBatch, Settle, SerialDone, DispatchOver, Serial
<1>5. ~Dispatch(l)
  BY DEF Dispatch, LoopType
<1> QED BY <1>1, <1>2, <1>3, <1>4, <1>5 DEF LoopStep

(* TInv is inductive. *)
LEMMA TypeStep == TInv /\ [Next]_vars => TInv'
<1> SUFFICES ASSUME TInv, [Next]_vars PROVE TInv'
  OBVIOUS
<1>0. LogType /\ LoopType /\ (\A l \in Loops : BlockType(l)) /\ Shape /\ FreshInv /\ RoomInv
  BY TypeParts DEF TInv
<1>1. LogType' /\ LoopType'
  BY <1>0, LoopTypes
<1>2. (Shape /\ FreshInv /\ RoomInv /\ \A l \in Loops : BlockType(l))'
  <2>1. CASE Submit \/ Stop \/ StopCloses \/ UNCHANGED vars
    <3>1. UNCHANGED <<blockVars, phase, reply, rounds>>
      BY <2>1 DEF Submit, Stop, StopCloses, vars, restVars, streamVars, blockVars
    <3> QED BY <1>0, <3>1 DEF blockVars, Shape, FreshInv, RoomInv, Fresh, BlockType, Calls
  <2>2. ASSUME NEW l \in Loops, LoopStep(l) \/ \E c \in Calls(l) : CallStep(l, c)
        PROVE  (Shape /\ FreshInv /\ RoomInv /\ \A k \in Loops : BlockType(k))'
    <3>1. Shape' /\ \A k \in Loops \ {l} : SameBlock(k) /\ SameLoop(k)
      BY <1>0, <2>2, BlocksApart, LoopsApart
    <3>2. BlockType(l)'
      BY <2>2, BlockTypes
    <3>3. \A k \in Loops : BlockType(k)'
      <4>1. ASSUME NEW k \in Loops \ {l} PROVE BlockType(k)'
        BY <1>0, <3>1, <4>1 DEF SameBlock, BlockType, Calls
      <4> QED BY <3>2, <4>1
    <3>4. FreshInv'
      <4>1. ASSUME NEW k \in Loops \ {l}, phase'[k] \in {"off", "stream", "received"}
            PROVE  Fresh(k)'
        BY <1>0, <3>1, <4>1 DEF SameBlock, SameLoop, FreshInv, Fresh
      <4>2. ASSUME phase'[l] \in {"off", "stream", "received"}
            PROVE  Fresh(l)'
        <5>1. CASE LoopStep(l)
          <6>1. Request(l) \/ Receive(l)
            BY <1>0, <4>2, <5>1, WaitingPhases
          <6>2. CASE Request(l)
            BY <6>2, RequestBlock DEF Fresh
          <6>3. CASE Receive(l)
            BY <1>0, <6>3 DEF Receive, FreshInv, Fresh, blockVars
          <6> QED BY <6>1, <6>2, <6>3
        <5>2. CASE \E c \in Calls(l) : CallStep(l, c)
          <6>1. phase'[l] = phase[l] /\ Calls(l) # {}
            BY <5>2 DEF CallStep, Claim, Admit, Return, ShellReturns
          <6>2. batch[l] = <<>>
            BY <1>0, <4>2, <6>1 DEF FreshInv, Fresh
          <6> QED BY <6>1, <6>2 DEF Calls
        <5> QED BY <2>2, <5>1, <5>2
      <4> QED BY <4>1, <4>2 DEF FreshInv
    <3>5. RoomInv'
      <4>1. ASSUME NEW k \in Loops \ {l}, phase'[k] = "received" /\ reply'[k] = "calls"
            PROVE  rounds'[k] < MaxRounds
        BY <1>0, <3>1, <4>1 DEF SameLoop, RoomInv
      <4>2. ASSUME phase'[l] = "received" /\ reply'[l] = "calls"
            PROVE  rounds'[l] < MaxRounds
        <5>1. CASE LoopStep(l)
          <6>1. Request(l) \/ Receive(l)
            BY <1>0, <4>2, <5>1, WaitingPhases
          <6>2. ~Request(l)
            BY <1>0, <4>2 DEF Request, LoopType
          <6> QED BY <1>0, <4>2, <6>1, <6>2 DEF Receive, LoopType
        <5>2. CASE \E c \in Calls(l) : CallStep(l, c)
          BY <1>0, <4>2, <5>2 DEF CallStep, Claim, Admit, Return, ShellReturns, RoomInv, restVars, streamVars
        <5> QED BY <2>2, <5>1, <5>2
      <4> QED BY <4>1, <4>2 DEF RoomInv
    <3> QED BY <3>1, <3>3, <3>4, <3>5
  <2>3. ASSUME NEW p, NEW k \in Loops, Go(k, p), p \notin {"off", "stream", "received"},
               UNCHANGED <<blockVars, streamVars>>
        PROVE  (Shape /\ FreshInv /\ RoomInv /\ \A l \in Loops : BlockType(l))'
    <3>1. \A l \in Loops : phase'[l] \in {"off", "stream", "received"} => phase'[l] = phase[l]
      BY <1>0, <2>3, Goes
    <3> QED BY <1>0, <2>3, <3>1 DEF blockVars, streamVars, Shape, FreshInv, RoomInv, Fresh, BlockType, Calls
  <2>4. ASSUME NEW k \in Children, ChildStarts(k)
        PROVE  (Shape /\ FreshInv /\ RoomInv /\ \A l \in Loops : BlockType(l))'
    BY <2>3, <2>4 DEF ChildStarts, restVars, Loops
  <2>5. CASE CloseTask \/ Persist
    BY <2>3, <2>5 DEF CloseTask, Persist, Loops
  <2>6. ASSUME NEW c \in Calls(Root), DelegateReturns(c)
        PROVE  (Shape /\ FreshInv /\ RoomInv /\ \A l \in Loops : BlockType(l))'
    <3>1. /\ UNCHANGED <<restVars, phase, ending, batch, began, flushed, log>>
          /\ call' = [call EXCEPT ![Root][c] = "real"]
      BY <2>6 DEF DelegateReturns, Becomes
    <3>2. Shape' /\ FreshInv' /\ RoomInv'
      BY <1>0, <3>1 DEF Shape, FreshInv, RoomInv, Fresh, restVars, streamVars
    <3>3. ASSUME NEW l \in Loops PROVE BlockType(l)'
      <4>1. call'[l] = call[l] \/ call'[l] = [call[l] EXCEPT ![c] = "real"]
        BY <1>0, <3>1 DEF Shape
      <4>2. call'[l] \in [Calls(l) -> InProgress \cup Resolved \cup {"new"}]
        BY <1>0, <4>1 DEF BlockType, Resolved
      <4> QED BY <1>0, <3>1, <4>2 DEF BlockType, Calls
    <3> QED BY <3>2, <3>3
  <2> QED BY <2>1, <2>2, <2>4, <2>5, <2>6 DEF Next, Finished
<1>3. TypeOK'
  BY <1>1, <1>2 DEF TypeOK, LogType, LoopType, Phases, BlockType, Says
<1> QED BY <1>2, <1>3 DEF TInv

LEMMA TypeInit == Init => TInv
<1> SUFFICES ASSUME Init PROVE TInv
  OBVIOUS
<1>1. LogType
  <2>1. PICK delivered \in 0..preceding :
          status = [u \in UpdateIds |-> CASE u <= delivered -> "in_context"
                                          [] u \in (delivered + 1)..preceding -> "not_delivered"
                                          [] OTHER -> "none"]
    BY DEF Init
  <2>2. ASSUME NEW u \in UpdateIds
        PROVE  /\ status[u] \in {"none", "pending", "in_context", "not_delivered"}
               /\ status[u] = "none" <=> u > preceding
    <3>1. status[u] = CASE u <= delivered -> "in_context"
                        [] u \in (delivered + 1)..preceding -> "not_delivered"
                        [] OTHER -> "none"
      BY <2>1
    <3>2. u \in Nat /\ delivered \in Nat /\ preceding \in Nat /\ delivered <= preceding
      BY BoundAssumption DEF Init, UpdateIds
    <3> QED BY <3>1, <3>2
  <2>3. status \in [UpdateIds -> {"none", "pending", "in_context", "not_delivered"}]
    BY <2>1, <2>2
  <2>4. accepted = preceding /\ preceding \in 0..MaxUpdates /\ accepted \in preceding..MaxUpdates
    BY BoundAssumption DEF Init
  <2>5. open \in BOOLEAN /\ cancel \in BOOLEAN /\ stopping \in BOOLEAN
    BY DEF Init
  <2> QED BY <2>2, <2>3, <2>4, <2>5 DEF LogType
<1>2. LoopType
  <2>1. phase \in [Loops -> Phases]
    BY DEF Init, Phases
  <2>2. position \in [Loops -> 0..MaxUpdates]
    BY <1>1, BoundAssumption DEF Init, LogType
  <2>3. told \in [Loops -> Seq(UpdateIds)]
    <3>1. [u \in 1..preceding |-> u] \in Seq(UpdateIds)
      BY <1>1, BoundAssumption DEF LogType, UpdateIds
    <3>2. <<>> \in Seq(UpdateIds)
      OBVIOUS
    <3> QED BY <3>1, <3>2 DEF Init
  <2> QED BY <2>1, <2>2, <2>3, BoundAssumption DEF Init, LoopType
<1>3. \A l \in Loops : BlockType(l) /\ Fresh(l)
  <2> SUFFICES ASSUME NEW l \in Loops PROVE BlockType(l) /\ Fresh(l)
    OBVIOUS
  <2>1. /\ batch[l] = <<>> /\ call[l] = <<>> /\ began[l] = <<>> /\ flushed[l] = 0
        /\ log[l] = <<>> /\ Calls(l) = {}
    BY DEF Init, Calls
  <2> QED BY <2>1 DEF BlockType, Fresh
<1>4. Shape /\ RoomInv
  BY DEF Init, Shape, RoomInv
<1> QED BY <1>1, <1>2, <1>3, <1>4, TypeParts DEF TInv, FreshInv

(* Every state has the types the model declares. *)
THEOREM TypeCorrect == Spec => []TypeOK
<1>1. Spec => []TInv
  BY TypeInit, TypeStep, PTL DEF Spec
<1>2. TInv => TypeOK
  BY DEF TInv
<1> QED BY <1>1, <1>2, PTL

-----------------------------------------------------------------------------
(* The corrections.                                                        *)

Ended == {"closing", "persist", "over"}
Rounding == {"dispatch", "settle", "serial", "drain"}

(* Where a loop has heard what it was told. *)
Informed == {"stream", "received", "preflight", "accepted"} \cup Rounding

(* The history of a loop is the first corrections, up to its cursor. *)
Cursor(l) ==
  /\ position[l] <= accepted
  /\ l # Root \/ phase[l] # "over" => told[l] = [u \in 1..position[l] |-> u]
  /\ heard[l] = 1..position[l] \/ (heard[l] = {} /\ position[l] <= preceding)
  /\ phase[l] \in Informed => heard[l] = 1..position[l]

(* The loop received an answer in time that had every correction. *)
AnswerStood(l) == reply[l] = "answer" /\ ~late[l] /\ 1..accepted \subseteq heard[l]

(* What was received, and that an answer that had everything is not cancelled. *)
Replied(l) ==
  /\ phase[l] \in {"preflight", "accepted"} \cup Rounding => reply[l] = "calls"
  /\ phase[l] = "head" /\ reply[l] = "answer" => Pending(l)
  /\ phase[l] = "off" => reply[l] = "none"
  /\ ending[l] = "cancelled" => ~AnswerStood(l)

(* A loop has an ending exactly when it is over. *)
Stage(l) ==
  /\ ending[l] # "none" <=> phase[l] \in Ended
  /\ l # Root => phase[l] \notin {"closing", "persist"}

(* A task that is over, or completed, accepts no correction. *)
Closed ==
  /\ phase[Root] # "off"
  /\ phase[Root] \in {"persist", "over"} =>
       ~open /\ \A u \in 1..accepted : status[u] # "pending"
  /\ ending[Root] = "completed" => ~open

SInv ==
  /\ Closed /\ SteeringHeeded
  /\ \A l \in Loops : Cursor(l) /\ Replied(l) /\ Stage(l)

(* What a loop does to the rest of the task. *)
LEMMA LoopFrame ==
  ASSUME NEW l \in Loops, LoopStep(l) \/ \E c \in Calls(l) : CallStep(l, c)
  PROVE  /\ UNCHANGED <<preceding, accepted, cancel, stopping>>
         /\ Answer(l) \/ open' = open
         /\ Request(l) \/ UNCHANGED <<status, position, told, heard>>
         /\ Request(l) \/ Receive(l) \/ UNCHANGED <<reply, late>>
<1>1. CASE LoopHead(l) \/ StreamRaises(l) \/ NoAnswer(l) \/ RejectBatch(l) \/ RefuseBatch(l)
           \/ RefusalRaises(l) \/ AcceptBatch(l) \/ BeginBatch(l) \/ Dispatch(l) \/ Settle(l)
           \/ Serial(l) \/ SerialDone(l) \/ DispatchOver(l) \/ RoundOver(l) \/ FlushRaises(l)
           \/ \E c \in Calls(l) : CallStep(l, c)
  <2>1. UNCHANGED restVars
    BY <1>1 DEF LoopHead, StreamRaises, NoAnswer, RejectBatch, RefuseBatch, RefusalRaises,
                AcceptBatch, BeginBatch, Dispatch, Settle, Serial, SerialDone, DispatchOver,
                RoundOver, FlushRaises, CallStep, Claim, Admit, Return, ShellReturns
  <2> QED BY <2>1 DEF restVars, taskVars, userVars, cursorVars, streamVars
<1>2. CASE Request(l)
  BY <1>2 DEF Request, AppendTo, taskVars, userVars
<1>3. CASE Receive(l)
  BY <1>3 DEF Receive, taskVars, userVars, cursorVars
<1>4. CASE Answer(l)
  BY <1>4 DEF Answer, Finish, taskVars, userVars, cursorVars, streamVars
<1>5. CASE Propose(l)
  BY <1>5 DEF Propose, taskVars, userVars, cursorVars
<1> QED BY <1>1, <1>2, <1>3, <1>4, <1>5 DEF LoopStep

(* A loop that takes a step is at work, and stays so or ends. *)
LEMMA LoopMoves ==
  ASSUME LoopType, NEW l \in Loops, LoopStep(l)
  PROVE  /\ phase[l] \notin Ended \cup {"off"}
         /\ \/ phase'[l] \notin Ended \cup {"off"} /\ ending'[l] = ending[l]
            \/ \E how \in Endings : Ends(l, how)
<1> USE DEF Ended
<1>1. CASE LoopHead(l) \/ NoAnswer(l) \/ BeginBatch(l) \/ RoundOver(l)
  BY <1>1, Goes DEF LoopHead, NoAnswer, BeginBatch, RoundOver, Endings
<1>2. CASE StreamRaises(l) \/ RefusalRaises(l) \/ FlushRaises(l)
  BY <1>2, RaisesSo DEF StreamRaises, RefusalRaises, FlushRaises
<1>3. CASE RejectBatch(l) \/ RefuseBatch(l) \/ AcceptBatch(l) \/ Settle(l) \/ Serial(l)
           \/ SerialDone(l) \/ DispatchOver(l)
  BY <1>3, Goes DEF RejectBatch, RefuseBatch, AcceptBatch, Settle, Serial, SerialDone, DispatchOver
<1>4. CASE Dispatch(l)
  BY <1>4 DEF Dispatch
<1>5. CASE Request(l) \/ Receive(l) \/ Propose(l)
  BY <1>5, Goes DEF Request, Receive, Propose
<1>6. CASE Answer(l)
  BY <1>6, Goes DEF Answer, Finish, Endings
<1> QED BY <1>1, <1>2, <1>3, <1>4, <1>5, <1>6 DEF LoopStep

(* A loop is past its request only by one. *)
LEMMA InformedPhases ==
  ASSUME LoopType, NEW l \in Loops, LoopStep(l), phase'[l] \in Informed
  PROVE  Request(l) \/ phase[l] \in Informed
<1> USE DEF Informed, Rounding
<1>1. ~LoopHead(l)
  BY Goes, EndsSo DEF LoopHead
<1> QED BY <1>1 DEF LoopStep, Receive, StreamRaises, Answer, NoAnswer, Propose, RejectBatch,
             RefuseBatch, RefusalRaises, AcceptBatch, BeginBatch, Dispatch, Settle, Serial,
             SerialDone, DispatchOver, RoundOver, FlushRaises

(* A call is only in progress while its round is under way. *)
BusyInv == \A l \in Loops : Busy(l) => phase[l] \in Rounding

(* A call is in progress only while its loop is in a round. *)
LEMMA BusyStep == TInv /\ BusyInv /\ [Next]_vars => BusyInv'
<1> SUFFICES ASSUME TInv, BusyInv, [Next]_vars, NEW l \in Loops, Busy(l)'
             PROVE  phase'[l] \in Rounding
  BY DEF BusyInv
<1>0. LogType /\ LoopType /\ Shape /\ BlockType(l) /\ Calls(l) = 1..Len(batch[l])
  BY TypeParts, BlockTyped DEF TInv
<1>a. PICK c \in Calls(l)' : call'[l][c] \in InProgress
  BY DEF Busy
<1>1. ASSUME UNCHANGED <<batch[l], call[l], phase[l]>>
      PROVE  phase'[l] \in Rounding
  BY <1>1 DEF BusyInv, Busy, Calls
<1>2. ASSUME NEW k \in Loops, LoopStep(k)
      PROVE  phase'[l] \in Rounding
  <2>1. CASE k # l
    BY <1>0, <1>1, <1>2, <2>1, BlocksApart, LoopsApart DEF SameBlock, SameLoop
  <2>2. CASE k = l
    <3>1. CASE Request(l)
      BY <3>1, <1>a, RequestBlock
    <3>2. CASE Propose(l)
      BY <3>2, <1>0, <1>a DEF Propose, Shape, Calls, InProgress
    <3>3. CASE AcceptBatch(l)
      BY <3>3, <1>0, <1>a DEF AcceptBatch, Shape, Calls, InProgress
    <3>4. CASE Dispatch(l)
      BY <3>4 DEF Dispatch, Rounding
    <3>5. CASE Settle(l) \/ Serial(l) \/ SerialDone(l) \/ DispatchOver(l)
      BY <3>5, <1>0, Goes DEF Settle, Serial, SerialDone, DispatchOver, Rounding
    <3>6. CASE RoundOver(l) \/ FlushRaises(l)
      BY <3>6, <1>a DEF RoundOver, FlushRaises, Busy, Calls
    <3>7. CASE LoopHead(l) \/ Receive(l) \/ StreamRaises(l) \/ Answer(l) \/ NoAnswer(l)
               \/ RejectBatch(l) \/ RefuseBatch(l) \/ RefusalRaises(l) \/ BeginBatch(l)
      <4>1. UNCHANGED <<batch, call>>
        BY <3>7 DEF LoopHead, Receive, StreamRaises, Answer, NoAnswer, RejectBatch, RefuseBatch,
                    RefusalRaises, BeginBatch, blockVars
      <4>2. phase[l] \notin Rounding
        BY <3>7 DEF LoopHead, Receive, StreamRaises, Answer, NoAnswer, RejectBatch, RefuseBatch,
                    RefusalRaises, BeginBatch, Rounding
      <4> QED BY <4>1, <4>2, <1>a DEF BusyInv, Busy, Calls
    <3> QED BY <1>2, <2>2, <3>1, <3>2, <3>3, <3>4, <3>5, <3>6, <3>7 DEF LoopStep
  <2> QED BY <2>1, <2>2
<1>3. ASSUME NEW k \in Loops, NEW d \in Calls(k), CallStep(k, d)
      PROVE  phase'[l] \in Rounding
  <2>1. CASE k # l
    BY <1>0, <1>1, <1>3, <2>1, BlocksApart, LoopsApart DEF SameBlock, SameLoop
  <2>2. CASE k = l
    <3>1. call[l][d] \in InProgress /\ phase' = phase
      BY <1>3, <2>2 DEF CallStep, Claim, Admit, Return, ShellReturns, InProgress
    <3> QED BY <2>2, <3>1 DEF BusyInv, Busy
  <2> QED BY <2>1, <2>2
<1>4. ASSUME NEW d \in Calls(Root), DelegateReturns(d)
      PROVE  phase'[l] \in Rounding
  <2>1. CASE l # Root
    BY <1>0, <1>1, <1>4, <2>1 DEF DelegateReturns, Becomes, Shape
  <2>2. CASE l = Root
    BY <1>4, <2>2 DEF DelegateReturns, BusyInv, Busy, InProgress
  <2> QED BY <2>1, <2>2
<1>5. ASSUME NEW k \in Children, ChildStarts(k)
      PROVE  phase'[l] \in Rounding
  <2>1. k \in Loops /\ Go(k, "head") /\ phase[k] = "off" /\ UNCHANGED blockVars
    BY <1>5 DEF ChildStarts, Loops
  <2>2. Busy(l)
    BY <2>1, <1>a DEF blockVars, Busy, Calls
  <2> QED BY <1>0, <2>1, <2>2, Goes DEF BusyInv, Rounding
<1>6. CASE CloseTask \/ Persist
  <2>1. Root \in Loops /\ (\E q : Go(Root, q)) /\ phase[Root] \in {"closing", "persist"}
        /\ UNCHANGED blockVars
    BY <1>6 DEF CloseTask, Persist, Loops
  <2>2. Busy(l)
    BY <2>1, <1>a DEF blockVars, Busy, Calls
  <2> QED BY <1>0, <2>1, <2>2, Goes DEF BusyInv, Rounding
<1>7. CASE Submit \/ Stop \/ StopCloses \/ UNCHANGED vars
  BY <1>1, <1>7 DEF Submit, Stop, StopCloses, vars, blockVars
<1> QED BY <1>2, <1>3, <1>4, <1>5, <1>6, <1>7 DEF Next, Finished

(* The log only grows and a closed one stays as it is; Stop is for good. *)
LEMMA TaskFrame ==
  ASSUME LogType, LoopType, [Next]_vars
  PROVE  /\ preceding' = preceding /\ accepted' \in {accepted, accepted + 1}
         /\ accepted \in Nat /\ preceding \in Nat /\ accepted' >= accepted
         /\ ~open => ~open' /\ accepted' = accepted
         /\ cancel => cancel'
<1>0. accepted \in Nat /\ preceding \in Nat
  BY BoundAssumption DEF LogType
<1>1. CASE Submit \/ Stop \/ StopCloses \/ UNCHANGED vars \/ CloseTask \/ Persist
           \/ (\E k \in Children : ChildStarts(k)) \/ \E c \in Calls(Root) : DelegateReturns(c)
  BY <1>0, <1>1 DEF Submit, Stop, StopCloses, Close, CloseTask, Persist, ChildStarts, DelegateReturns,
                    vars, restVars, taskVars, userVars
<1>2. ASSUME NEW l \in Loops, LoopStep(l) \/ \E c \in Calls(l) : CallStep(l, c)
      PROVE  UNCHANGED <<preceding, accepted, cancel>> /\ (~open => ~open')
  <2>1. UNCHANGED <<preceding, accepted, cancel>> /\ (Answer(l) \/ open' = open)
    BY <1>2, LoopFrame
  <2>2. Answer(l) => (~open => ~open')
    BY DEF Answer, Finish, taskVars
  <2> QED BY <2>1, <2>2
<1> QED BY <1>0, <1>1, <1>2 DEF Next, Finished

(* A cursor and its history stand as long as neither is touched. *)
LEMMA CursorKept ==
  ASSUME NEW l \in Loops, Cursor(l), LogType, LoopType,
         UNCHANGED <<position[l], told[l], heard[l], preceding>>,
         accepted' >= accepted, accepted' \in Nat,
         phase'[l] \in Informed => phase[l] \in Informed,
         l = Root /\ phase'[l] # "over" => phase[l] # "over"
  PROVE  Cursor(l)'
<1>1. accepted \in Nat /\ position[l] \in Nat
  BY BoundAssumption DEF LogType, LoopType
<1> QED BY <1>1 DEF Cursor

(* Whatever a loop was told before, a request tells all it was told. *)
LEMMA RequestTells ==
  ASSUME LogType, LoopType, NEW l \in Loops, Cursor(l), Request(l)
  PROVE  /\ position'[l] = (IF open THEN accepted ELSE position[l])
         /\ told'[l] = [u \in 1..position'[l] |-> u]
         /\ heard'[l] = 1..position'[l]
         /\ \A k \in Loops \ {l} : heard'[k] = heard[k]
         /\ accepted' = accepted /\ preceding' = preceding /\ open' = open
         /\ status' = IF open THEN [u \in UpdateIds |-> IF u <= accepted THEN "in_context" ELSE status[u]]
                      ELSE status
<1>0. /\ accepted \in Nat /\ position[l] \in Nat /\ position[l] <= accepted
      /\ told[l] = [u \in 1..position[l] |-> u]
  BY BoundAssumption DEF LogType, LoopType, Cursor, Request
<1>1. AppendTo(l) /\ heard' = [heard EXCEPT ![l] = {told'[l][i] : i \in 1..Len(told'[l])}]
  BY DEF Request
<1>2. /\ position'[l] = (IF open THEN accepted ELSE position[l])
      /\ told'[l] = IF open THEN told[l] \o Unseen(l) ELSE told[l]
      /\ accepted' = accepted /\ preceding' = preceding /\ open' = open
      /\ status' = IF open THEN [u \in UpdateIds |-> IF u <= accepted THEN "in_context" ELSE status[u]]
                   ELSE status
  BY <1>1 DEF AppendTo, LoopType, taskVars
<1>3. told[l] \o Unseen(l) = [u \in 1..accepted |-> u]
  <2>1. position[l] \in Nat /\ accepted \in Nat /\ position[l] <= accepted
    BY <1>0
  <2>2. [u \in 1..position[l] |-> u] \o [i \in 1..(accepted - position[l]) |-> position[l] + i]
          = [u \in 1..accepted |-> u]
    BY ONLY <2>1, Continued
  <2>3. Unseen(l) = [i \in 1..(accepted - position[l]) |-> position[l] + i]
    BY DEF Unseen
  <2>4. told[l] = [u \in 1..position[l] |-> u]
    BY <1>0
  <2> QED BY ONLY <2>2, <2>3, <2>4
<1>4. told'[l] = [u \in 1..position'[l] |-> u] /\ position'[l] \in Nat
  BY <1>0, <1>2, <1>3
<1>5. {told'[l][i] : i \in 1..Len(told'[l])} = 1..position'[l]
  <2>1. Len(told'[l]) = position'[l] /\ \A i \in 1..position'[l] : told'[l][i] = i
    BY <1>4
  <2> QED BY <2>1
<1>6. heard'[l] = 1..position'[l] /\ \A k \in Loops \ {l} : heard'[k] = heard[k]
  BY <1>1, <1>5 DEF LoopType
<1> QED BY <1>2, <1>4, <1>6

(* A loop that is over stays so. *)
LEMMA StageStep ==
  ASSUME TInv, SInv, [Next]_vars
  PROVE  \A l \in Loops : Stage(l)'
<1> SUFFICES ASSUME NEW l \in Loops PROVE Stage(l)'
  OBVIOUS
<1>0. LogType /\ LoopType /\ Stage(l)
  BY TypeParts DEF TInv, SInv
<1>1. ASSUME UNCHANGED <<phase[l], ending[l]>> PROVE Stage(l)'
  BY <1>0, <1>1 DEF Stage
<1>2. ASSUME NEW k \in Loops, LoopStep(k) PROVE Stage(l)'
  <2>1. CASE k # l
    BY <1>0, <1>1, <1>2, <2>1, LoopsApart DEF SameLoop
  <2>2. CASE k = l
    <3>1. phase[l] \notin Ended \cup {"off"}
          /\ \/ phase'[l] \notin Ended \cup {"off"} /\ ending'[l] = ending[l]
             \/ \E how \in Endings : Ends(l, how)
      BY <1>0, <1>2, <2>2, LoopMoves
    <3>2. CASE phase'[l] \notin Ended \cup {"off"} /\ ending'[l] = ending[l]
      BY <1>0, <3>1, <3>2 DEF Stage, Ended
    <3>3. ASSUME NEW how \in Endings, Ends(l, how) PROVE Stage(l)'
      BY <1>0, <3>3, EndsSo DEF Stage, Ended, Endings
    <3> QED BY <3>1, <3>2, <3>3
  <2> QED BY <2>1, <2>2
<1>3. ASSUME NEW k \in Loops, NEW d \in Calls(k), CallStep(k, d) PROVE Stage(l)'
  BY <1>1, <1>3 DEF CallStep, Claim, Admit, Return, ShellReturns
<1>4. ASSUME NEW d \in Calls(Root), DelegateReturns(d) PROVE Stage(l)'
  BY <1>1, <1>4 DEF DelegateReturns
<1>5. ASSUME NEW k \in Children, ChildStarts(k) PROVE Stage(l)'
  <2>1. k \in Loops /\ Go(k, "head") /\ phase[k] = "off" /\ ending' = ending
    BY <1>5 DEF ChildStarts, Loops
  <2> QED BY <1>0, <2>1, Goes DEF Stage, Ended
<1>6. CASE CloseTask \/ Persist
  <2>1. Root \in Loops /\ (Go(Root, "persist") \/ Go(Root, "over"))
        /\ phase[Root] \in {"closing", "persist"} /\ ending' = ending
    BY <1>6 DEF CloseTask, Persist, Loops
  <2> QED BY <1>0, <2>1, Goes DEF Stage, Ended
<1>7. CASE Submit \/ Stop \/ StopCloses \/ UNCHANGED vars
  BY <1>1, <1>7 DEF Submit, Stop, StopCloses, vars
<1> QED BY <1>2, <1>3, <1>4, <1>5, <1>6, <1>7 DEF Next, Finished

(* Every step keeps the cursors. *)
LEMMA CursorStep ==
  ASSUME TInv, SInv, [Next]_vars
  PROVE  \A l \in Loops : Cursor(l)'
<1> SUFFICES ASSUME NEW l \in Loops PROVE Cursor(l)'
  OBVIOUS
<1>0. LogType /\ LoopType /\ Cursor(l)
  BY TypeParts DEF TInv, SInv
<1>a. preceding' = preceding /\ accepted' >= accepted /\ accepted' \in Nat
  BY <1>0, TaskFrame
<1>1. ASSUME UNCHANGED <<phase[l], position[l], told[l], heard[l]>> PROVE Cursor(l)'
  BY <1>0, <1>a, <1>1, CursorKept
<1>2. ASSUME NEW k \in Loops, LoopStep(k) PROVE Cursor(l)'
  <2>1. CASE k # l
    BY <1>0, <1>1, <1>2, <2>1, LoopsApart DEF SameLoop
  <2>2. CASE k = l
    <3>1. CASE Request(l)
      <4>1. /\ position'[l] = (IF open THEN accepted ELSE position[l])
            /\ told'[l] = [u \in 1..position'[l] |-> u]
            /\ heard'[l] = 1..position'[l] /\ accepted' = accepted
        BY <1>0, <3>1, RequestTells
      <4>2. position[l] <= accepted /\ accepted \in Nat
        BY <1>0, BoundAssumption DEF Cursor, LogType
      <4> QED BY <4>1, <4>2 DEF Cursor
    <3>2. CASE ~Request(l)
      <4>1. UNCHANGED <<position, told, heard>>
        BY <1>2, <2>2, <3>2, LoopFrame
      <4>2. phase'[l] \in Informed => phase[l] \in Informed
        BY <1>0, <1>2, <2>2, <3>2, InformedPhases
      <4>3. phase[l] # "over"
        BY <1>0, <1>2, <2>2, LoopMoves DEF Ended
      <4> QED BY <1>0, <1>a, <4>1, <4>2, <4>3, CursorKept
    <3> QED BY <3>1, <3>2
  <2> QED BY <2>1, <2>2
<1>3. ASSUME NEW k \in Loops, NEW d \in Calls(k), CallStep(k, d) PROVE Cursor(l)'
  BY <1>1, <1>3 DEF CallStep, Claim, Admit, Return, ShellReturns, restVars, cursorVars
<1>4. ASSUME NEW d \in Calls(Root), DelegateReturns(d) PROVE Cursor(l)'
  BY <1>1, <1>4 DEF DelegateReturns, restVars, cursorVars
<1>5. ASSUME NEW k \in Children, ChildStarts(k) PROVE Cursor(l)'
  <2>1. k \in Loops /\ Go(k, "head") /\ phase[k] = "off" /\ UNCHANGED <<position, told, heard>>
    BY <1>5 DEF ChildStarts, Loops, restVars, cursorVars
  <2>2. phase'[l] \in Informed \/ phase'[l] # "over" => phase'[l] = phase[l] \/ (k = l /\ phase'[l] = "head")
    BY <1>0, <2>1, Goes
  <2>3. k = l => phase[l] # "over"
    BY <2>1
  <2> QED BY <1>0, <1>a, <2>1, <2>2, <2>3, CursorKept DEF Informed, Rounding
<1>6. CASE CloseTask
  <2>1. Root \in Loops /\ Go(Root, "persist") /\ phase[Root] = "closing" /\ UNCHANGED <<position, told, heard>>
    BY <1>6 DEF CloseTask, Loops, cursorVars
  <2>2. phase'[l] = phase[l] \/ (l = Root /\ phase[l] = "closing" /\ phase'[l] = "persist")
    BY <1>0, <2>1, Goes
  <2> QED BY <1>0, <1>a, <2>1, <2>2, CursorKept DEF Informed, Rounding
<1>7. CASE Persist
  <2>1. Root \in Loops /\ Go(Root, "over") /\ UNCHANGED <<position, heard>>
    BY <1>7 DEF Persist, Loops
  <2>2. l # Root => phase'[l] = phase[l] /\ told'[l] = told[l]
    BY <1>0, <1>7, <2>1, Goes DEF Persist, LoopType
  <2>3. CASE l # Root
    BY <1>1, <2>1, <2>2, <2>3
  <2>4. CASE l = Root
    <3>1. phase'[l] = "over"
      BY <1>0, <2>1, <2>4, Goes
    <3>2. accepted \in Nat /\ position[l] \in Nat /\ preceding \in Nat
      BY <1>0, BoundAssumption DEF LogType, LoopType
    <3> QED BY <1>0, <1>a, <2>1, <2>4, <3>1, <3>2 DEF Cursor, Informed, Rounding
  <2> QED BY <2>3, <2>4
<1>8. CASE Submit \/ Stop \/ StopCloses \/ UNCHANGED vars
  BY <1>1, <1>8 DEF Submit, Stop, StopCloses, vars, restVars, cursorVars
<1> QED BY <1>2, <1>3, <1>4, <1>5, <1>6, <1>7, <1>8 DEF Next, Finished

(* A loop that is behind does not have every correction. *)
LEMMA Behind ==
  ASSUME LogType, LoopType, NEW l \in Loops, Cursor(l), Pending(l)
  PROVE  ~AnswerStood(l)
<1>1. accepted \in Nat /\ position[l] \in Nat /\ position[l] < accepted
  BY BoundAssumption DEF LogType, LoopType, Pending
<1>2. accepted \in 1..accepted /\ accepted \notin heard[l]
  BY <1>1 DEF Cursor
<1> QED BY <1>2 DEF AnswerStood

(* Every step keeps what was received and what was made of it. *)
LEMMA RepliedStep ==
  ASSUME TInv, SInv, [Next]_vars
  PROVE  \A l \in Loops : Replied(l)'
<1> SUFFICES ASSUME NEW l \in Loops PROVE Replied(l)'
  OBVIOUS
<1>0. LogType /\ LoopType /\ Cursor(l) /\ Replied(l) /\ Stage(l)
  BY TypeParts DEF TInv, SInv
<1>a. accepted' >= accepted /\ accepted' \in Nat /\ accepted \in Nat /\ position[l] \in Nat
  BY <1>0, TaskFrame DEF LoopType
<1>b. ASSUME UNCHANGED <<reply[l], late[l], heard[l]>>, AnswerStood(l)' PROVE AnswerStood(l)
  <2>1. 1..accepted \subseteq 1..accepted'
    BY <1>a
  <2> QED BY <1>b, <2>1 DEF AnswerStood
<1>1. ASSUME UNCHANGED <<reply[l], late[l], heard[l], position[l], ending[l]>>,
             phase'[l] = phase[l] \/ phase'[l] \notin {"head", "preflight", "accepted"} \cup Rounding \cup {"off"}
                \/ (phase[l] = "off" /\ phase'[l] = "head")
      PROVE  Replied(l)'
  <2>4. phase'[l] = "off" => reply'[l] = "none"
    BY <1>0, <1>1 DEF Replied
  <2>1. phase'[l] \in {"preflight", "accepted"} \cup Rounding => reply'[l] = "calls"
    BY <1>0, <1>1 DEF Replied, Rounding
  <2>2. phase'[l] = "head" /\ reply'[l] = "answer" => Pending(l)'
    BY <1>0, <1>1, <1>a DEF Replied, Pending
  <2>3. ending'[l] = "cancelled" => ~AnswerStood(l)'
    BY <1>0, <1>1, <1>b DEF Replied
  <2> QED BY <2>1, <2>2, <2>3, <2>4 DEF Replied
<1>2. ASSUME NEW k \in Loops, LoopStep(k) PROVE Replied(l)'
  <2>1. CASE k # l
    BY <1>0, <1>1, <1>2, <2>1, LoopsApart DEF SameLoop
  <2>2. CASE k = l
    <3> USE <2>2
    <3>0. /\ phase[l] \notin Ended \cup {"off"} /\ ending[l] = "none"
          /\ \/ phase'[l] \notin Ended \cup {"off"} /\ ending'[l] = ending[l]
             \/ \E how \in Endings : Ends(l, how)
      BY <1>0, <1>2, LoopMoves DEF Stage
    <3>1. CASE Request(l) \/ Receive(l)
      <4>1. phase'[l] \in {"stream", "received"} /\ ending'[l] = "none"
        BY <1>0, <3>0, <3>1, Goes DEF Request, Receive
      <4> QED BY <4>1 DEF Replied, Rounding
    <3>2. CASE ~(Request(l) \/ Receive(l))
      <4>0. UNCHANGED <<reply, late, heard, position, accepted>>
        BY <1>2, <3>2, LoopFrame
      <4>1. phase'[l] \in {"preflight", "accepted"} \cup Rounding => reply[l] = "calls"
        <5> HAVE phase'[l] \in {"preflight", "accepted"} \cup Rounding
        <5>1. ~LoopHead(l) /\ ~Answer(l)
          BY <1>0, Goes, EndsSo DEF LoopHead, Answer, Finish, Rounding
        <5>2. ~(NoAnswer(l) \/ StreamRaises(l) \/ RejectBatch(l) \/ RefuseBatch(l) \/ RefusalRaises(l))
          BY <1>0, Goes, EndsSo, RaisesSo DEF NoAnswer, StreamRaises, RejectBatch, RefuseBatch,
                                              RefusalRaises, Rounding
        <5>3. Propose(l) \/ phase[l] \in {"preflight", "accepted"} \cup Rounding
          BY <1>2, <3>2, <5>1, <5>2 DEF LoopStep, AcceptBatch, BeginBatch, Dispatch, Settle, Serial,
               SerialDone, DispatchOver, RoundOver, FlushRaises, Rounding
        <5> QED BY <1>0, <5>3 DEF Propose, Replied
      <4>2. phase'[l] = "head" /\ reply[l] = "answer" => Pending(l)
        <5> HAVE phase'[l] = "head" /\ reply[l] = "answer"
        <5>1. phase[l] \notin {"preflight", "accepted"} \cup Rounding
          BY <1>0 DEF Replied
        <5>2. ~(LoopHead(l) \/ NoAnswer(l) \/ StreamRaises(l) \/ Propose(l))
          BY <1>0, Goes, EndsSo, RaisesSo DEF LoopHead, NoAnswer, StreamRaises, Propose
        <5>3. Answer(l)
          BY <1>2, <3>2, <5>1, <5>2 DEF LoopStep, RejectBatch, RefuseBatch, RefusalRaises,
               AcceptBatch, BeginBatch, Dispatch, Settle, Serial, SerialDone, DispatchOver,
               RoundOver, FlushRaises, Rounding
        <5> QED BY <1>0, <5>3, EndsSo DEF Answer, Finish
      <4>3. ending'[l] = "cancelled" => ~AnswerStood(l)
        <5> HAVE ending'[l] = "cancelled"
        <5>1. CASE phase[l] \in {"preflight", "accepted"} \cup Rounding
          BY <1>0, <5>1 DEF Replied, AnswerStood
        <5>2. CASE LoopHead(l)
          BY <1>0, <5>2, Behind DEF LoopHead, Replied, AnswerStood
        <5>3. CASE NoAnswer(l)
          BY <1>0, <5>3, EndsSo DEF NoAnswer, AnswerStood
        <5>4. CASE StreamRaises(l)
          <6>1. reply[l] # "answer" \/ late[l] \/ Pending(l)
            BY <1>0, <5>4, EndsSo DEF StreamRaises, Raises
          <6> QED BY <1>0, <6>1, Behind DEF AnswerStood
        <5>5. ~(Answer(l) \/ Propose(l))
          BY <1>0, <3>0, EndsSo DEF Answer, Finish, Propose
        <5> QED BY <1>2, <3>2, <5>1, <5>2, <5>3, <5>4, <5>5 DEF LoopStep, RejectBatch, RefuseBatch,
               RefusalRaises, AcceptBatch, BeginBatch, Dispatch, Settle, Serial, SerialDone,
               DispatchOver, RoundOver, FlushRaises, Rounding
      <4>4. phase'[l] # "off"
        BY <1>0, <3>0, EndsSo
      <4> QED BY <4>0, <4>1, <4>2, <4>3, <4>4 DEF Replied, Pending, AnswerStood
    <3> QED BY <3>1, <3>2
  <2> QED BY <2>1, <2>2
<1>3. ASSUME NEW k \in Loops, NEW d \in Calls(k), CallStep(k, d) PROVE Replied(l)'
  BY <1>1, <1>3 DEF CallStep, Claim, Admit, Return, ShellReturns, restVars, cursorVars, streamVars
<1>4. ASSUME NEW d \in Calls(Root), DelegateReturns(d) PROVE Replied(l)'
  BY <1>1, <1>4 DEF DelegateReturns, restVars, cursorVars, streamVars
<1>5. ASSUME NEW k \in Children, ChildStarts(k) PROVE Replied(l)'
  <2>1. k \in Loops /\ Go(k, "head") /\ phase[k] = "off" /\ UNCHANGED <<restVars, ending>>
    BY <1>5 DEF ChildStarts, Loops
  <2>2. phase'[l] = phase[l] \/ (phase[l] = "off" /\ phase'[l] = "head")
    BY <1>0, <2>1, Goes
  <2> QED BY <1>1, <2>1, <2>2 DEF restVars, cursorVars, streamVars
<1>6. CASE CloseTask \/ Persist
  <2>1. Root \in Loops /\ (Go(Root, "persist") \/ Go(Root, "over"))
        /\ UNCHANGED <<position, heard, ending, reply, late>>
    BY <1>6 DEF CloseTask, Persist, Loops, cursorVars, streamVars
  <2>2. phase'[l] = phase[l] \/ phase'[l] \in {"persist", "over"}
    BY <1>0, <2>1, Goes
  <2> QED BY <1>1, <2>1, <2>2 DEF Rounding
<1>7. CASE Submit \/ Stop \/ StopCloses \/ UNCHANGED vars
  BY <1>1, <1>7 DEF Submit, Stop, StopCloses, vars, restVars, cursorVars, streamVars
<1> QED BY <1>2, <1>3, <1>4, <1>5, <1>6, <1>7 DEF Next, Finished

(* The log is closed behind a completed root and at the end of the task. *)
LEMMA ClosedStep ==
  ASSUME TInv, SInv, [Next]_vars
  PROVE  Closed'
<1>0. LogType /\ LoopType /\ Closed /\ Root \in Loops /\ Cursor(Root) /\ Stage(Root)
  BY TypeParts DEF TInv, SInv, Loops
<1>a. (~open => ~open' /\ accepted' = accepted) /\ accepted \in Nat
  BY <1>0, TaskFrame
<1>b. 1..accepted \subseteq UpdateIds
  BY <1>0, BoundAssumption DEF LogType, UpdateIds
<1>1. ASSUME UNCHANGED <<phase[Root], ending[Root]>>, open => open' = open /\ accepted' >= accepted,
             \A u \in 1..accepted : status'[u] = "pending" => status[u] = "pending"
      PROVE  Closed'
  BY <1>0, <1>a, <1>1 DEF Closed
<1>2. ASSUME NEW l \in Loops, LoopStep(l) PROVE Closed'
  <2>0. /\ UNCHANGED accepted /\ (Answer(l) \/ open' = open) /\ (Request(l) \/ status' = status)
    BY <1>2, LoopFrame
  <2>1. \A u \in 1..accepted : status'[u] = "pending" => status[u] = "pending"
    <3>1. CASE Request(l)
      <4>1. status' = [u \in UpdateIds |-> IF u <= accepted THEN "in_context" ELSE status[u]]
            \/ status' = status
        BY <3>1 DEF Request, AppendTo, taskVars
      <4> QED BY <1>b, <4>1
    <3> QED BY <2>0, <3>1
  <2>2. CASE l # Root
    <3>1. UNCHANGED <<phase[Root], ending[Root]>>
      BY <1>0, <1>2, <2>2, LoopsApart DEF SameLoop
    <3>2. open' = open
      BY <2>0, <2>2, <1>0 DEF Answer, Finish, taskVars, LogType
    <3> QED BY <1>1, <1>a, <2>0, <2>1, <3>1, <3>2
  <2>3. CASE l = Root
    <3>1. phase[Root] \notin Ended /\ phase'[Root] \notin {"off", "persist", "over"}
      BY <1>0, <1>2, <2>3, LoopMoves, EndsSo DEF Ended
    <3>2. ending'[Root] = "completed" => ~open'
      <4> HAVE ending'[Root] = "completed"
      <4>1. ending[Root] = "none"
        BY <1>0, <3>1 DEF Stage
      <4>2. CASE Answer(Root)
        BY <4>1, <4>2 DEF Answer, Finish
      <4>3. CASE ~Answer(Root)
        <5>1. ~(LoopHead(Root) \/ NoAnswer(Root) \/ BeginBatch(Root) \/ RoundOver(Root))
          BY <1>0, <4>1, EndsSo DEF LoopHead, NoAnswer, BeginBatch, RoundOver
        <5>2. ~Raises(Root)
          BY <1>0, EndsSo DEF Raises
        <5> QED BY <1>2, <2>3, <4>1, <4>3, <5>1, <5>2 DEF LoopStep, Request, Receive, StreamRaises,
              Propose, RejectBatch, RefuseBatch, RefusalRaises, AcceptBatch, Dispatch, Settle,
              Serial, SerialDone, DispatchOver, FlushRaises
      <4> QED BY <4>2, <4>3
    <3> QED BY <3>1, <3>2 DEF Closed
  <2> QED BY <2>2, <2>3
<1>3. ASSUME NEW k \in Loops, NEW d \in Calls(k), CallStep(k, d) PROVE Closed'
  BY <1>0, <1>3 DEF CallStep, Claim, Admit, Return, ShellReturns, restVars, taskVars, Closed
<1>4. ASSUME NEW d \in Calls(Root), DelegateReturns(d) PROVE Closed'
  BY <1>0, <1>4 DEF DelegateReturns, restVars, taskVars, Closed
<1>5. ASSUME NEW k \in Children, ChildStarts(k) PROVE Closed'
  <2>1. k \in Loops /\ Go(k, "head") /\ phase[k] = "off" /\ UNCHANGED <<restVars, ending>>
    BY <1>5 DEF ChildStarts, Loops
  <2>2. phase'[Root] = phase[Root] \/ phase'[Root] = "head"
    BY <1>0, <2>1, Goes
  <2> QED BY <1>0, <2>1, <2>2 DEF restVars, taskVars, Closed
<1>6. CASE CloseTask
  <2>1. Go(Root, "persist") /\ Close /\ ending' = ending
    BY <1>6 DEF CloseTask
  <2>2. phase'[Root] = "persist"
    BY <1>0, <2>1, Goes
  <2>3. ~open' /\ accepted' = accepted /\ \A u \in 1..accepted : status'[u] # "pending"
    BY <1>b, <2>1 DEF Close
  <2> QED BY <2>1, <2>2, <2>3 DEF Closed
<1>7. CASE Persist
  <2>1. Go(Root, "over") /\ phase[Root] = "persist" /\ UNCHANGED <<taskVars, ending>>
    BY <1>7 DEF Persist
  <2>2. phase'[Root] = "over"
    BY <1>0, <2>1, Goes
  <2> QED BY <1>0, <2>1, <2>2 DEF Closed, taskVars
<1>8. CASE Submit
  BY <1>0, <1>8 DEF Submit, Closed
<1>9. CASE StopCloses
  <2>1. Close /\ UNCHANGED <<phase, ending>>
    BY <1>9 DEF StopCloses
  <2>2. ~open' /\ accepted' = accepted /\ \A u \in 1..accepted : status'[u] # "pending"
    BY <1>b, <2>1 DEF Close
  <2> QED BY <1>0, <2>1, <2>2 DEF Closed
<1>10. CASE Stop \/ UNCHANGED vars
  BY <1>0, <1>10 DEF Stop, vars, restVars, taskVars, Closed
<1> QED BY <1>2, <1>3, <1>4, <1>5, <1>6, <1>7, <1>8, <1>9, <1>10 DEF Next, Finished

LEMMA ReceiptsStep ==
  ASSUME TInv, SInv, Closed', [Next]_vars
  PROVE  Receipts'
<1>0. LogType /\ LoopType /\ Receipts /\ \A l \in Loops : Cursor(l)
  BY TypeParts DEF TInv, SInv, SteeringHeeded
<1>a. preceding' = preceding /\ accepted' \in {accepted, accepted + 1} /\ accepted \in Nat /\ preceding \in Nat
  BY <1>0, TaskFrame
<1>b. ~open' /\ phase'[Root] \in {"persist", "over"} => \A u \in 1..accepted' : status'[u] # "pending"
  BY DEF Closed
<1> DEFINE Told(u) == \E l \in Loops : u \in heard[l]
<1>1. ASSUME UNCHANGED <<heard, accepted>>,
             \A u \in 1..accepted : status'[u] = "in_context" <=> status[u] = "in_context"
      PROVE  Receipts'
  BY <1>0, <1>a, <1>b, <1>1 DEF Receipts
<1>2. ASSUME NEW l \in Loops, Request(l) PROVE Receipts'
  <2>1. /\ position'[l] = (IF open THEN accepted ELSE position[l])
        /\ heard'[l] = 1..position'[l]
        /\ \A k \in Loops \ {l} : heard'[k] = heard[k]
        /\ accepted' = accepted /\ preceding' = preceding /\ open' = open
        /\ status' = IF open THEN [u \in UpdateIds |-> IF u <= accepted THEN "in_context" ELSE status[u]]
                     ELSE status
    BY <1>0, <1>2, RequestTells
  <2>2. ASSUME NEW u \in (preceding + 1)..accepted
        PROVE  status'[u] = "in_context" <=> \E k \in Loops : u \in heard'[k]
    <3>1. u \in UpdateIds /\ u \in 1..accepted /\ u > preceding
      BY <1>0, <1>a, BoundAssumption DEF LogType, UpdateIds
    <3>2. CASE open
      <4>1. status'[u] = "in_context"
        BY <2>1, <3>1, <3>2
      <4>2. heard'[l] = 1..accepted
        BY <2>1, <3>2
      <4> QED BY <3>1, <4>1, <4>2
    <3>3. CASE ~open
      <4>1. status'[u] = status[u] /\ heard'[l] = 1..position[l]
        BY <2>1, <3>3
      <4>2. u \in heard'[l] <=> u \in heard[l]
        <5>1. position[l] \in Nat
          BY <1>0 DEF LoopType
        <5>2. heard[l] = 1..position[l] \/ (heard[l] = {} /\ position[l] <= preceding)
          BY <1>0 DEF Cursor
        <5>3. CASE heard[l] = {} /\ position[l] <= preceding
          <6>1. ~(u <= position[l])
            BY <1>a, <3>1, <5>1, <5>3
          <6> QED BY <4>1, <5>3, <6>1
        <5> QED BY <4>1, <5>2, <5>3
      <4>3. (\E k \in Loops : u \in heard'[k]) <=> \E k \in Loops : u \in heard[k]
        BY <2>1, <4>2
      <4> QED BY <1>0, <4>1, <4>3 DEF Receipts
    <3> QED BY <3>2, <3>3
  <2> QED BY <1>b, <2>1, <2>2 DEF Receipts
<1>3. ASSUME NEW l \in Loops, LoopStep(l) \/ (\E c \in Calls(l) : CallStep(l, c)), ~Request(l) PROVE Receipts'
  <2>1. UNCHANGED <<accepted, status, heard>>
    BY <1>3, LoopFrame
  <2> QED BY <1>1, <2>1
<1>4. CASE Submit
  <2>1. /\ accepted' = accepted + 1 /\ heard' = heard
        /\ status' = [status EXCEPT ![accepted + 1] = "pending"] /\ accepted < MaxUpdates
    BY <1>4 DEF Submit, cursorVars
  <2>2. ASSUME NEW u \in (preceding + 1)..accepted + 1
        PROVE  status'[u] = "in_context" <=> \E k \in Loops : u \in heard'[k]
    <3>1. CASE u = accepted + 1
      <4>1. status'[u] = "pending"
        BY <1>0, <2>1, <3>1, <1>a, BoundAssumption DEF LogType, UpdateIds
      <4>2. \A k \in Loops : u \notin heard[k]
        <5> TAKE k \in Loops
        <5>1. position[k] \in Nat /\ Cursor(k)
          BY <1>0 DEF LoopType
        <5> QED BY <1>a, <3>1, <5>1 DEF Cursor
      <4> QED BY <2>1, <4>1, <4>2
    <3>2. CASE u # accepted + 1
      <4>1. u \in (preceding + 1)..accepted /\ status'[u] = status[u]
        BY <1>0, <1>a, <2>1, <3>2 DEF LogType
      <4> QED BY <1>0, <2>1, <4>1 DEF Receipts
    <3> QED BY <3>1, <3>2
  <2> QED BY <1>a, <1>b, <2>1, <2>2 DEF Receipts
<1>5. CASE StopCloses \/ CloseTask
  <2>1. Close /\ heard' = heard
    BY <1>5 DEF StopCloses, CloseTask, cursorVars
  <2>2. 1..accepted \subseteq UpdateIds
    BY <1>0, BoundAssumption DEF LogType, UpdateIds
  <2>3. \A u \in 1..accepted : status'[u] = "in_context" <=> status[u] = "in_context"
    BY <2>1, <2>2 DEF Close
  <2> QED BY <1>1, <2>1, <2>3 DEF Close
<1>6. CASE Stop \/ UNCHANGED vars \/ Persist \/ (\E k \in Children : ChildStarts(k))
           \/ \E c \in Calls(Root) : DelegateReturns(c)
  <2>1. UNCHANGED <<accepted, status, heard>>
    BY <1>6 DEF Stop, Persist, ChildStarts, DelegateReturns, vars, restVars, taskVars, cursorVars
  <2> QED BY <1>1, <2>1
<1> QED BY <1>2, <1>3, <1>4, <1>5, <1>6 DEF Next, Finished

(* A completed task had every correction, and its history holds them all. *)
LEMMA DeliveredStep ==
  ASSUME TInv, SInv, [Next]_vars
  PROVE  Delivered'
<1>0. LogType /\ LoopType /\ Delivered /\ Closed /\ Root \in Loops /\ Cursor(Root) /\ Stage(Root)
  BY TypeParts DEF TInv, SInv, SteeringHeeded, Loops
<1>a. (~open => ~open' /\ accepted' = accepted) /\ accepted \in Nat /\ position[Root] \in Nat
  BY <1>0, TaskFrame DEF LoopType
<1>1. ASSUME UNCHANGED <<phase[Root], ending[Root], told[Root], heard[Root]>>
      PROVE  Delivered'
  BY <1>0, <1>a, <1>1 DEF Delivered, Closed
<1>2. ASSUME NEW l \in Loops, LoopStep(l) PROVE Delivered'
  <2>1. CASE l # Root
    BY <1>0, <1>1, <1>2, <2>1, LoopsApart DEF SameLoop
  <2>2. CASE l = Root
    <3>1. phase[Root] \notin Ended /\ phase'[Root] # "over" /\ ending[Root] = "none"
      BY <1>0, <1>2, <2>2, LoopMoves, EndsSo DEF Ended, Stage
    <3>2. ending'[Root] = "completed" => 1..accepted' \subseteq heard'[Root]
      <4> HAVE ending'[Root] = "completed"
      <4>1. Answer(Root)
        <5>1. ~(LoopHead(Root) \/ NoAnswer(Root) \/ BeginBatch(Root) \/ RoundOver(Root))
          BY <1>0, <3>1, EndsSo DEF LoopHead, NoAnswer, BeginBatch, RoundOver
        <5>2. ~Raises(Root)
          BY <1>0, EndsSo DEF Raises
        <5> QED BY <1>2, <2>2, <3>1, <5>1, <5>2 DEF LoopStep, Request, Receive, StreamRaises,
              Propose, RejectBatch, RefuseBatch, RefusalRaises, AcceptBatch, Dispatch, Settle,
              Serial, SerialDone, DispatchOver, FlushRaises
      <4>2. ~Pending(Root) /\ heard' = heard /\ accepted' = accepted /\ phase[Root] = "received"
        BY <3>1, <4>1 DEF Answer, Finish, cursorVars, taskVars
      <4>3. position[Root] = accepted
        BY <1>0, <1>a, <4>2 DEF Pending, Cursor
      <4> QED BY <1>0, <4>2, <4>3 DEF Cursor, Informed
    <3> QED BY <3>1, <3>2 DEF Delivered
  <2> QED BY <2>1, <2>2
<1>3. ASSUME NEW k \in Loops, NEW d \in Calls(k), CallStep(k, d) PROVE Delivered'
  BY <1>1, <1>3 DEF CallStep, Claim, Admit, Return, ShellReturns, restVars, cursorVars
<1>4. ASSUME NEW d \in Calls(Root), DelegateReturns(d) PROVE Delivered'
  BY <1>1, <1>4 DEF DelegateReturns, restVars, cursorVars
<1>5. ASSUME NEW k \in Children, ChildStarts(k) PROVE Delivered'
  <2>1. k \in Loops /\ k # Root /\ Go(k, "head") /\ UNCHANGED <<restVars, ending>>
    BY <1>5, RootAssumption DEF ChildStarts, Loops
  <2>2. phase'[Root] = phase[Root]
    BY <1>0, <2>1, Goes
  <2> QED BY <1>1, <2>1, <2>2 DEF restVars, cursorVars
<1>6. CASE CloseTask
  <2>1. phase'[Root] = "persist" /\ ending' = ending /\ heard' = heard /\ accepted' = accepted
    BY <1>0, <1>6, Goes DEF CloseTask, Close, cursorVars
  <2> QED BY <1>0, <2>1 DEF Delivered
<1>7. CASE Persist
  <2>1. ending' = ending /\ heard' = heard /\ accepted' = accepted /\ phase[Root] = "persist"
    BY <1>7 DEF Persist, taskVars
  <2> DEFINE S == {u \in 1..accepted : \A i \in 1..Len(told[Root]) : told[Root][i] # u}
             n == position[Root]
  <2>2. told[Root] = [u \in 1..n |-> u] /\ n <= accepted
    BY <1>0, <2>1 DEF Cursor
  <2>3. S = n + 1 .. accepted
    <3>1. Len(told[Root]) = n /\ \A i \in 1..n : told[Root][i] = i
      BY <1>a, <2>2
    <3> HIDE DEF n
    <3> QED BY <1>a, <3>1
  <2>4. told'[Root] = told[Root] \o Ordered(S)
    BY <1>0, <1>7 DEF Persist, LoopType
  <2>5. Ordered(S) = [i \in 1..accepted - n |-> n + i]
    BY <1>a, <2>2, <2>3, OrderedInterval
  <2>6. told'[Root] = [u \in 1..accepted |-> u]
    <3>1. n \in Nat /\ accepted \in Nat /\ n <= accepted
      BY <1>a, <2>2
    <3> HIDE DEF n, S
    <3>2. [u \in 1..n |-> u] \o [i \in 1..accepted - n |-> n + i] = [u \in 1..accepted |-> u]
      BY ONLY <3>1, Continued
    <3> QED BY ONLY <2>2, <2>4, <2>5, <3>2
  <2> QED BY <1>0, <2>1, <2>6 DEF Delivered
<1>8. CASE Submit
  <2>1. open /\ UNCHANGED <<phase, ending, told, heard>>
    BY <1>8 DEF Submit, cursorVars
  <2> QED BY <1>1, <2>1
<1>9. CASE StopCloses \/ Stop \/ UNCHANGED vars
  BY <1>1, <1>9 DEF StopCloses, Stop, vars, restVars, cursorVars
<1> QED BY <1>2, <1>3, <1>4, <1>5, <1>6, <1>7, <1>8, <1>9 DEF Next, Finished

(* A tool starts with every correction accepted before it heard. *)
LEMMA ToldStep ==
  ASSUME TInv, BusyInv, SInv, [Next]_vars
  PROVE  ToldBeforeTools'
<1> SUFFICES ASSUME NEW l \in Loops, NEW c \in Calls(l)'
             PROVE  1..began'[l][c] \subseteq heard'[l]
  BY DEF ToldBeforeTools
<1>0. /\ LogType /\ LoopType /\ Shape /\ BlockType(l) /\ Cursor(l) /\ ToldBeforeTools
      /\ Calls(l) = 1..Len(batch[l])
  BY TypeParts, BlockTyped DEF TInv, SInv, SteeringHeeded
<1>1. ASSUME UNCHANGED <<batch[l], began[l], heard[l]>>
      PROVE  1..began'[l][c] \subseteq heard'[l]
  BY <1>0, <1>1 DEF ToldBeforeTools, Calls
<1>2. ASSUME NEW k \in Loops, LoopStep(k)
      PROVE  1..began'[l][c] \subseteq heard'[l]
  <2>1. CASE k # l
    BY <1>0, <1>1, <1>2, <2>1, BlocksApart, LoopsApart DEF SameBlock, SameLoop
  <2>2. CASE k = l
    <3>1. CASE Request(l)
      BY <3>1, RequestBlock
    <3>2. CASE Propose(l)
      <4>1. PICK b \in Batches[l] : batch'[l] = b /\ began'[l] = [d \in 1..Len(b) |-> -1]
        BY <1>0, <3>2 DEF Propose, Shape
      <4>2. began'[l][c] = -1
        BY <4>1 DEF Calls
      <4>3. 1..(-1) = {}
        OBVIOUS
      <4> QED BY <4>2, <4>3
    <3>3. CASE ~Request(l) /\ ~Propose(l)
      <4>1. heard' = heard
        BY <1>2, <2>2, <3>3, LoopFrame
      <4>2. UNCHANGED <<batch, began>>
        BY <1>2, <2>2, <3>3 DEF LoopStep, LoopHead, Receive, StreamRaises, Answer, NoAnswer, RejectBatch,
             RefuseBatch, RefusalRaises, AcceptBatch, BeginBatch, Dispatch, Settle, Serial,
             SerialDone, DispatchOver, RoundOver, FlushRaises, blockVars
      <4> QED BY <1>1, <4>1, <4>2
    <3> QED BY <3>1, <3>2, <3>3
  <2> QED BY <2>1, <2>2
<1>3. ASSUME NEW k \in Loops, NEW d \in Calls(k), CallStep(k, d)
      PROVE  1..began'[l][c] \subseteq heard'[l]
  <2>0. UNCHANGED <<batch, heard>> /\ c \in Calls(l)
    BY <1>3 DEF CallStep, Claim, Admit, Return, ShellReturns, restVars, cursorVars, Calls
  <2>1. CASE began' = began
    BY <1>1, <2>0, <2>1
  <2>2. CASE began' # began
    <3>1. /\ call[k][d] = "cleared" /\ ~Pending(k) /\ began' = [began EXCEPT ![k][d] = accepted]
      BY <1>3, <2>2 DEF CallStep, Claim, Admit, Return, ShellReturns
    <3>2. CASE k = l /\ c = d
      <4>1. began'[l][c] = accepted
        BY <1>0, <3>1, <3>2 DEF Shape, BlockType
      <4>2. phase[l] \in Informed
        BY <1>3, <3>1, <3>2 DEF BusyInv, Busy, InProgress, Informed
      <4>3. position[l] = accepted
        <5>1. position[l] \in Nat /\ accepted \in Nat /\ position[l] <= accepted
          BY <1>0, BoundAssumption DEF LogType, LoopType, Cursor
        <5> QED BY <3>1, <3>2, <5>1 DEF Pending
      <4> QED BY <1>0, <2>0, <4>1, <4>2, <4>3 DEF Cursor
    <3>3. CASE ~(k = l /\ c = d)
      <4>1. began'[l][c] = began[l][c]
        BY <1>0, <2>0, <3>1, <3>3 DEF Shape, BlockType
      <4> QED BY <1>0, <2>0, <4>1 DEF ToldBeforeTools
    <3> QED BY <3>2, <3>3
  <2> QED BY <2>1, <2>2
<1>4. CASE Submit \/ Stop \/ StopCloses \/ UNCHANGED vars \/ CloseTask \/ Persist
           \/ (\E k \in Children : ChildStarts(k)) \/ \E d \in Calls(Root) : DelegateReturns(d)
  BY <1>1, <1>4 DEF Submit, Stop, StopCloses, CloseTask, Persist, ChildStarts, DelegateReturns,
                    vars, restVars, blockVars, cursorVars
<1> QED BY <1>2, <1>3, <1>4 DEF Next, Finished

(* What SteeringHeeded and StopIsFinal rest on is inductive. *)
LEMMA SInvStep == TInv /\ BusyInv /\ SInv /\ [Next]_vars => SInv'
<1> SUFFICES ASSUME TInv, BusyInv, SInv, [Next]_vars PROVE SInv'
  OBVIOUS
<1>1. Closed'
  BY ClosedStep
<1>2. SteeringHeeded'
  BY <1>1, ToldStep, DeliveredStep, ReceiptsStep DEF SteeringHeeded
<1>3. \A l \in Loops : Cursor(l)' /\ Replied(l)' /\ Stage(l)'
  BY CursorStep, RepliedStep, StageStep
<1> QED BY <1>1, <1>2, <1>3 DEF SInv

LEMMA SInvInit == Init => BusyInv /\ SInv
<1> SUFFICES ASSUME Init PROVE BusyInv /\ SInv
  OBVIOUS
<1>0. LogType /\ LoopType /\ Root \in Loops
  BY TypeInit, TypeParts DEF TInv, Loops
<1>1. \A l \in Loops : Calls(l) = {} /\ ~Busy(l)
  BY DEF Init, Calls, Busy
<1>2. Closed
  BY <1>0 DEF Init, Closed
<1>3. ASSUME NEW l \in Loops PROVE Cursor(l) /\ Replied(l) /\ Stage(l)
  <2>1. /\ accepted \in Nat /\ preceding = accepted /\ heard[l] = {} /\ ending[l] = "none"
        /\ reply[l] = "none" /\ position[l] = (IF l = Root THEN preceding ELSE 0)
        /\ phase[l] = (IF l = Root THEN "head" ELSE "off")
        /\ told[l] = (IF l = Root THEN [u \in 1..preceding |-> u] ELSE <<>>)
    BY <1>0, BoundAssumption DEF Init, LogType
  <2>2. told[l] = [u \in 1..position[l] |-> u]
    BY <2>1
  <2>3. Cursor(l)
    BY <2>1, <2>2 DEF Cursor, Informed, Rounding
  <2>4. Replied(l) /\ Stage(l)
    BY <2>1 DEF Replied, Stage, Rounding, Ended
  <2> QED BY <2>3, <2>4
<1>4. ToldBeforeTools
  BY <1>1 DEF ToldBeforeTools
<1>5. Delivered
  BY <1>0 DEF Init, Delivered
<1>6. Receipts
  <2>1. accepted = preceding /\ phase[Root] = "head" /\ preceding \in Nat
    BY <1>0, BoundAssumption DEF Init, LogType
  <2>2. (preceding + 1)..accepted = {}
    BY <2>1
  <2> QED BY <2>1, <2>2 DEF Receipts
<1> QED BY <1>1, <1>2, <1>3, <1>4, <1>5, <1>6 DEF BusyInv, SInv, SteeringHeeded

LEMMA Steered == Spec => [](TInv /\ BusyInv /\ SInv)
<1>1. Init => TInv /\ BusyInv /\ SInv
  BY TypeInit, SInvInit
<1>2. (TInv /\ BusyInv /\ SInv) /\ [Next]_vars => (TInv /\ BusyInv /\ SInv)'
  BY TypeStep, BusyStep, SInvStep
<1> QED BY <1>1, <1>2, PTL DEF Spec

(* Nothing a person says to a working agent is passed over. *)
THEOREM SteeringIsHeeded == Spec => []SteeringHeeded
<1>1. SInv => SteeringHeeded
  BY DEF SInv
<1> QED BY <1>1, Steered, PTL

(* Once the log is closed no step is the start of a tool. *)
LEMMA NoStart ==
  ASSUME TInv, ~open, [Next]_vars
  PROVE  NothingStarts
<1> SUFFICES ASSUME NEW l \in Loops, NEW c \in 1..Len(began'[l]), began'[l][c] # -1
             PROVE  began'[l] = began[l]
  BY DEF NothingStarts
<1>0. Shape
  BY DEF TInv
<1>1. ASSUME NEW k \in Loops, LoopStep(k) PROVE began'[l] = began[l]
  <2>1. CASE k # l
    BY <1>0, <1>1, <2>1, BlocksApart DEF SameBlock
  <2>2. CASE k = l
    <3>1. ~Request(l)
      BY RequestBlock
    <3>2. ~Propose(l)
      <4> SUFFICES ASSUME Propose(l) PROVE FALSE
        OBVIOUS
      <4>1. PICK b \in Batches[l] : began'[l] = [d \in 1..Len(b) |-> -1]
        BY <1>0 DEF Propose, Shape
      <4>2. Len(b) \in Nat
        BY BatchAssumption
      <4>3. Len(began'[l]) = Len(b)
        BY <4>1, <4>2
      <4> QED BY <4>1, <4>3
    <3> QED BY <1>1, <2>2, <3>1, <3>2 DEF LoopStep, LoopHead, Receive, StreamRaises, Answer, NoAnswer,
             RejectBatch, RefuseBatch, RefusalRaises, AcceptBatch, BeginBatch, Dispatch, Settle,
             Serial, SerialDone, DispatchOver, RoundOver, FlushRaises, blockVars
  <2> QED BY <2>1, <2>2
<1>2. ASSUME NEW k \in Loops, NEW d \in Calls(k), CallStep(k, d) PROVE began'[l] = began[l]
  BY <1>2 DEF CallStep, Claim, Admit, Return, ShellReturns
<1>3. CASE Submit \/ Stop \/ StopCloses \/ UNCHANGED vars \/ CloseTask \/ Persist
           \/ (\E k \in Children : ChildStarts(k)) \/ \E d \in Calls(Root) : DelegateReturns(d)
  BY <1>3 DEF Submit, Stop, StopCloses, CloseTask, Persist, ChildStarts, DelegateReturns,
              vars, blockVars
<1> QED BY <1>1, <1>2, <1>3 DEF Next, Finished

(* Once request_cancel has returned no tool starts in any agent, and an    *)
(* answer that was there before it stands.                                 *)
THEOREM StopFinal == Spec => StopIsFinal
<1>1. TInv /\ BusyInv /\ SInv /\ [Next]_vars =>
        [/\ ~open => NothingStarts
         /\ \A l \in Loops : AnswerStands(l)]_vars
  <2> SUFFICES ASSUME TInv, BusyInv, SInv, [Next]_vars
               PROVE  (~open => NothingStarts) /\ \A l \in Loops : AnswerStands(l)
    OBVIOUS
  <2>1. \A l \in Loops : Replied(l)'
    BY RepliedStep
  <2>2. \A l \in Loops : AnswerStands(l)
    BY <2>1 DEF AnswerStands, Replied, AnswerStood
  <2> QED BY <2>2, NoStart
<1> QED BY <1>1, Steered, PTL DEF Spec, StopIsFinal

-----------------------------------------------------------------------------
(* The calls of a round.                                                   *)

Untried == {"new", "invalid"}

(* Flushed calls are resolved; those behind one not dispatched yet are untried;
   a call returns nothing only after a stop; one that is not a read is alone. *)
InOrder(l) ==
  /\ \A c \in 1..flushed[l] : call[l][c] \in Resolved
  /\ \A c, d \in Calls(l) : call[l][c] = "new" /\ c < d => call[l][d] \in Untried
  /\ \A c \in Calls(l) : call[l][c] = "none" => cancel
  /\ \A c \in Calls(l) : call[l][c] \in InProgress => phase[l] = "serial" \/ batch[l][c] = "read"
  /\ phase[l] = "serial" =>
       \A c, d \in Calls(l) : call[l][c] \in InProgress /\ call[l][d] \in InProgress => c = d
  /\ phase[l] = "drain" => cancel \/ \A c \in Calls(l) : call[l][c] # "new"

(* The calls of a loop before and in its round. *)
CallInv(l) ==
  /\ phase[l] \in {"preflight", "accepted"} =>
       flushed[l] = 0 /\ log[l] = <<>> /\ \A c \in Calls(l) : call[l][c] \in Untried
  /\ phase[l] \in Rounding => InOrder(l)

(* Every call that is said to have a result has one. *)
AnswerInv(l) ==
  /\ phase[l] \in Rounding =>
       \A c \in Calls(l) :
         (call[l][c] \in WithPayload /\ c <= flushed[l]) \/ call[l][c] = "own" => c \in Answered(log[l])
  /\ AtRest(l) => Answered(log[l]) = Calls(l)

(* A child works only under a running delegate call. *)
TeamInv == \A k \in Children : Working(k) => Delegating

(* What may have become of a call. *)
LEMMA Outcomes ==
  /\ InProgress \cap Resolved = {} /\ InProgress \cap Untried = {} /\ "new" \notin InProgress \cup Resolved
  /\ WithPayload \subseteq Resolved /\ "own" \notin InProgress /\ "none" \notin InProgress
  /\ Resolved = WithPayload \cup {"own", "none"} /\ Untried \subseteq Resolved \cup {"new"}
BY DEF InProgress, Resolved, Untried, WithPayload

(* A call goes on, or is resolved. *)
LEMMA CallGoesOn ==
  ASSUME NEW l \in Loops, BlockType(l), InOrder(l), NEW c \in Calls(l), call[l][c] \in InProgress,
         NEW s \in InProgress \cup Resolved, s = "none" => cancel,
         call'[l] = [call[l] EXCEPT ![c] = s],
         UNCHANGED <<batch[l], flushed[l], phase[l]>>, cancel => cancel'
  PROVE  InOrder(l)'
<1>0. Calls(l)' = Calls(l) /\ \A d \in Calls(l) : call'[l][d] = IF d = c THEN s ELSE call[l][d]
  BY DEF BlockType, Calls
<1>1. ASSUME NEW d \in 1..flushed'[l] PROVE call'[l][d] \in Resolved
  <2>1. d \in Calls(l) /\ call[l][d] \in Resolved
    BY <1>1 DEF InOrder, BlockType, Calls
  <2> QED BY <1>0, <2>1, Outcomes
<1>2. \A d, e \in Calls(l) : call'[l][d] = "new" /\ d < e => call'[l][e] \in Untried
  <2> TAKE d, e \in Calls(l)
  <2> HAVE call'[l][d] = "new" /\ d < e
  <2>1. call[l][d] = "new"
    BY <1>0, Outcomes
  <2>2. call[l][e] \in Untried
    BY <2>1 DEF InOrder
  <2> QED BY <1>0, <2>2, Outcomes
<1>3. \A d \in Calls(l) : call'[l][d] = "none" => cancel'
  BY <1>0 DEF InOrder
<1>4. \A d \in Calls(l) : call'[l][d] \in InProgress => call[l][d] \in InProgress
  BY <1>0
<1>5. \A d \in Calls(l) : call'[l][d] = "new" => call[l][d] = "new"
  BY <1>0, Outcomes
<1> QED BY <1>0, <1>1, <1>2, <1>3, <1>4, <1>5 DEF InOrder

(* The first call that is still to be dispatched goes ahead. *)
LEMMA CallGoesFirst ==
  ASSUME NEW l \in Loops, BlockType(l), NEW c \in NextCall(l), Len(batch[l]) \in Nat,
         call'[l] = [call[l] EXCEPT ![c] = "queued"], batch'[l] = batch[l],
         \A d, e \in Calls(l) : call[l][d] = "new" /\ d < e => call[l][e] \in Untried
  PROVE  /\ Calls(l)' = Calls(l) /\ c \in Calls(l)
         /\ \A d \in Calls(l) : call'[l][d] = IF d = c THEN "queued" ELSE call[l][d]
         /\ \A d, e \in Calls(l) : call'[l][d] = "new" /\ d < e => call'[l][e] \in Untried
<1>1. c \in Calls(l) /\ \A d \in 1..(c - 1) : call[l][d] # "new"
  BY DEF NextCall
<1>2. Calls(l)' = Calls(l) /\ \A d \in Calls(l) : call'[l][d] = IF d = c THEN "queued" ELSE call[l][d]
  BY <1>1 DEF BlockType, Calls
<1>3. \A d, e \in Calls(l) : call'[l][d] = "new" /\ d < e => call'[l][e] \in Untried
  <2> TAKE d, e \in Calls(l)
  <2> HAVE call'[l][d] = "new" /\ d < e
  <2>1. call[l][d] = "new" /\ d # c
    BY <1>2
  <2>2. d \in Nat /\ c \in Nat /\ e \in Nat /\ d >= 1
    BY <1>1 DEF Calls
  <2>3. ~(d < c)
    BY <1>1, <2>1, <2>2
  <2>4. e # c
    BY <2>1, <2>2, <2>3
  <2> QED BY <1>2, <2>1, <2>4
<1> QED BY <1>1, <1>2, <1>3

(* A call that is not dispatched yet is behind the first such. *)
LEMMA SomeNext ==
  ASSUME NEW l \in Loops, Len(batch[l]) \in Nat, NEW c \in Calls(l), call[l][c] = "new"
  PROVE  NextCall(l) # {}
<1> DEFINE S == {d \in Calls(l) : call[l][d] = "new"}
<1>1. S \in SUBSET Nat /\ S # {}
  BY DEF Calls
<1>2. PICK m \in S : \A d \in S : m <= d
  <2> HIDE DEF S
  <2> QED BY <1>1, Least
<1>3. \A d \in 1..(m - 1) : call[l][d] # "new"
  <2> SUFFICES ASSUME NEW d \in 1..(m - 1), call[l][d] = "new" PROVE FALSE
    OBVIOUS
  <2>1. m \in 1..Len(batch[l])
    BY <1>2 DEF Calls
  <2>2. d \in Calls(l) /\ d < m
    BY <2>1 DEF Calls
  <2> QED BY <1>2, <2>1, <2>2
<1> QED BY <1>2, <1>3 DEF NextCall

(* Every step keeps the calls of a round in order. *)
LEMMA CallInvStep ==
  ASSUME TInv, BusyInv, \A l \in Loops : CallInv(l), [Next]_vars
  PROVE  \A l \in Loops : CallInv(l)'
<1> SUFFICES ASSUME NEW l \in Loops PROVE CallInv(l)'
  OBVIOUS
<1>0. /\ LogType /\ LoopType /\ Shape /\ BlockType(l) /\ CallInv(l)
      /\ Calls(l) = 1..Len(batch[l]) /\ Len(batch[l]) \in Nat
  BY TypeParts, BlockTyped DEF TInv
<1>a. cancel => cancel'
  BY <1>0, TaskFrame
<1>1. ASSUME UNCHANGED <<batch[l], call[l], flushed[l], log[l], phase[l]>>
      PROVE  CallInv(l)'
  BY <1>0, <1>a, <1>1 DEF CallInv, InOrder, Calls
<1>2. ASSUME NEW k \in Loops, LoopStep(k) PROVE CallInv(l)'
  <2>1. CASE k # l
    BY <1>0, <1>1, <1>2, <2>1, BlocksApart, LoopsApart DEF SameBlock, SameLoop
  <2>2. CASE k = l
    <3> USE <2>2
    <3>1. CASE phase'[l] \notin {"preflight", "accepted"} \cup Rounding
      BY <3>1 DEF CallInv
    <3>2. CASE Propose(l)
      <4>1. Fresh(l)
        BY <3>2 DEF Propose, TInv, FreshInv
      <4>2. phase'[l] = "preflight"
        BY <1>0, <3>2, Goes DEF Propose
      <4>3. PICK b \in Batches[l] :
              batch'[l] = b /\ call'[l] = [c \in 1..Len(b) |-> "new"] /\ flushed'[l] = 0 /\ log'[l] = <<>>
        BY <1>0, <3>2, <4>1 DEF Propose, Shape, Fresh
      <4> QED BY <4>2, <4>3 DEF CallInv, Calls, Untried, Rounding
    <3>3. CASE AcceptBatch(l)
      <4>1. phase'[l] = "accepted" /\ UNCHANGED <<batch, flushed, log>> /\ phase[l] = "preflight"
        BY <1>0, <3>3, Goes DEF AcceptBatch
      <4>2. \A c \in Calls(l)' : call'[l][c] \in Untried
        BY <1>0, <3>3 DEF AcceptBatch, Shape, Calls, Untried
      <4> QED BY <1>0, <4>1, <4>2 DEF CallInv, Rounding
    <3>4. CASE BeginBatch(l)
      <4>1. phase'[l] = "dispatch" \/ phase'[l] \in Ended
        BY <1>0, <3>4, Goes, EndsSo DEF BeginBatch, Ended
      <4>2. UNCHANGED <<batch, call, flushed, cancel>> /\ phase[l] = "accepted"
        BY <3>4 DEF BeginBatch, restVars, userVars
      <4>3. flushed[l] = 0 /\ \A c \in Calls(l) : call[l][c] \in Untried
        BY <1>0, <4>2 DEF CallInv
      <4>4. \A c \in Calls(l) : call[l][c] \notin InProgress /\ call[l][c] # "none"
        BY <4>3 DEF Untried, InProgress
      <4>5. phase'[l] = "dispatch" => InOrder(l)'
        BY <4>2, <4>3, <4>4 DEF InOrder, Calls
      <4> QED BY <4>1, <4>5 DEF CallInv, Rounding, Ended
    <3>5. CASE Dispatch(l)
      <4>1. PICK c \in NextCall(l) : batch[l][c] = "read" /\ call' = [call EXCEPT ![l][c] = "queued"]
        BY <3>5 DEF Dispatch
      <4>2. phase[l] = "dispatch" /\ UNCHANGED <<batch, flushed, phase, cancel>>
        BY <3>5 DEF Dispatch, restVars, userVars
      <4>3. InOrder(l)
        BY <1>0, <4>2 DEF CallInv, Rounding
      <4>4. /\ Calls(l)' = Calls(l) /\ c \in Calls(l)
            /\ \A d \in Calls(l) : call'[l][d] = IF d = c THEN "queued" ELSE call[l][d]
            /\ \A d, e \in Calls(l) : call'[l][d] = "new" /\ d < e => call'[l][e] \in Untried
        BY <1>0, <4>1, <4>2, <4>3, CallGoesFirst DEF Shape, InOrder, NextCall
      <4>5. call[l][c] = "new"
        BY <4>1 DEF NextCall
      <4>6. \A d \in 1..flushed'[l] : call'[l][d] \in Resolved
        <5> TAKE d \in 1..flushed'[l]
        <5>1. call[l][d] \in Resolved /\ d \in Calls(l)
          BY <1>0, <4>2, <4>3 DEF InOrder, BlockType
        <5>2. d # c
          BY <4>5, <5>1, Outcomes
        <5> QED BY <4>4, <5>1, <5>2
      <4>7. InOrder(l)'
        BY <4>1, <4>2, <4>3, <4>4, <4>6 DEF InOrder
      <4> QED BY <4>2, <4>7 DEF CallInv, Rounding
    <3>6. CASE Settle(l)
      <4>1. phase'[l] = "settle" /\ phase[l] = "dispatch" /\ UNCHANGED <<blockVars, cancel>>
        BY <1>0, <3>6, Goes DEF Settle, restVars, userVars
      <4>2. InOrder(l)
        BY <1>0, <4>1 DEF CallInv, Rounding
      <4>3. InOrder(l)'
        BY <4>1, <4>2 DEF InOrder, blockVars, Calls
      <4> QED BY <4>1, <4>3 DEF CallInv, Rounding
    <3>7. CASE DispatchOver(l)
      <4>1. phase'[l] = "drain" /\ phase[l] = "dispatch" /\ UNCHANGED <<blockVars, cancel>>
            /\ (cancel \/ NextCall(l) = {})
        BY <1>0, <3>7, Goes DEF DispatchOver, restVars, userVars
      <4>2. InOrder(l)
        BY <1>0, <4>1 DEF CallInv, Rounding
      <4>3. cancel \/ \A c \in Calls(l) : call[l][c] # "new"
        BY <1>0, <4>1, SomeNext
      <4>4. InOrder(l)'
        BY <4>1, <4>2, <4>3 DEF InOrder, blockVars, Calls
      <4> QED BY <4>1, <4>4 DEF CallInv, Rounding
    <3>8. CASE Serial(l) \/ SerialDone(l)
      <4>1. phase[l] \in {"settle", "serial"} /\ ~Busy(l) /\ UNCHANGED <<batch, cancel>>
            /\ flushed' = [flushed EXCEPT ![l] = @ + Cardinality(Flushable(l))]
        BY <3>8 DEF Serial, SerialDone, Flush, restVars, userVars
      <4>2. InOrder(l) /\ \A c \in Calls(l) : call[l][c] \notin InProgress
        BY <1>0, <4>1 DEF CallInv, Rounding, Busy
      <4>3. flushed'[l] \in 0..Len(batch[l]) /\ \A d \in 1..flushed'[l] : call[l][d] \in Resolved
        <5>1. PICK m \in flushed[l]..Len(batch[l]) :
                /\ Cardinality(Flushable(l)) = m - flushed[l]
                /\ \A d \in flushed[l] + 1 .. m : call[l][d] \in Resolved
          BY <1>0, FlushableIs DEF BlockType
        <5>2. flushed[l] \in Nat /\ flushed'[l] = m
          BY <1>0, <4>1, <5>1 DEF Shape, BlockType
        <5>3. \A d \in 1..m : d \in 1..flushed[l] \/ d \in flushed[l] + 1 .. m
          BY <1>0, <5>2
        <5> QED BY <1>0, <4>2, <5>1, <5>2, <5>3 DEF InOrder
      <4>4. CASE call' = call /\ (phase'[l] # "drain" \/ cancel)
        <5>1. InOrder(l)'
          BY <4>1, <4>2, <4>3, <4>4 DEF InOrder, Calls
        <5>2. phase'[l] \in Rounding
          BY <1>0, <3>8, Goes DEF Serial, SerialDone, Rounding
        <5> QED BY <5>1, <5>2 DEF CallInv, Rounding
      <4>5. CASE ~(call' = call /\ (phase'[l] # "drain" \/ cancel))
        <5>1. PICK c \in NextCall(l) : call' = [call EXCEPT ![l][c] = "queued"]
          BY <1>0, <3>8, <4>5, Goes DEF Serial, SerialDone
        <5>2. phase'[l] = "serial"
          BY <1>0, <3>8, <4>5, Goes DEF Serial, SerialDone
        <5>3. /\ Calls(l)' = Calls(l) /\ c \in Calls(l)
              /\ \A d \in Calls(l) : call'[l][d] = IF d = c THEN "queued" ELSE call[l][d]
              /\ \A d, e \in Calls(l) : call'[l][d] = "new" /\ d < e => call'[l][e] \in Untried
          BY <1>0, <4>1, <4>2, <5>1, CallGoesFirst DEF Shape, InOrder, NextCall
        <5>4. call[l][c] = "new"
          BY <5>1 DEF NextCall
        <5>5. \A d \in 1..flushed'[l] : call'[l][d] \in Resolved
          <6> TAKE d \in 1..flushed'[l]
          <6>1. call[l][d] \in Resolved /\ d \in Calls(l)
            BY <1>0, <4>3
          <6>2. d # c
            BY <5>4, <6>1, Outcomes
          <6> QED BY <5>3, <6>1, <6>2
        <5>6. InOrder(l)'
          BY <4>1, <4>2, <5>2, <5>3, <5>5 DEF InOrder
        <5> QED BY <5>2, <5>6 DEF CallInv, Rounding
      <4> QED BY <4>4, <4>5
    <3> QED
      <4>1. Request(l) \/ Receive(l) \/ LoopHead(l) \/ Answer(l) \/ NoAnswer(l) \/ RejectBatch(l)
            \/ RefuseBatch(l) \/ StreamRaises(l) \/ RefusalRaises(l) \/ FlushRaises(l) \/ RoundOver(l)
            => phase'[l] \notin {"preflight", "accepted"} \cup Rounding
        BY <1>0, Goes, EndsSo, RaisesSo DEF Request, Receive, LoopHead, Answer, Finish, NoAnswer, RejectBatch,
             RefuseBatch, StreamRaises, RefusalRaises, FlushRaises, RoundOver, Rounding
      <4> QED BY <1>2, <4>1, <3>1, <3>2, <3>3, <3>4, <3>5, <3>6, <3>7, <3>8 DEF LoopStep
  <2> QED BY <2>1, <2>2
<1>3. ASSUME NEW c \in Calls(l), call[l][c] \in InProgress,
             NEW s \in InProgress \cup Resolved, s = "none" => cancel,
             call' = [call EXCEPT ![l][c] = s],
             UNCHANGED <<batch, flushed, phase, cancel>>
      PROVE  CallInv(l)'
  <2>1. phase[l] \in Rounding /\ call'[l] = [call[l] EXCEPT ![c] = s]
    BY <1>0, <1>3 DEF BusyInv, Busy, Shape
  <2>2. InOrder(l)'
    BY <1>0, <1>3, <2>1, CallGoesOn DEF CallInv
  <2> QED BY <1>3, <2>1, <2>2 DEF CallInv, Rounding
<1>4. ASSUME NEW k \in Loops, NEW c \in Calls(k), CallStep(k, c) PROVE CallInv(l)'
  <2>1. CASE k # l
    BY <1>0, <1>1, <1>4, <2>1, BlocksApart, LoopsApart DEF SameBlock, SameLoop
  <2>2. CASE k = l
    <3>1. /\ call[l][c] \in InProgress /\ UNCHANGED <<batch, flushed, phase, cancel>>
          /\ \E s \in InProgress \cup Resolved : (s = "none" => cancel) /\ call' = [call EXCEPT ![l][c] = s]
      <4>1. CASE Claim(l, c)
        BY <4>1 DEF Claim, Becomes, InProgress, Resolved, restVars, userVars
      <4>2. CASE Admit(l, c)
        BY <4>2 DEF Admit, Becomes, InProgress, Resolved, restVars, userVars
      <4>3. CASE Return(l, c) \/ ShellReturns(l, c)
        BY <4>3 DEF Return, ShellReturns, Becomes, InProgress, Resolved, restVars, userVars
      <4> QED BY <1>4, <2>2, <4>1, <4>2, <4>3 DEF CallStep
    <3> QED BY <1>3, <1>4, <2>2, <3>1
  <2> QED BY <2>1, <2>2
<1>5. ASSUME NEW c \in Calls(Root), DelegateReturns(c) PROVE CallInv(l)'
  <2>1. /\ call[Root][c] = "running" /\ call' = [call EXCEPT ![Root][c] = "real"]
        /\ UNCHANGED <<batch, flushed, log, phase, cancel>>
    BY <1>5 DEF DelegateReturns, Becomes, restVars, userVars
  <2>2. CASE l = Root
    <3>1. c \in Calls(l) /\ call[l][c] \in InProgress /\ "real" \in InProgress \cup Resolved
      BY <1>5, <2>1, <2>2 DEF InProgress, Resolved
    <3>2. call' = [call EXCEPT ![l][c] = "real"] /\ UNCHANGED <<batch, flushed, phase, cancel>>
      BY <2>1, <2>2
    <3>3. "real" = "none" => cancel
      OBVIOUS
    <3> QED BY ONLY <1>3, <3>1, <3>2, <3>3
  <2>3. CASE l # Root
    BY <1>0, <1>1, <2>1, <2>3 DEF Shape
  <2> QED BY <2>2, <2>3
<1>6. ASSUME NEW k \in Loops, NEW q, Go(k, q), q \notin {"preflight", "accepted"} \cup Rounding, UNCHANGED blockVars
      PROVE  CallInv(l)'
  <2>1. phase'[l] = phase[l] \/ phase'[l] = q
    BY <1>0, <1>6, Goes
  <2>2. CASE phase'[l] = q
    BY <1>6, <2>2 DEF CallInv
  <2> QED BY <1>1, <1>6, <2>1, <2>2 DEF blockVars
<1>7. CASE CloseTask \/ Persist \/ \E k \in Children : ChildStarts(k)
  BY <1>6, <1>7 DEF CloseTask, Persist, ChildStarts, Loops, Rounding
<1>8. CASE Submit \/ Stop \/ StopCloses \/ UNCHANGED vars
  BY <1>1, <1>8 DEF Submit, Stop, StopCloses, vars, blockVars
<1> QED BY <1>2, <1>4, <1>5, <1>7, <1>8 DEF Next, Finished

(* What a flush leaves behind the block.                                   *)
LEMMA FlushAnswers ==
  ASSUME NEW l \in Loops, BlockType(l), Len(batch[l]) \in Nat,
         \A c \in Calls(l) :
           (call[l][c] \in WithPayload /\ c <= flushed[l]) \/ call[l][c] = "own" => c \in Answered(log[l])
  PROVE  /\ Flushed(l) \in Seq(Calls(l) \X Says)
         /\ \A c \in Calls(l) :
              (call[l][c] \in WithPayload /\ c <= flushed[l] + Cardinality(Flushable(l))) \/ call[l][c] = "own"
                => c \in Answered(Flushed(l))
<1> DEFINE X == Calls(l) \X Says
<1>0. log[l] \in Seq(X) /\ flushed[l] \in 0..Len(batch[l]) /\ flushed[l] \in Nat
  BY DEF BlockType
<1>1. PICK r \in Seq(X) :
        /\ Flushed(l) = log[l] \o r
        /\ Answered(r) = {c \in Flushable(l) : call[l][c] \in WithPayload}
  BY <1>0, FlushedIs
<1>2. PICK m \in flushed[l]..Len(batch[l]) :
        /\ Flushable(l) = flushed[l] + 1 .. m
        /\ Cardinality(Flushable(l)) = m - flushed[l]
  BY <1>0, FlushableIs
<1> HIDE DEF X
<1>3. Answered(Flushed(l)) = Answered(log[l]) \cup Answered(r)
  BY <1>0, <1>1, AnsweredAppend
<1>4. Flushed(l) \in Seq(X)
  BY <1>0, <1>1
<1>5. ASSUME NEW c \in Calls(l),
             (call[l][c] \in WithPayload /\ c <= flushed[l] + Cardinality(Flushable(l))) \/ call[l][c] = "own"
      PROVE  c \in Answered(Flushed(l))
  <2>1. CASE call[l][c] = "own" \/ (call[l][c] \in WithPayload /\ c <= flushed[l])
    BY <1>3, <2>1
  <2>2. CASE call[l][c] \in WithPayload /\ ~(c <= flushed[l]) /\ call[l][c] # "own"
    <3>1. c \in flushed[l] + 1 .. m
      BY <1>0, <1>2, <1>5, <2>2 DEF Calls
    <3> QED BY <1>1, <1>2, <1>3, <2>2, <3>1
  <2> QED BY <1>5, <2>1, <2>2
<1> QED BY <1>4, <1>5 DEF X

(* When every call has returned, and none was stopped, all are flushed.    *)
LEMMA AllFlushed ==
  ASSUME NEW l \in Loops, BlockType(l), Len(batch[l]) \in Nat,
         \A c \in Calls(l) : call[l][c] \in Resolved
  PROVE  flushed[l] + Cardinality(Flushable(l)) = Len(batch[l])
<1>1. flushed[l] \in 0..Len(batch[l]) /\ flushed[l] \in Nat
  BY DEF BlockType
<1>2. PICK m \in flushed[l]..Len(batch[l]) :
        /\ Cardinality(Flushable(l)) = m - flushed[l]
        /\ m < Len(batch[l]) => call[l][m + 1] \notin Resolved
  BY <1>1, FlushableIs
<1>3. ~(m < Len(batch[l]))
  BY <1>1, <1>2 DEF Calls
<1> QED BY <1>1, <1>2, <1>3

(* Whatever ends a round, every call of its block is answered.             *)
LEMMA EndAnswers ==
  ASSUME TInv, NEW l \in Loops, CallInv(l), AnswerInv(l), LoopStep(l), AtRest(l)'
  PROVE  Answered(log'[l]) = Calls(l)'
<1>0. /\ LogType /\ LoopType /\ Shape /\ BlockType(l) /\ FreshInv
      /\ Calls(l) = 1..Len(batch[l]) /\ Len(batch[l]) \in Nat
  BY TypeParts, BlockTyped DEF TInv
<1>s. "failed" \in Says /\ "cancelled" \in Says /\ "updated" \in Says /\ "invalid" \in Says
  BY DEF Says
<1>r. \A lg \in Seq(Calls(l) \X Says), what \in Says : Answered(Repair(l, lg, what)) = Calls(l)
  BY <1>0, RepairIs
<1>1. CASE Request(l) \/ Receive(l) \/ Propose(l) \/ AcceptBatch(l) \/ Settle(l) \/ Serial(l)
           \/ SerialDone(l) \/ DispatchOver(l)
  BY <1>0, <1>1, Goes DEF Request, Receive, Propose, AcceptBatch, Settle, Serial, SerialDone, DispatchOver,
                          AtRest
<1>2. CASE Dispatch(l)
  BY <1>2 DEF Dispatch, AtRest
<1>3. CASE LoopHead(l)
  BY <1>3 DEF LoopHead, blockVars, AnswerInv, AtRest, Calls
<1>4. CASE StreamRaises(l) \/ Answer(l) \/ NoAnswer(l)
  <2>1. phase[l] \in {"off", "stream", "received"} /\ UNCHANGED <<batch, log>>
    BY <1>4 DEF StreamRaises, Answer, NoAnswer, blockVars
  <2>2. batch[l] = <<>> /\ log[l] = <<>>
    BY <1>0, <2>1 DEF FreshInv, Fresh
  <2> QED BY <2>1, <2>2 DEF Answered, Calls
<1>5. CASE RejectBatch(l) \/ RefuseBatch(l)
  <2>1. UNCHANGED batch /\ \E what \in {"invalid", "updated"} : log'[l] = Say(what, Ordered(Calls(l)))
    BY <1>0, <1>5 DEF RejectBatch, RefuseBatch, Shape
  <2>2. Answered(log'[l]) = Calls(l)
    BY <1>0, <1>s, <2>1, SayOrdered
  <2> QED BY <2>1, <2>2 DEF Calls
<1>6. CASE RefusalRaises(l)
  <2>1. UNCHANGED batch
    BY <1>6 DEF RefusalRaises
  <2>2. Answered(log'[l]) = Calls(l)
    BY <1>0, <1>r, <1>s, <1>6, RefusalSaid
  <2> QED BY <2>1, <2>2 DEF Calls
<1>7. CASE BeginBatch(l)
  <2>1. cancel
    BY <1>0, <1>7, Goes DEF BeginBatch, AtRest
  <2>2. UNCHANGED batch /\ log'[l] = Repair(l, log[l], "cancelled")
    BY <1>0, <1>7, <2>1 DEF BeginBatch, Shape
  <2>3. Answered(log'[l]) = Calls(l)
    BY <1>0, <1>r, <1>s, <2>2 DEF BlockType
  <2> QED BY <2>2, <2>3 DEF Calls
<1>8. CASE FlushRaises(l)
  <2>1. UNCHANGED batch
    BY <1>8 DEF FlushRaises
  <2>2. PICK k \in 1..Len(Payloads(l)) :
          log'[l] = Repair(l, SubSeq(Flushed(l), 1, Len(log[l]) + k), "failed")
    BY <1>0, <1>8 DEF FlushRaises, Shape
  <2>3. SubSeq(Flushed(l), 1, Len(log[l]) + k) \in Seq(Calls(l) \X Says)
    BY <1>0, FlushedTyped DEF BlockType
  <2>4. Answered(log'[l]) = Calls(l)
    BY <1>r, <1>s, <2>2, <2>3
  <2> QED BY <2>1, <2>4 DEF Calls
<1>9. CASE RoundOver(l)
  <2>1. UNCHANGED batch /\ phase[l] = "drain" /\ ~Busy(l)
    BY <1>9 DEF RoundOver
  <2>2. Flushed(l) \in Seq(Calls(l) \X Says)
    BY <1>0, FlushedTyped DEF BlockType
  <2>3. CASE cancel
    <3>1. log'[l] = Repair(l, Flushed(l), "cancelled")
      BY <1>0, <1>9, <2>3 DEF RoundOver, Shape
    <3>2. Answered(log'[l]) = Calls(l)
      BY <1>r, <1>s, <2>2, <3>1
    <3> QED BY <2>1, <3>2 DEF Calls
  <2>4. CASE ~cancel
    <3>1. log'[l] = Flushed(l)
      BY <1>0, <1>9, <2>4 DEF RoundOver, Shape
    <3>2. \A c \in Calls(l) : call[l][c] \in WithPayload \cup {"own"}
      <4> TAKE c \in Calls(l)
      <4>1. InOrder(l)
        BY <2>1 DEF CallInv, Rounding
      <4>2. call[l][c] # "new" /\ call[l][c] # "none" /\ call[l][c] \notin InProgress
        BY <2>1, <2>4, <4>1 DEF InOrder, Busy
      <4>3. call[l][c] \in InProgress \cup Resolved \cup {"new"}
        BY <1>0 DEF BlockType
      <4> QED BY <4>2, <4>3, Outcomes
    <3>3. flushed[l] + Cardinality(Flushable(l)) = Len(batch[l])
      BY <1>0, <3>2, AllFlushed, Outcomes
    <3>4. \A c \in Calls(l) :
            (call[l][c] \in WithPayload /\ c <= flushed[l]) \/ call[l][c] = "own" => c \in Answered(log[l])
      BY <2>1 DEF AnswerInv, Rounding
    <3>5. \A c \in Calls(l) : c \in Answered(Flushed(l))
      <4>1. \A c \in Calls(l) : c <= flushed[l] + Cardinality(Flushable(l))
        BY <1>0, <3>3
      <4> QED BY <1>0, <3>2, <3>4, <4>1, FlushAnswers
    <3>6. Answered(Flushed(l)) \subseteq Calls(l)
      <4> DEFINE f == Flushed(l)
      <4>1. \A i \in 1..Len(f) : f[i] \in Calls(l) \X Says
        BY <2>2
      <4> QED BY <4>1 DEF Answered
    <3> QED BY <2>1, <3>1, <3>5, <3>6 DEF Calls
  <2> QED BY <2>3, <2>4
<1> QED BY <1>1, <1>2, <1>3, <1>4, <1>5, <1>6, <1>7, <1>8, <1>9 DEF LoopStep

(* A round goes on: what is answered stays so. *)
LEMMA RoundAnswers ==
  ASSUME TInv, NEW l \in Loops, CallInv(l), AnswerInv(l), LoopStep(l), phase'[l] \in Rounding,
         NEW c \in Calls(l)',
         (call'[l][c] \in WithPayload /\ c <= flushed'[l]) \/ call'[l][c] = "own"
  PROVE  c \in Answered(log'[l])
<1>0. /\ LogType /\ LoopType /\ Shape /\ BlockType(l) /\ FreshInv
      /\ Calls(l) = 1..Len(batch[l]) /\ Len(batch[l]) \in Nat
  BY TypeParts, BlockTyped DEF TInv
<1>p. phase[l] \in Rounding =>
        \A d \in Calls(l) :
          (call[l][d] \in WithPayload /\ d <= flushed[l]) \/ call[l][d] = "own" => d \in Answered(log[l])
  BY DEF AnswerInv
<1>q. "queued" \notin WithPayload \cup {"own"}
  BY DEF WithPayload
<1>1. CASE Settle(l) \/ DispatchOver(l)
  BY <1>1, <1>p DEF Settle, DispatchOver, blockVars, Calls, Rounding
<1>2. CASE Dispatch(l)
  <2>1. PICK d \in NextCall(l) : call' = [call EXCEPT ![l][d] = "queued"]
    BY <1>2 DEF Dispatch
  <2>2. phase[l] \in Rounding /\ UNCHANGED <<batch, flushed, log>> /\ c \in Calls(l)
    BY <1>2 DEF Dispatch, Rounding, Calls
  <2>3. c # d /\ call'[l][c] = call[l][c]
    BY <1>0, <1>q, <2>1, <2>2 DEF Shape, BlockType, NextCall
  <2> QED BY <1>p, <2>2, <2>3
<1>3. CASE Serial(l) \/ SerialDone(l)
  <2>1. /\ phase[l] \in Rounding /\ batch' = batch /\ log'[l] = Flushed(l) /\ c \in Calls(l)
        /\ flushed'[l] = flushed[l] + Cardinality(Flushable(l))
    BY <1>0, <1>3 DEF Serial, SerialDone, Flush, Rounding, Shape, Calls
  <2>2. call'[l][c] = call[l][c]
    <3>1. CASE call' = call
      BY <3>1
    <3>2. CASE \E d \in NextCall(l) : call' = [call EXCEPT ![l][d] = "queued"]
      <4>1. PICK d \in NextCall(l) : call' = [call EXCEPT ![l][d] = "queued"]
        BY <3>2
      <4> QED BY <1>0, <1>q, <2>1, <4>1 DEF Shape, BlockType, NextCall
    <3> QED BY <1>3, <3>1, <3>2 DEF Serial, SerialDone
  <2>3. \A d \in Calls(l) :
          (call[l][d] \in WithPayload /\ d <= flushed[l] + Cardinality(Flushable(l))) \/ call[l][d] = "own"
            => d \in Answered(Flushed(l))
    BY <1>0, <1>p, <2>1, FlushAnswers
  <2> QED BY <2>1, <2>2, <2>3
<1>4. CASE BeginBatch(l)
  <2>1. UNCHANGED <<batch, call, flushed>> /\ phase[l] = "accepted" /\ c \in Calls(l)
    BY <1>4 DEF BeginBatch, Calls
  <2>2. flushed[l] = 0 /\ call[l][c] \in Untried
    BY <2>1 DEF CallInv
  <2>3. ~(c <= 0)
    BY <1>0, <2>1
  <2> QED BY <2>1, <2>2, <2>3 DEF Untried
<1> QED
  <2>1. Request(l) \/ Receive(l) \/ LoopHead(l) \/ Answer(l) \/ NoAnswer(l) \/ Propose(l) \/ AcceptBatch(l)
        \/ RejectBatch(l) \/ RefuseBatch(l) \/ StreamRaises(l) \/ RefusalRaises(l) \/ FlushRaises(l)
        \/ RoundOver(l) => phase'[l] \notin Rounding
    BY <1>0, Goes, EndsSo, RaisesSo DEF Request, Receive, LoopHead, Answer, Finish, NoAnswer, Propose,
         AcceptBatch, RejectBatch, RefuseBatch, StreamRaises, RefusalRaises, FlushRaises, RoundOver, Rounding
  <2> QED BY <1>1, <1>2, <1>3, <1>4, <2>1 DEF LoopStep

(* Every step keeps the results of the calls that have one. *)
LEMMA AnswerInvStep ==
  ASSUME TInv, BusyInv, \A l \in Loops : CallInv(l) /\ AnswerInv(l), [Next]_vars
  PROVE  \A l \in Loops : AnswerInv(l)'
<1> SUFFICES ASSUME NEW l \in Loops PROVE AnswerInv(l)'
  OBVIOUS
<1>0. /\ LogType /\ LoopType /\ Shape /\ BlockType(l) /\ FreshInv /\ CallInv(l) /\ AnswerInv(l)
      /\ Calls(l) = 1..Len(batch[l]) /\ Len(batch[l]) \in Nat
  BY TypeParts, BlockTyped DEF TInv
<1>1. ASSUME UNCHANGED <<batch[l], call[l], flushed[l], log[l], phase[l]>>
      PROVE  AnswerInv(l)'
  BY <1>0, <1>1 DEF AnswerInv, AtRest, Calls
<1>2. ASSUME NEW k \in Loops, LoopStep(k) PROVE AnswerInv(l)'
  <2>1. CASE k # l
    BY <1>0, <1>1, <1>2, <2>1, BlocksApart, LoopsApart DEF SameBlock, SameLoop
  <2>2. CASE k = l
    <3>1. AtRest(l)' => Answered(log'[l]) = Calls(l)'
      BY <1>0, <1>2, <2>2, EndAnswers
    <3>2. ASSUME phase'[l] \in Rounding, NEW c \in Calls(l)',
                 (call'[l][c] \in WithPayload /\ c <= flushed'[l]) \/ call'[l][c] = "own"
          PROVE  c \in Answered(log'[l])
      BY <1>0, <1>2, <2>2, <3>2, RoundAnswers
    <3> QED BY <3>1, <3>2 DEF AnswerInv
  <2> QED BY <2>1, <2>2
<1>3. ASSUME NEW c \in Calls(l), call[l][c] \in InProgress, NEW s, call' = [call EXCEPT ![l][c] = s],
             s = "own" => c \in Answered(log'[l]), Answered(log[l]) \subseteq Answered(log'[l]),
             UNCHANGED <<batch, flushed, phase>>
      PROVE  AnswerInv(l)'
  <2>1. phase[l] \in Rounding /\ phase'[l] \in Rounding
    BY <1>3 DEF BusyInv, Busy
  <2>2. InOrder(l)
    BY <1>0, <2>1 DEF CallInv
  <2>3. ~(c <= flushed[l])
    <3> SUFFICES ASSUME c <= flushed[l] PROVE FALSE
      OBVIOUS
    <3>1. c \in 1..flushed[l]
      BY <1>0 DEF BlockType
    <3>2. call[l][c] \in Resolved
      BY <2>2, <3>1 DEF InOrder
    <3> QED BY <1>3, <3>2, Outcomes
  <2>4. \A d \in Calls(l) : call'[l][d] = IF d = c THEN s ELSE call[l][d]
    BY <1>0, <1>3 DEF Shape, BlockType
  <2>5. Calls(l)' = Calls(l)
    BY <1>3 DEF Calls
  <2>6. ASSUME NEW d \in Calls(l), (call'[l][d] \in WithPayload /\ d <= flushed[l]) \/ call'[l][d] = "own"
        PROVE  d \in Answered(log'[l])
    <3>1. CASE d = c
      BY <1>3, <2>3, <2>4, <2>6, <3>1
    <3>2. CASE d # c
      BY <1>0, <1>3, <2>1, <2>4, <2>6, <3>2 DEF AnswerInv
    <3> QED BY <3>1, <3>2
  <2>7. ~AtRest(l)'
    BY <2>1 DEF AtRest, Rounding
  <2> QED BY <1>3, <2>5, <2>6, <2>7 DEF AnswerInv
<1>4. ASSUME NEW k \in Loops, NEW c \in Calls(k), CallStep(k, c) PROVE AnswerInv(l)'
  <2>1. CASE k # l
    BY <1>0, <1>1, <1>4, <2>1, BlocksApart, LoopsApart DEF SameBlock, SameLoop
  <2>2. CASE k = l
    <3>1. CASE Claim(l, c) \/ Admit(l, c) \/ Return(l, c)
      <4>1. /\ c \in Calls(l) /\ call[l][c] \in InProgress /\ UNCHANGED <<batch, flushed, phase, log>>
            /\ \E s \in {"none", "cleared", "running", "updated", "real"} : call' = [call EXCEPT ![l][c] = s]
        BY <1>4, <2>2, <3>1 DEF Claim, Admit, Return, Becomes, InProgress
      <4>2. PICK s : s # "own" /\ call' = [call EXCEPT ![l][c] = s]
        BY <4>1
      <4> QED BY <1>3, <4>1, <4>2
    <3>2. CASE ShellReturns(l, c)
      <4>1. /\ c \in Calls(l) /\ call[l][c] \in InProgress /\ UNCHANGED <<batch, flushed, phase>>
        BY <1>4, <2>2, <3>2 DEF ShellReturns, InProgress
      <4>2. CASE UNCHANGED log /\ Becomes(l, c, "real")
        <5>1. PICK s : s # "own" /\ call' = [call EXCEPT ![l][c] = s]
          BY <4>2 DEF Becomes
        <5>2. s = "own" => c \in Answered(log'[l])
          BY <5>1
        <5>3. Answered(log[l]) \subseteq Answered(log'[l])
          BY <4>2
        <5>4. c \in Calls(l) /\ call[l][c] \in InProgress
          BY <4>1
        <5>5. UNCHANGED <<batch, flushed, phase>>
          BY <4>1
        <5>6. call' = [call EXCEPT ![l][c] = s]
          BY <5>1
        <5> QED BY ONLY <1>3, <5>2, <5>3, <5>4, <5>5, <5>6
      <4>3. CASE log'[l] = Append(log[l], <<c, "real">>)
        <5> DEFINE X == Calls(l) \X Says
                   e == <<c, "real">>
        <5>1. log[l] \in Seq(X) /\ e \in X /\ e[1] = c
          BY <1>0, <4>1 DEF BlockType, Says
        <5> HIDE DEF X, e
        <5>2. /\ Len(log'[l]) = Len(log[l]) + 1 /\ Len(log[l]) \in Nat
              /\ \A i \in 1..Len(log[l]) : log'[l][i] = log[l][i]
              /\ log'[l][Len(log[l]) + 1] = e
          BY <5>1, <4>3, LastPart DEF e
        <5>3. c \in Answered(log'[l])
          BY <5>1, <5>2 DEF Answered
        <5>4. Answered(log[l]) \subseteq Answered(log'[l])
          BY <5>2 DEF Answered
        <5>5. \E s : call' = [call EXCEPT ![l][c] = s]
          BY <2>2, <3>2 DEF ShellReturns, Becomes
        <5> QED BY <1>3, <4>1, <5>3, <5>4, <5>5
      <4> QED BY <1>0, <3>2, <4>2, <4>3 DEF ShellReturns, Shape
    <3> QED BY <1>4, <2>2, <3>1, <3>2 DEF CallStep
  <2> QED BY <2>1, <2>2
<1>5. ASSUME NEW c \in Calls(Root), DelegateReturns(c) PROVE AnswerInv(l)'
  <2>1. /\ call[Root][c] \in InProgress /\ call' = [call EXCEPT ![Root][c] = "real"]
        /\ UNCHANGED <<batch, flushed, log, phase>>
    BY <1>5 DEF DelegateReturns, Becomes, InProgress
  <2>2. CASE l = Root
    <3>1. c \in Calls(l) /\ call[l][c] \in InProgress
      BY <1>5, <2>1, <2>2
    <3>2. PICK s : s # "own" /\ call' = [call EXCEPT ![l][c] = s]
      BY <2>1, <2>2
    <3>3. s = "own" => c \in Answered(log'[l])
      BY <3>2
    <3>4. Answered(log[l]) \subseteq Answered(log'[l]) /\ UNCHANGED <<batch, flushed, phase>>
      BY <2>1
    <3>5. call' = [call EXCEPT ![l][c] = s]
      BY <3>2
    <3> QED BY ONLY <1>3, <3>1, <3>3, <3>4, <3>5
  <2>3. CASE l # Root
    BY <1>0, <1>1, <2>1, <2>3 DEF Shape
  <2> QED BY <2>2, <2>3
<1>6. ASSUME NEW k \in Children, ChildStarts(k) PROVE AnswerInv(l)'
  <2>1. k \in Loops /\ phase[k] = "off" /\ UNCHANGED blockVars /\ Go(k, "head")
    BY <1>6 DEF ChildStarts, Loops
  <2>2. phase'[k] = "head" /\ (l # k => phase'[l] = phase[l])
    BY <1>0, <2>1, Goes
  <2>3. CASE l = k
    <3>1. batch[l] = <<>> /\ log[l] = <<>>
      BY <1>0, <2>1, <2>3 DEF FreshInv, Fresh
    <3>2. Answered(log'[l]) = Calls(l)'
      BY <2>1, <3>1 DEF Answered, Calls, blockVars
    <3> QED BY <2>2, <2>3, <3>2 DEF AnswerInv, Rounding
  <2> QED BY <1>1, <2>1, <2>2, <2>3 DEF blockVars
<1>7. CASE CloseTask \/ Persist
  <2>1. /\ Root \in Loops /\ phase[Root] \in {"closing", "persist"} /\ UNCHANGED blockVars
        /\ Go(Root, "persist") \/ Go(Root, "over")
    BY <1>7 DEF CloseTask, Persist, Loops
  <2>2. phase'[Root] \in {"persist", "over"} /\ (l # Root => phase'[l] = phase[l])
    BY <1>0, <2>1, Goes
  <2>3. CASE l = Root
    <3>1. Answered(log[l]) = Calls(l)
      BY <1>0, <2>1, <2>3 DEF AnswerInv, AtRest
    <3> QED BY <2>1, <2>2, <2>3, <3>1 DEF AnswerInv, Rounding, blockVars, Calls
  <2> QED BY <1>1, <2>1, <2>2, <2>3 DEF blockVars
<1>8. CASE Submit \/ Stop \/ StopCloses \/ UNCHANGED vars
  BY <1>1, <1>8 DEF Submit, Stop, StopCloses, vars, blockVars
<1> QED BY <1>2, <1>4, <1>5, <1>6, <1>7, <1>8 DEF Next, Finished

(* A child works under a delegate call of the root that is running.        *)
LEMMA TeamStep ==
  ASSUME TInv, BusyInv, TeamInv, CallInv(Root), [Next]_vars
  PROVE  TeamInv'
<1>0. LogType /\ LoopType /\ Shape /\ Root \in Loops /\ Children \subseteq Loops /\ BlockType(Root)
      /\ Calls(Root) = 1..Len(batch[Root]) /\ Len(batch[Root]) \in Nat
  BY TypeParts, BlockTyped DEF TInv, Loops
<1>1. ASSUME NEW c \in Calls(Root), batch[Root][c] = "delegate", call[Root][c] = "running",
             batch'[Root] = batch[Root], call'[Root][c] = call[Root][c]
      PROVE  Delegating'
  BY <1>1 DEF Delegating, Calls
<1>2. ASSUME UNCHANGED <<batch[Root], call[Root]>>,
             NEW k \in Children, Working(k)
      PROVE  Delegating'
  BY <1>2 DEF TeamInv, Delegating, Calls
<1>3. ASSUME NEW l \in Loops, LoopStep(l) PROVE TeamInv'
  <2> SUFFICES ASSUME NEW k \in Children, Working(k)' PROVE Delegating'
    BY DEF TeamInv
  <2>1. Working(k)
    <3>1. k # l => phase'[k] = phase[k]
      BY <1>0, <1>3, LoopsApart DEF SameLoop
    <3>2. phase[l] \notin {"off", "over"}
      BY <1>3 DEF LoopStep, LoopHead, Request, Receive, StreamRaises, Answer, NoAnswer, Propose, RejectBatch,
           RefuseBatch, RefusalRaises, AcceptBatch, BeginBatch, Dispatch, Settle, Serial, SerialDone,
           DispatchOver, RoundOver, FlushRaises
    <3> QED BY <3>1, <3>2 DEF Working
  <2>2. CASE l # Root
    BY <1>0, <1>2, <1>3, <2>1, <2>2, BlocksApart DEF SameBlock
  <2>3. CASE l = Root
    <3>1. PICK c \in Calls(Root) : batch[Root][c] = "delegate" /\ call[Root][c] = "running"
      BY <2>1 DEF TeamInv, Delegating
    <3>2. Busy(Root)
      BY <3>1 DEF Busy, InProgress
    <3>3. phase[Root] \in Rounding
      BY <1>0, <3>2 DEF BusyInv
    <3>4. CASE Dispatch(Root)
      <4>1. PICK d \in NextCall(Root) : call' = [call EXCEPT ![Root][d] = "queued"]
        BY <3>4 DEF Dispatch
      <4>2. d # c /\ batch' = batch
        BY <3>1, <3>4, <4>1 DEF Dispatch, NextCall
      <4>3. call'[Root][c] = call[Root][c]
        BY <1>0, <3>1, <4>1, <4>2 DEF Shape, BlockType
      <4> QED BY <1>1, <3>1, <4>2, <4>3
    <3>5. CASE Settle(Root) \/ DispatchOver(Root)
      BY <1>1, <3>1, <3>5 DEF Settle, DispatchOver, blockVars
    <3> QED BY <1>3, <2>3, <3>2, <3>3, <3>4, <3>5 DEF LoopStep, LoopHead, Request, Receive, StreamRaises, Answer,
             NoAnswer, Propose, RejectBatch, RefuseBatch, RefusalRaises, AcceptBatch, BeginBatch, Serial,
             SerialDone, RoundOver, FlushRaises, Rounding
  <2> QED BY <2>2, <2>3
<1>4. ASSUME NEW l \in Loops, NEW d \in Calls(l), CallStep(l, d) PROVE TeamInv'
  <2> SUFFICES ASSUME NEW k \in Children, Working(k)' PROVE Delegating'
    BY DEF TeamInv
  <2>1. UNCHANGED <<phase, batch>>
    BY <1>4 DEF CallStep, Claim, Admit, Return, ShellReturns
  <2>2. Working(k)
    BY <2>1 DEF Working
  <2>3. CASE l # Root
    BY <1>0, <1>2, <1>4, <2>2, <2>3, BlocksApart DEF SameBlock
  <2>4. CASE l = Root
    <3>1. PICK c \in Calls(Root) : batch[Root][c] = "delegate" /\ call[Root][c] = "running"
      BY <2>2 DEF TeamInv, Delegating
    <3>2. d # c
      BY <1>4, <2>4, <3>1 DEF CallStep, Claim, Admit, Return, ShellReturns
    <3>3. \E s : call' = [call EXCEPT ![Root][d] = s]
      <4>1. CASE Claim(l, d)
        BY <2>4, <4>1 DEF Claim, Becomes
      <4>2. CASE Admit(l, d)
        BY <2>4, <4>2 DEF Admit, Becomes
      <4>3. CASE Return(l, d) \/ ShellReturns(l, d)
        BY <2>4, <4>3 DEF Return, ShellReturns, Becomes
      <4> QED BY <1>4, <4>1, <4>2, <4>3 DEF CallStep
    <3>4. call'[Root][c] = call[Root][c]
      BY <1>0, <3>1, <3>2, <3>3 DEF Shape, BlockType
    <3> QED BY <1>1, <2>1, <3>1, <3>4
  <2> QED BY <2>3, <2>4
<1>5. ASSUME NEW d \in Calls(Root), DelegateReturns(d) PROVE TeamInv'
  BY <1>5 DEF DelegateReturns, TeamInv, Working
<1>6. ASSUME NEW k \in Children, ChildStarts(k) PROVE TeamInv'
  <2>1. Delegating /\ UNCHANGED blockVars
    BY <1>6 DEF ChildStarts
  <2> QED BY <2>1 DEF TeamInv, Delegating, blockVars, Calls
<1>7. CASE CloseTask \/ Persist
  <2> SUFFICES ASSUME NEW k \in Children, Working(k)' PROVE Delegating'
    BY DEF TeamInv
  <2>1. UNCHANGED blockVars /\ (Go(Root, "persist") \/ Go(Root, "over"))
    BY <1>7 DEF CloseTask, Persist
  <2>2. k # Root
    BY RootAssumption
  <2>3. phase'[k] = phase[k]
    BY <1>0, <2>1, <2>2, Goes
  <2> QED BY <1>2, <2>1, <2>3 DEF blockVars, Working
<1>8. CASE Submit \/ Stop \/ StopCloses \/ UNCHANGED vars
  <2>1. UNCHANGED <<phase, batch, call>>
    BY <1>8 DEF Submit, Stop, StopCloses, vars, blockVars
  <2> QED BY <2>1 DEF TeamInv, Working, Delegating, Calls
<1> QED BY <1>3, <1>4, <1>5, <1>6, <1>7, <1>8 DEF Next, Finished

(* What CallsClosed rests on, and that it is inductive. *)
CallsInv == (\A l \in Loops : CallInv(l) /\ AnswerInv(l)) /\ TeamInv

LEMMA CallsInit == Init => CallsInv
<1> SUFFICES ASSUME Init PROVE CallsInv
  OBVIOUS
<1>1. ASSUME NEW l \in Loops PROVE CallInv(l) /\ AnswerInv(l)
  <2>1. /\ phase[l] \in {"head", "off"} /\ Calls(l) = {} /\ log[l] = <<>>
    BY DEF Init, Calls
  <2>2. Answered(log[l]) = {}
    BY <2>1 DEF Answered
  <2> QED BY <2>1, <2>2 DEF CallInv, AnswerInv, Rounding
<1>2. TeamInv
  BY RootAssumption DEF Init, TeamInv, Working, Loops
<1> QED BY <1>1, <1>2 DEF CallsInv

LEMMA CallsStep == TInv /\ BusyInv /\ CallsInv /\ [Next]_vars => CallsInv'
<1> SUFFICES ASSUME TInv, BusyInv, CallsInv, [Next]_vars PROVE CallsInv'
  OBVIOUS
<1>1. \A l \in Loops : CallInv(l)'
  BY CallInvStep DEF CallsInv
<1>2. \A l \in Loops : AnswerInv(l)'
  BY AnswerInvStep DEF CallsInv
<1>3. TeamInv'
  BY TeamStep DEF CallsInv, Loops
<1> QED BY <1>1, <1>2, <1>3 DEF CallsInv

LEMMA CallsKept == Spec => [](TInv /\ BusyInv /\ SInv /\ CallsInv)
<1>1. Init => CallsInv
  BY CallsInit
<1>2. (TInv /\ BusyInv /\ SInv) /\ CallsInv /\ [Next]_vars => CallsInv'
  BY CallsStep
<1> QED BY <1>1, <1>2, Steered, PTL DEF Spec

(* A call overlaps neither what it must be alone with nor the end of its   *)
(* agent, and none is left behind unanswered, whatever a Stop, a correction *)
(* or a raising observer did.                                              *)
THEOREM CallsAreClosed == Spec => []CallsClosed
<1>1. TInv /\ BusyInv /\ SInv /\ CallsInv => CallsClosed
  <2> SUFFICES ASSUME TInv, BusyInv, SInv, CallsInv PROVE CallsClosed
    OBVIOUS
  <2>1. EveryCallAnswered
    BY DEF CallsInv, AnswerInv, EveryCallAnswered
  <2>2. SerialAlone
    <3> SUFFICES ASSUME NEW l \in Loops, NEW c \in Calls(l), NEW d \in Calls(l),
                        call[l][c] = "running", call[l][d] = "running", c # d
                 PROVE  batch[l][c] = "read" /\ batch[l][d] = "read"
      BY DEF SerialAlone
    <3>1. call[l][c] \in InProgress /\ call[l][d] \in InProgress
      BY DEF InProgress
    <3>2. phase[l] \in Rounding
      BY <3>1 DEF BusyInv, Busy
    <3>3. InOrder(l)
      BY <3>2 DEF CallsInv, CallInv
    <3> QED BY <3>1, <3>3 DEF InOrder
  <2>3. QuiescentEnd
    <3>1. ASSUME NEW l \in Loops, ending[l] # "none" PROVE ~Busy(l)
      BY <3>1 DEF SInv, Stage, BusyInv, Ended, Rounding
    <3>2. Root \in Loops
      BY DEF Loops
    <3>3. ~Busy(Root) => ~Delegating
      BY DEF Delegating, Busy, InProgress
    <3> QED BY <3>1, <3>2, <3>3 DEF QuiescentEnd, CallsInv, TeamInv
  <2> QED BY <2>1, <2>2, <2>3 DEF CallsClosed
<1> QED BY <1>1, CallsKept, PTL

-----------------------------------------------------------------------------
(* The order of the results, while no observer raises.                     *)

Ascending(lg) == \A i, j \in 1..Len(lg) : i < j => lg[i][1] < lg[j][1]
Holds(lg, e) == \E i \in 1..Len(lg) : lg[i] = e

(* The results behind the block are those of calls that are flushed, or of *)
(* the shell call that is next and appended its own.                       *)
LogBounded(l) ==
  \A i \in 1..Len(log[l]) :
    log[l][i][1] <= flushed[l] \/ (log[l][i][1] = flushed[l] + 1 /\ call[l][flushed[l] + 1] = "own")

(* What a tool returned is in the log, once it is flushed. *)
RealHeld(l) ==
  \A c \in Calls(l) :
    (call[l][c] = "real" /\ c <= flushed[l]) \/ call[l][c] = "own" => Holds(log[l], <<c, "real">>)

(* A call that runs alone is the next to be flushed. *)
SerialNext(l) ==
  phase[l] = "serial" => \A c \in Calls(l) : call[l][c] \in InProgress => c = flushed[l] + 1

(* What a round keeps of the order, and what is left when it is over. *)
OrderOf(l) ==
  phase[l] \in Rounding => Ascending(log[l]) /\ LogBounded(l) /\ RealHeld(l) /\ SerialNext(l)

Faithful(l) ==
  /\ AtRest(l) =>
       /\ Len(log[l]) = Len(batch[l])
       /\ \A c \in Calls(l) : call[l][c] = "real" => Holds(log[l], <<c, "real">>)
  /\ phase[l] = "head" => \A i \in 1..Len(log[l]) : log[l][i][1] = i

(* What a flush does to an ordered log.                                    *)
LEMMA FlushOrder ==
  ASSUME NEW l \in Loops, BlockType(l), Len(batch[l]) \in Nat, Ascending(log[l]), LogBounded(l), RealHeld(l)
  PROVE  /\ Flushed(l) \in Seq(Calls(l) \X Says)
         /\ Ascending(Flushed(l))
         /\ \A i \in 1..Len(Flushed(l)) : Flushed(l)[i][1] <= flushed[l] + Cardinality(Flushable(l))
         /\ \A c \in Calls(l) :
              (call[l][c] = "real" /\ c <= flushed[l] + Cardinality(Flushable(l))) \/ call[l][c] = "own"
                => Holds(Flushed(l), <<c, "real">>)
<1> DEFINE X == Calls(l) \X Says
           f == Flushed(l)
           n == Len(log[l])
<1>0. log[l] \in Seq(X) /\ flushed[l] \in 0..Len(batch[l]) /\ flushed[l] \in Nat /\ Calls(l) = 1..Len(batch[l])
  BY DEF BlockType, Calls
<1>1. PICK r \in Seq(X) :
        /\ f = log[l] \o r
        /\ Answered(r) = {c \in Flushable(l) : call[l][c] \in WithPayload}
        /\ \A i \in 1..Len(r) : r[i] = <<r[i][1], call[l][r[i][1]]>>
        /\ \A i, j \in 1..Len(r) : i < j => r[i][1] < r[j][1]
  BY <1>0, FlushedIs
<1>2. PICK m \in flushed[l]..Len(batch[l]) :
        /\ Flushable(l) = flushed[l] + 1 .. m
        /\ Cardinality(Flushable(l)) = m - flushed[l]
        /\ m < Len(batch[l]) => call[l][m + 1] \notin Resolved
  BY <1>0, FlushableIs
<1>m. flushed[l] + Cardinality(Flushable(l)) = m /\ m \in Nat
  BY <1>0, <1>2
<1>x. (\A i \in 1..n : log[l][i] \in X) /\ n \in Nat /\ Len(r) \in Nat
  <2>1. log[l] \in Seq(X) /\ r \in Seq(X)
    BY <1>0, <1>1
  <2> HIDE DEF X
  <2> QED BY <2>1
<1>t. \A i \in 1..n : log[l][i][1] \in Nat /\ log[l][i][1] \in Calls(l)
  BY <1>0, <1>x
<1>r. \A i \in 1..Len(r) : r[i][1] \in flushed[l] + 1 .. m /\ call[l][r[i][1]] \in WithPayload
  <2> TAKE i \in 1..Len(r)
  <2>1. r[i][1] \in Answered(r)
    BY DEF Answered
  <2> QED BY <1>1, <1>2, <2>1
<1> HIDE DEF X, f
<1>3. /\ f \in Seq(X) /\ Len(f) = n + Len(r)
      /\ \A i \in 1..n : f[i] = log[l][i]
      /\ \A i \in 1..Len(r) : f[n + i] = r[i]
  BY <1>0, <1>1, <1>x
<1>s. ASSUME NEW i \in 1..Len(f), i > n PROVE i - n \in 1..Len(r) /\ f[i] = r[i - n]
  <2>1. i - n \in 1..Len(r) /\ n + (i - n) = i
    BY <1>3, <1>s, <1>x
  <2> QED BY <1>3, <2>1
<1>4. Ascending(f)
  <2> SUFFICES ASSUME NEW i \in 1..Len(f), NEW j \in 1..Len(f), i < j PROVE f[i][1] < f[j][1]
    BY DEF Ascending
  <2>1. CASE j <= n
    <3>1. i \in 1..n /\ j \in 1..n
      BY <1>x, <2>1
    <3> QED BY <1>3, <3>1 DEF Ascending
  <2>2. CASE i <= n /\ j > n
    <3>1. i \in 1..n /\ j - n \in 1..Len(r) /\ f[i] = log[l][i] /\ f[j] = r[j - n]
      <4>1. i \in 1..n
        BY <1>x, <2>2
      <4>2. j - n \in 1..Len(r) /\ f[j] = r[j - n]
        BY <1>s, <2>2
      <4> QED BY <1>3, <4>1, <4>2
    <3>2. /\ log[l][i][1] \in Nat /\ r[j - n][1] \in flushed[l] + 1 .. m
          /\ call[l][r[j - n][1]] \in WithPayload
      BY <1>r, <1>t, <3>1
    <3>3. log[l][i][1] <= flushed[l] \/ (log[l][i][1] = flushed[l] + 1 /\ call[l][flushed[l] + 1] = "own")
      BY <3>1 DEF LogBounded
    <3>o. \A x, y \in Nat : x <= flushed[l] /\ y \in flushed[l] + 1 .. m => x < y
      BY <1>0, <1>m
    <3>n. r[j - n][1] \in Nat
      BY <1>0, <1>m, <3>2
    <3>4. CASE log[l][i][1] <= flushed[l]
      BY ONLY <3>1, <3>2, <3>4, <3>n, <3>o
    <3>5. CASE log[l][i][1] = flushed[l] + 1 /\ call[l][flushed[l] + 1] = "own"
      <4>1. r[j - n][1] # flushed[l] + 1
        BY <3>2, <3>5 DEF WithPayload
      <4>2. \A y \in Nat : y \in flushed[l] + 1 .. m /\ y # flushed[l] + 1 => flushed[l] + 1 < y
        BY <1>0, <1>m
      <4> QED BY ONLY <3>1, <3>2, <3>5, <3>n, <4>1, <4>2
    <3> QED BY <3>3, <3>4, <3>5
  <2>3. CASE i > n
    <3>1. /\ i - n \in 1..Len(r) /\ j - n \in 1..Len(r) /\ f[i] = r[i - n] /\ f[j] = r[j - n]
          /\ i - n < j - n
      <4>1. i \in Nat /\ j \in Nat /\ j > n
        BY <1>x, <1>3, <2>3
      <4>2. i - n < j - n
        BY <1>x, <4>1
      <4>3. i - n \in 1..Len(r) /\ f[i] = r[i - n]
        BY <1>s, <2>3
      <4>4. j - n \in 1..Len(r) /\ f[j] = r[j - n]
        BY <1>s, <4>1
      <4> QED BY ONLY <4>2, <4>3, <4>4
    <3>2. r[i - n][1] < r[j - n][1]
      BY <1>1, <3>1
    <3> QED BY ONLY <3>1, <3>2
  <2> QED BY <1>x, <2>1, <2>2, <2>3
<1>5. ASSUME NEW i \in 1..Len(f) PROVE f[i][1] <= m
  <2>1. CASE i > n
    <3>1. i - n \in 1..Len(r) /\ f[i] = r[i - n]
      BY <1>s, <2>1
    <3>2. r[i - n][1] \in flushed[l] + 1 .. m
      BY <1>r, <3>1
    <3> QED BY <1>0, <1>m, <3>1, <3>2
  <2>2. CASE i <= n
    <3>1. f[i][1] = log[l][i][1] /\ i \in 1..n /\ log[l][i][1] \in Calls(l)
      BY <1>3, <1>t, <1>x, <2>2
    <3>2. CASE log[l][i][1] <= flushed[l]
      BY <1>0, <1>2, <3>1, <3>2
    <3>3. CASE log[l][i][1] = flushed[l] + 1 /\ call[l][flushed[l] + 1] = "own"
      <4>1. ~(m = flushed[l])
        BY <1>0, <1>2, <3>1, <3>3 DEF Resolved
      <4> QED BY <1>0, <1>m, <1>2, <3>1, <3>3, <4>1
    <3> QED BY <3>1, <3>2, <3>3 DEF LogBounded
  <2> QED BY <1>x, <2>1, <2>2
<1>6. ASSUME NEW c \in Calls(l), (call[l][c] = "real" /\ c <= m) \/ call[l][c] = "own"
      PROVE  Holds(f, <<c, "real">>)
  <2>1. CASE (call[l][c] = "real" /\ c <= flushed[l]) \/ call[l][c] = "own"
    <3>1. PICK i \in 1..n : log[l][i] = <<c, "real">>
      BY <2>1 DEF RealHeld, Holds
    <3>2. i \in 1..Len(f)
      BY <1>3, <1>x
    <3> QED BY <1>3, <3>1, <3>2 DEF Holds
  <2>2. CASE call[l][c] = "real" /\ ~(c <= flushed[l]) /\ c <= m
    <3>1. c \in flushed[l] + 1 .. m
      BY <1>0, <1>m, <2>2
    <3>2. c \in Answered(r)
      BY <1>1, <1>2, <2>2, <3>1 DEF WithPayload
    <3>3. PICK i \in 1..Len(r) : r[i][1] = c
      BY <3>2 DEF Answered
    <3>4. r[i] = <<c, "real">>
      BY <1>1, <2>2, <3>3
    <3>5. n + i \in 1..Len(f) /\ f[n + i] = r[i]
      BY <1>3, <1>x
    <3> QED BY <3>4, <3>5 DEF Holds
  <2> QED BY <1>6, <2>1, <2>2
<1> QED BY <1>3, <1>4, <1>5, <1>6, <1>m DEF X, f

(* An ordered log says nothing twice. *)
LEMMA AscendingOnce ==
  ASSUME NEW n \in Nat, NEW lg \in Seq((1..n) \X Says), Ascending(lg)
  PROVE  Len(lg) + Cardinality((1..n) \ Answered(lg)) = n
<1> DEFINE A == Answered(lg)
           h == [i \in 1..Len(lg) |-> lg[i][1]]
<1>1. \A i \in 1..Len(lg) : lg[i][1] \in 1..n
  OBVIOUS
<1>2. A \in SUBSET (1..n) /\ Len(lg) \in Nat
  BY <1>1 DEF Answered
<1>3. h \in Bijection(1..Len(lg), A)
  <2>1. h \in [1..Len(lg) -> A] /\ \A c \in A : \E i \in 1..Len(lg) : h[i] = c
    BY DEF Answered
  <2>2. ASSUME NEW i \in 1..Len(lg), NEW j \in 1..Len(lg), h[i] = h[j] PROVE i = j
    <3>1. lg[i][1] = lg[j][1] /\ lg[i][1] \in Nat
      BY <1>1, <2>2
    <3>2. ~(i < j) /\ ~(j < i)
      BY <3>1 DEF Ascending
    <3> QED BY <1>2, <3>2
  <2> HIDE DEF h, A
  <2> QED BY <2>1, <2>2 DEF Bijection, Injection, Surjection, IsInjective
<1>4. IsFiniteSet(1..Len(lg)) /\ Cardinality(1..Len(lg)) = Len(lg) /\ IsFiniteSet(1..n) /\ Cardinality(1..n) = n
  <2>1. ASSUME NEW k \in Nat PROVE IsFiniteSet(1..k) /\ Cardinality(1..k) = k
    <3>1. IsFiniteSet(1..k) /\ Cardinality(1..k) = IF 1 > k THEN 0 ELSE k - 1 + 1
      BY FS_Interval
    <3> QED BY <3>1
  <2> QED BY <1>2, <2>1
<1>5. Cardinality(A) = Len(lg) /\ IsFiniteSet(A)
  <2> HIDE DEF A, h
  <2>1. ExistsBijection(1..Len(lg), A)
    BY <1>3 DEF ExistsBijection
  <2> QED BY <1>4, <2>1, FS_Bijection
<1>6. Cardinality((1..n) \ A) = Cardinality(1..n) - Cardinality((1..n) \cap A)
  <2> HIDE DEF A
  <2> QED BY <1>4, FS_Difference
<1>7. (1..n) \cap A = A
  BY <1>2
<1> HIDE DEF A
<1>8. Cardinality((1..n) \ A) = n - Len(lg)
  BY <1>4, <1>5, <1>6, <1>7
<1> QED BY <1>2, <1>8 DEF A

(* The first call that has not returned is where a flush stops. *)
LEMMA ResolvedBefore ==
  ASSUME NEW l \in Loops, BlockType(l), Len(batch[l]) \in Nat, NEW c \in Calls(l),
         \A d \in Calls(l) : d < c => call[l][d] \in Resolved
  PROVE  /\ call[l][c] \in Resolved => c <= flushed[l] + Cardinality(Flushable(l))
         /\ call[l][c] \notin Resolved /\ flushed[l] < c => flushed[l] + Cardinality(Flushable(l)) = c - 1
<1>1. flushed[l] \in 0..Len(batch[l]) /\ flushed[l] \in Nat /\ c \in 1..Len(batch[l])
  BY DEF BlockType, Calls
<1>2. PICK m \in flushed[l]..Len(batch[l]) :
        /\ Cardinality(Flushable(l)) = m - flushed[l]
        /\ \A d \in flushed[l] + 1 .. m : call[l][d] \in Resolved
        /\ m < Len(batch[l]) => call[l][m + 1] \notin Resolved
  BY <1>1, FlushableIs
<1>3. flushed[l] + Cardinality(Flushable(l)) = m /\ m \in Nat
  BY <1>1, <1>2
<1>4. m >= c - 1
  <2> SUFFICES ASSUME m < c - 1 PROVE FALSE
    BY <1>1, <1>3
  <2>1. m + 1 \in Calls(l) /\ m + 1 < c /\ m < Len(batch[l])
    BY <1>1, <1>3 DEF Calls
  <2> QED BY <1>2, <2>1
<1>5. call[l][c] \in Resolved => m >= c
  <2> SUFFICES ASSUME call[l][c] \in Resolved, m < c PROVE FALSE
    BY <1>1, <1>3
  <2>1. m + 1 = c /\ m < Len(batch[l])
    BY <1>1, <1>3, <1>4
  <2> QED BY <1>2, <2>1
<1>6. call[l][c] \notin Resolved /\ flushed[l] < c => m = c - 1
  <2> SUFFICES ASSUME call[l][c] \notin Resolved, flushed[l] < c, m >= c PROVE FALSE
    BY <1>1, <1>3, <1>4
  <2>1. c \in flushed[l] + 1 .. m
    BY <1>1, <1>3
  <2> QED BY <1>2, <2>1
<1> QED BY <1>1, <1>3, <1>4, <1>5, <1>6

(* A loop in a round keeps the order. *)
LEMMA RoundOrder ==
  ASSUME TInv, NEW l \in Loops, CallInv(l), OrderOf(l), LoopStep(l), phase'[l] \in Rounding
  PROVE  OrderOf(l)'
<1>0. /\ LogType /\ LoopType /\ Shape /\ BlockType(l) /\ FreshInv
      /\ Calls(l) = 1..Len(batch[l]) /\ Len(batch[l]) \in Nat
  BY TypeParts, BlockTyped DEF TInv
<1>p. phase[l] \in Rounding => Ascending(log[l]) /\ LogBounded(l) /\ RealHeld(l) /\ SerialNext(l)
  BY DEF OrderOf
<1>t. \A i \in 1..Len(log[l]) : log[l][i][1] \in Calls(l)
  <2>1. log[l] \in Seq(Calls(l) \X Says)
    BY <1>0 DEF BlockType
  <2> QED BY ONLY <2>1
<1>1. CASE Settle(l) \/ DispatchOver(l)
  <2>1. UNCHANGED blockVars /\ phase[l] \in Rounding /\ phase'[l] # "serial"
    BY <1>0, <1>1, Goes DEF Settle, DispatchOver, Rounding
  <2> QED BY <1>p, <2>1 DEF OrderOf, Ascending, LogBounded, RealHeld, SerialNext, Holds, blockVars, Calls
<1>2. CASE Dispatch(l)
  <2>1. PICK d \in NextCall(l) : call' = [call EXCEPT ![l][d] = "queued"]
    BY <1>2 DEF Dispatch
  <2>2. phase[l] \in Rounding /\ UNCHANGED <<batch, flushed, log>> /\ phase'[l] # "serial" /\ Calls(l)' = Calls(l)
    BY <1>2 DEF Dispatch, Rounding, Calls
  <2>3. call[l][d] = "new" /\ d \in Calls(l)
    BY <2>1 DEF NextCall
  <2>4. \A c \in Calls(l) : call'[l][c] = IF c = d THEN "queued" ELSE call[l][c]
    BY <1>0, <2>1, <2>3 DEF Shape, BlockType
  <2>5. LogBounded(l)'
    <3> SUFFICES ASSUME NEW i \in 1..Len(log[l])
                 PROVE  \/ log[l][i][1] <= flushed[l]
                        \/ log[l][i][1] = flushed[l] + 1 /\ call'[l][flushed[l] + 1] = "own"
      BY <2>2 DEF LogBounded
    <3>1. log[l][i][1] <= flushed[l] \/ (log[l][i][1] = flushed[l] + 1 /\ call[l][flushed[l] + 1] = "own")
      BY <1>p, <2>2 DEF LogBounded
    <3>2. log[l][i][1] \in Calls(l)
      BY <1>t
    <3> QED BY <2>3, <2>4, <3>1, <3>2
  <2>6. RealHeld(l)'
    <3>1. RealHeld(l)
      BY <1>p, <2>2
    <3>2. \A c \in Calls(l) : call'[l][c] \in {"real", "own"} => call[l][c] = call'[l][c]
      BY <2>4
    <3> QED BY <2>2, <3>1, <3>2 DEF RealHeld
  <2> QED BY <1>p, <2>2, <2>5, <2>6 DEF OrderOf, Ascending, SerialNext
<1>3. CASE Serial(l) \/ SerialDone(l)
  <2>1. /\ phase[l] \in Rounding /\ ~Busy(l) /\ batch' = batch /\ log'[l] = Flushed(l) /\ Calls(l)' = Calls(l)
        /\ flushed'[l] = flushed[l] + Cardinality(Flushable(l))
    BY <1>0, <1>3 DEF Serial, SerialDone, Flush, Rounding, Shape, Calls
  <2>2. /\ Ascending(Flushed(l))
        /\ \A i \in 1..Len(Flushed(l)) : Flushed(l)[i][1] <= flushed[l] + Cardinality(Flushable(l))
        /\ \A c \in Calls(l) :
             (call[l][c] = "real" /\ c <= flushed[l] + Cardinality(Flushable(l))) \/ call[l][c] = "own"
               => Holds(Flushed(l), <<c, "real">>)
    BY <1>0, <1>p, <2>1, FlushOrder
  <2>3. \/ call' = call /\ phase'[l] # "serial"
        \/ \E d \in NextCall(l) : call' = [call EXCEPT ![l][d] = "queued"]
    <3>1. CASE SerialDone(l) \/ cancel
      BY <1>0, <1>3, <3>1, Goes DEF Serial, SerialDone
    <3>2. CASE ~SerialDone(l) /\ ~cancel
      BY <1>3, <3>2 DEF Serial
    <3> QED BY <3>1, <3>2
  <2>4. CASE call' = call /\ phase'[l] # "serial"
    BY <2>1, <2>2, <2>4 DEF OrderOf, LogBounded, RealHeld, SerialNext
  <2>5. ASSUME NEW d \in NextCall(l), call' = [call EXCEPT ![l][d] = "queued"] PROVE OrderOf(l)'
    <3>1. d \in Calls(l) /\ call[l][d] = "new" /\ \A c \in 1..(d - 1) : call[l][c] # "new"
      BY DEF NextCall
    <3>2. \A c \in Calls(l) : call'[l][c] = IF c = d THEN "queued" ELSE call[l][c]
      BY <1>0, <2>5, <3>1 DEF Shape, BlockType
    <3>3. \A c \in Calls(l) : call'[l][c] \in {"real", "own"} => call[l][c] = call'[l][c]
      BY <3>2
    <3>4. \A c \in Calls(l) : c < d => call[l][c] \in Resolved
      <4> TAKE c \in Calls(l)
      <4> HAVE c < d
      <4>1. c \in 1..(d - 1)
        BY <1>0, <3>1
      <4>2. call[l][c] # "new" /\ call[l][c] \notin InProgress
        BY <2>1, <3>1, <4>1 DEF Busy
      <4> QED BY <1>0, <4>2 DEF BlockType
    <3>5. flushed[l] < d
      <4> SUFFICES ASSUME ~(flushed[l] < d) PROVE FALSE
        OBVIOUS
      <4>1. d \in 1..flushed[l]
        BY <1>0, <3>1 DEF BlockType
      <4>2. call[l][d] \in Resolved
        BY <2>1, <4>1 DEF CallInv, InOrder
      <4> QED BY <3>1, <4>2, Outcomes
    <3>6. flushed'[l] = d - 1
      BY <1>0, <2>1, <3>1, <3>4, <3>5, ResolvedBefore, Outcomes
    <3>7. \A c \in Calls(l) : call'[l][c] \in InProgress => c = flushed'[l] + 1
      BY <1>0, <2>1, <3>1, <3>2, <3>6 DEF Busy
    <3> QED BY <2>1, <2>2, <3>3, <3>7 DEF OrderOf, LogBounded, RealHeld, SerialNext
  <2> QED BY <2>3, <2>4, <2>5
<1>4. CASE BeginBatch(l)
  <2>1. UNCHANGED <<batch, call, flushed>> /\ phase[l] = "accepted" /\ Calls(l)' = Calls(l)
    BY <1>4 DEF BeginBatch, Calls
  <2>2. flushed[l] = 0 /\ log[l] = <<>> /\ \A c \in Calls(l) : call[l][c] \in Untried
    BY <2>1 DEF CallInv
  <2>3. phase'[l] # "serial" /\ log'[l] = log[l]
    BY <1>0, <1>4, Goes, EndsSo DEF BeginBatch, Rounding
  <2>4. Ascending(log'[l]) /\ LogBounded(l)'
    BY <2>2, <2>3 DEF Ascending, LogBounded
  <2>5. RealHeld(l)'
    BY <2>1, <2>2 DEF RealHeld, Untried
  <2> QED BY <2>3, <2>4, <2>5 DEF OrderOf, SerialNext
<1> QED
  <2>1. Request(l) \/ Receive(l) \/ LoopHead(l) \/ Answer(l) \/ NoAnswer(l) \/ Propose(l) \/ AcceptBatch(l)
        \/ RejectBatch(l) \/ RefuseBatch(l) \/ StreamRaises(l) \/ RefusalRaises(l) \/ FlushRaises(l)
        \/ RoundOver(l) => phase'[l] \notin Rounding
    BY <1>0, Goes, EndsSo, RaisesSo DEF Request, Receive, LoopHead, Answer, Finish, NoAnswer, Propose,
         AcceptBatch, RejectBatch, RefuseBatch, StreamRaises, RefusalRaises, FlushRaises, RoundOver, Rounding
  <2> QED BY <1>1, <1>2, <1>3, <1>4, <2>1 DEF LoopStep

(* A call that returns is behind the flushed ones, and its result with it  *)
(* unless it is a shell call, which is the next.                           *)
LEMMA CallOrder ==
  ASSUME TInv, BusyInv, NEW l \in Loops, CallInv(l), OrderOf(l), NEW c \in Calls(l), call[l][c] \in InProgress,
         NEW s, call' = [call EXCEPT ![l][c] = s], UNCHANGED <<batch, flushed, phase>>,
         \/ s # "own" /\ log'[l] = log[l]
         \/ s = "own" /\ batch[l][c] = "shell" /\ log'[l] = Append(log[l], <<c, "real">>)
  PROVE  OrderOf(l)'
<1> DEFINE X == Calls(l) \X Says
           e == <<c, "real">>
           n == Len(log[l])
<1>0. /\ Shape /\ BlockType(l) /\ flushed[l] \in Nat
      /\ Calls(l) = 1..Len(batch[l]) /\ Len(batch[l]) \in Nat
  BY BlockTyped DEF TInv
<1>1. phase[l] \in Rounding
  BY DEF BusyInv, Busy
<1>2. Ascending(log[l]) /\ LogBounded(l) /\ RealHeld(l) /\ SerialNext(l) /\ InOrder(l)
  BY <1>1 DEF OrderOf, CallInv
<1>3. \A d \in Calls(l) : call'[l][d] = IF d = c THEN s ELSE call[l][d]
  BY <1>0 DEF Shape, BlockType
<1>4. ~(c <= flushed[l])
  <2> SUFFICES ASSUME c <= flushed[l] PROVE FALSE
    OBVIOUS
  <2>1. c \in 1..flushed[l]
    BY <1>0
  <2>2. call[l][c] \in Resolved
    BY <1>2, <2>1 DEF InOrder
  <2> QED BY <2>2, Outcomes
<1>5. log[l] \in Seq(X) /\ e \in X
  BY <1>0 DEF BlockType, Says
<1>6. \A i \in 1..n : log[l][i][1] \in Calls(l)
  BY <1>5
<1>7. ASSUME NEW i \in 1..n
      PROVE  log[l][i][1] <= flushed[l]
             \/ (log[l][i][1] = flushed[l] + 1 /\ call'[l][flushed[l] + 1] = "own" /\ flushed[l] + 1 # c)
  <2>1. log[l][i][1] <= flushed[l] \/ (log[l][i][1] = flushed[l] + 1 /\ call[l][flushed[l] + 1] = "own")
    BY <1>2 DEF LogBounded
  <2>2. call[l][c] # "own"
    BY Outcomes
  <2> QED BY <1>3, <1>6, <2>1, <2>2
<1>8. \A d \in Calls(l) : d # c => ((call'[l][d] = "real" /\ d <= flushed[l]) \/ call'[l][d] = "own"
                                     => Holds(log[l], <<d, "real">>))
  BY <1>2, <1>3 DEF RealHeld
<1>9. Calls(l)' = Calls(l)
  BY DEF Calls
<1>10. SerialNext(l)'
  <2>1. \A d \in Calls(l) : call'[l][d] \in InProgress => call[l][d] \in InProgress
    BY <1>3
  <2> QED BY <1>2, <1>9, <2>1 DEF SerialNext
<1>11. CASE s # "own" /\ log'[l] = log[l]
  <2>1. LogBounded(l)'
    BY <1>7, <1>11 DEF LogBounded
  <2>2. RealHeld(l)'
    BY <1>3, <1>4, <1>8, <1>9, <1>11 DEF RealHeld
  <2> QED BY <1>2, <1>10, <1>11, <2>1, <2>2 DEF OrderOf, Ascending
<1>12. CASE s = "own" /\ batch[l][c] = "shell" /\ log'[l] = Append(log[l], e)
  <2>1. c = flushed[l] + 1
    <3>1. phase[l] = "serial"
      BY <1>2, <1>12 DEF InOrder
    <3> QED BY <1>2, <3>1 DEF SerialNext
  <2> HIDE DEF X, e
  <2>2. /\ Len(log'[l]) = n + 1 /\ n \in Nat
        /\ \A i \in 1..n : log'[l][i] = log[l][i]
        /\ log'[l][n + 1] = e
    BY <1>5, <1>12, LastPart
  <2>3. e[1] = c /\ e = <<c, "real">>
    BY DEF e
  <2>4. Ascending(log'[l])
    <3> SUFFICES ASSUME NEW i \in 1..Len(log'[l]), NEW j \in 1..Len(log'[l]), i < j
                 PROVE  log'[l][i][1] < log'[l][j][1]
      BY DEF Ascending
    <3>1. i \in 1..n
      BY <2>2
    <3>2. CASE j = n + 1
      <4>1. log[l][i][1] <= flushed[l] /\ log[l][i][1] \in Nat
        BY <1>0, <1>6, <1>7, <2>1, <3>1
      <4>2. log'[l][i] = log[l][i] /\ log'[l][j][1] = flushed[l] + 1
        BY <2>1, <2>2, <2>3, <3>1, <3>2
      <4>3. \A x \in Nat : x <= flushed[l] => x < flushed[l] + 1
        BY <1>0
      <4> QED BY ONLY <4>1, <4>2, <4>3
    <3>3. CASE j # n + 1
      <4>1. j \in 1..n
        BY <2>2, <3>3
      <4> QED BY <1>2, <2>2, <3>1, <4>1 DEF Ascending
    <3> QED BY <3>2, <3>3
  <2>5. LogBounded(l)'
    <3> SUFFICES ASSUME NEW i \in 1..Len(log'[l])
                 PROVE  \/ log'[l][i][1] <= flushed[l]
                        \/ log'[l][i][1] = flushed[l] + 1 /\ call'[l][flushed[l] + 1] = "own"
      BY DEF LogBounded
    <3>1. CASE i = n + 1
      BY <1>3, <1>12, <2>1, <2>2, <2>3, <3>1
    <3>2. CASE i # n + 1
      <4>1. i \in 1..n
        BY <2>2, <3>2
      <4> QED BY <1>7, <2>2, <4>1
    <3> QED BY <3>1, <3>2
  <2>6. RealHeld(l)'
    <3> SUFFICES ASSUME NEW d \in Calls(l), (call'[l][d] = "real" /\ d <= flushed[l]) \/ call'[l][d] = "own"
                 PROVE  Holds(log'[l], <<d, "real">>)
      BY <1>9 DEF RealHeld
    <3>1. CASE d = c
      <4>1. n + 1 \in 1..Len(log'[l])
        BY <2>2
      <4> QED BY <2>2, <2>3, <3>1, <4>1 DEF Holds
    <3>2. CASE d # c
      <4>1. PICK i \in 1..n : log[l][i] = <<d, "real">>
        BY <1>8, <3>2 DEF Holds
      <4>2. i \in 1..Len(log'[l])
        BY <2>2
      <4> QED BY <2>2, <4>1, <4>2 DEF Holds
    <3> QED BY <3>1, <3>2
  <2> QED BY <1>10, <2>4, <2>5, <2>6 DEF OrderOf
<1> QED BY <1>11, <1>12

(* Every step keeps the order of a round. *)
LEMMA OrderStep ==
  ASSUME ~ObserverRaises, TInv, BusyInv, \A l \in Loops : CallInv(l) /\ OrderOf(l), [Next]_vars
  PROVE  \A l \in Loops : OrderOf(l)'
<1> SUFFICES ASSUME NEW l \in Loops PROVE OrderOf(l)'
  OBVIOUS
<1>0. /\ LogType /\ LoopType /\ Shape /\ BlockType(l) /\ FreshInv /\ CallInv(l) /\ OrderOf(l)
      /\ Calls(l) = 1..Len(batch[l]) /\ Len(batch[l]) \in Nat
  BY TypeParts, BlockTyped DEF TInv
<1>1. ASSUME UNCHANGED <<batch[l], call[l], flushed[l], log[l], phase[l]>>
      PROVE  OrderOf(l)'
  BY <1>0, <1>1 DEF OrderOf, Ascending, LogBounded, RealHeld, SerialNext, Holds, Calls
<1>2. ASSUME NEW k \in Loops, LoopStep(k) PROVE OrderOf(l)'
  <2>1. CASE k # l
    BY <1>0, <1>1, <1>2, <2>1, BlocksApart, LoopsApart DEF SameBlock, SameLoop
  <2>2. CASE k = l
    <3>1. CASE phase'[l] \in Rounding
      BY <1>0, <1>2, <2>2, <3>1, RoundOrder
    <3>2. CASE phase'[l] \notin Rounding
      BY <3>2 DEF OrderOf
    <3> QED BY <3>1, <3>2
  <2> QED BY <2>1, <2>2
<1>4. ASSUME NEW k \in Loops, NEW c \in Calls(k), CallStep(k, c) PROVE OrderOf(l)'
  <2>1. CASE k # l
    BY <1>0, <1>1, <1>4, <2>1, BlocksApart, LoopsApart DEF SameBlock, SameLoop
  <2>2. CASE k = l
    <3>1. /\ c \in Calls(l) /\ call[l][c] \in InProgress /\ UNCHANGED <<batch, flushed, phase>>
      BY <1>4, <2>2 DEF CallStep, Claim, Admit, Return, ShellReturns, InProgress
    <3>2. \E s : /\ call' = [call EXCEPT ![l][c] = s]
                 /\ \/ s # "own" /\ log'[l] = log[l]
                    \/ s = "own" /\ batch[l][c] = "shell" /\ log'[l] = Append(log[l], <<c, "real">>)
      <4>1. ASSUME \E s \in {"none", "cleared", "running", "updated", "real"} : call' = [call EXCEPT ![l][c] = s],
                   UNCHANGED log
            PROVE  \E s : call' = [call EXCEPT ![l][c] = s] /\ s # "own" /\ log'[l] = log[l]
        <5>1. PICK s \in {"none", "cleared", "running", "updated", "real"} : call' = [call EXCEPT ![l][c] = s]
          BY <4>1
        <5>2. s # "own" /\ log'[l] = log[l]
          BY <4>1
        <5> QED BY <5>1, <5>2
      <4>2. CASE Claim(l, c) \/ Admit(l, c) \/ Return(l, c)
        <5>1. /\ UNCHANGED log
              /\ \E s \in {"none", "cleared", "running", "updated", "real"} : call' = [call EXCEPT ![l][c] = s]
          BY <4>2 DEF Claim, Admit, Return, Becomes
        <5> QED BY <4>1, <5>1
      <4>4. CASE ShellReturns(l, c)
        <5>1. CASE UNCHANGED log /\ Becomes(l, c, "real")
          <6>1. /\ UNCHANGED log
                /\ \E s \in {"none", "cleared", "running", "updated", "real"} : call' = [call EXCEPT ![l][c] = s]
            BY <5>1 DEF Becomes
          <6> QED BY <4>1, <6>1
        <5>2. CASE log' = [log EXCEPT ![l] = Append(@, <<c, "real">>)] /\ Becomes(l, c, "own")
          BY <1>0, <4>4, <5>2 DEF ShellReturns, Becomes, Shape
        <5> QED BY <4>4, <5>1, <5>2 DEF ShellReturns
      <4> QED BY <1>4, <2>2, <4>2, <4>4 DEF CallStep
    <3>3. PICK s : /\ call' = [call EXCEPT ![l][c] = s]
                   /\ \/ s # "own" /\ log'[l] = log[l]
                      \/ s = "own" /\ batch[l][c] = "shell" /\ log'[l] = Append(log[l], <<c, "real">>)
      BY <3>2
    <3> QED BY <1>0, <3>1, <3>3, CallOrder
  <2> QED BY <2>1, <2>2
<1>5. ASSUME NEW c \in Calls(Root), DelegateReturns(c) PROVE OrderOf(l)'
  <2>1. /\ call[Root][c] \in InProgress /\ call' = [call EXCEPT ![Root][c] = "real"]
        /\ UNCHANGED <<batch, flushed, log, phase>>
    BY <1>5 DEF DelegateReturns, Becomes, InProgress
  <2>2. CASE l = Root
    <3>1. PICK s : call' = [call EXCEPT ![l][c] = s] /\ s # "own" /\ log'[l] = log[l]
      BY <2>1, <2>2
    <3>2. c \in Calls(l) /\ call[l][c] \in InProgress /\ UNCHANGED <<batch, flushed, phase>>
      BY <1>5, <2>1, <2>2
    <3> QED BY <1>0, <3>1, <3>2, CallOrder
  <2>3. CASE l # Root
    BY <1>0, <1>1, <2>1, <2>3 DEF Shape
  <2> QED BY <2>2, <2>3
<1>6. ASSUME NEW k \in Loops, NEW q, Go(k, q), q \notin Rounding, UNCHANGED blockVars
      PROVE  OrderOf(l)'
  <2>1. phase'[l] = phase[l] \/ phase'[l] = q
    BY <1>0, <1>6, Goes
  <2>2. CASE phase'[l] = q
    BY <1>6, <2>2 DEF OrderOf
  <2> QED BY <1>1, <1>6, <2>1, <2>2 DEF blockVars
<1>7. CASE CloseTask \/ Persist \/ \E k \in Children : ChildStarts(k)
  BY <1>6, <1>7 DEF CloseTask, Persist, ChildStarts, Loops, Rounding
<1>8. CASE Submit \/ Stop \/ StopCloses \/ UNCHANGED vars
  BY <1>1, <1>8 DEF Submit, Stop, StopCloses, vars, blockVars
<1> QED BY <1>2, <1>4, <1>5, <1>7, <1>8 DEF Next, Finished

(* A round that was not interrupted leaves its results in call order.      *)
LEMMA InCallOrder ==
  ASSUME NEW n \in Nat, NEW lg \in Seq((1..n) \X Says), Ascending(lg), Answered(lg) = 1..n
  PROVE  Len(lg) = n /\ \A i \in 1..Len(lg) : lg[i][1] = i
<1> DEFINE q == [i \in 1..Len(lg) |-> lg[i][1]]
           m == Len(lg)
<1>0. PICK a \in Nat : a = 0
  OBVIOUS
<1>1. m \in Nat /\ \A i \in 1..m : q[i] \in a + 1 .. n
  BY <1>0
<1>2. Increasing(q, m)
  BY DEF Increasing, Ascending
<1>3. Onto(q, m, a + 1 .. n)
  <2> SUFFICES ASSUME NEW c \in a + 1 .. n PROVE \E i \in 1..m : q[i] = c
    BY DEF Onto
  <2>1. c \in Answered(lg)
    BY <1>0
  <2>2. PICK i \in 1..m : c = lg[i][1]
    BY <2>1 DEF Answered
  <2> QED BY <2>2
<1>4. a <= n
  BY <1>0
<1>5. m = n /\ \A i \in 1..m : q[i] = i
  <2> HIDE DEF q, m
  <2>1. m = n - a /\ \A i \in 1..m : q[i] = a + i
    BY <1>1, <1>2, <1>3, <1>4, OneByOne
  <2> QED BY <1>0, <1>1, <2>1
<1>6. \A i \in 1..m : q[i] = lg[i][1]
  OBVIOUS
<1> QED BY <1>5, <1>6

(* Before any call ran, one result for each. *)
LEMMA SayAll ==
  ASSUME NEW n \in Nat, NEW what
  PROVE  Say(what, Ordered(1..n)) = [i \in 1..n |-> <<i, what>>]
<1>1. Ordered(1..n) = [i \in 1..n |-> i]
  BY OrderedFirst
<1>2. Len([i \in 1..n |-> i]) = n
  OBVIOUS
<1> QED BY <1>1, <1>2 DEF Say

(* What a Stop leaves: one result for each call, the flushed ones first.   *)
LEMMA RepairFaithful ==
  ASSUME NEW l \in Loops, Calls(l) = 1..Len(batch[l]), Len(batch[l]) \in Nat,
         NEW lg \in Seq(Calls(l) \X Says), Ascending(lg), NEW what \in Says
  PROVE  /\ Len(Repair(l, lg, what)) = Len(batch[l])
         /\ \A e : Holds(lg, e) => Holds(Repair(l, lg, what), e)
<1> DEFINE r == Repair(l, lg, what)
<1>1. /\ r \in Seq(Calls(l) \X Says)
      /\ Len(r) = Len(lg) + Cardinality(Calls(l) \ Answered(lg))
      /\ Cardinality(Calls(l) \ Answered(lg)) \in Nat
      /\ \A i \in 1..Len(lg) : r[i] = lg[i]
  BY RepairIs
<1>2. Len(lg) + Cardinality(Calls(l) \ Answered(lg)) = Len(batch[l])
  BY AscendingOnce
<1>3. Len(lg) \in Nat
  OBVIOUS
<1> HIDE DEF r
<1>4. ASSUME NEW e, Holds(lg, e) PROVE Holds(r, e)
  <2>1. PICK i \in 1..Len(lg) : lg[i] = e
    BY <1>4 DEF Holds
  <2>2. i \in 1..Len(r)
    BY <1>1, <1>3
  <2> QED BY <1>1, <2>1, <2>2 DEF Holds
<1> QED BY <1>1, <1>2, <1>4 DEF r

(* Whatever ends a round leaves its results faithful. *)
LEMMA EndFaithful ==
  ASSUME ~ObserverRaises, TInv, NEW l \in Loops, CallInv(l), AnswerInv(l), OrderOf(l), Faithful(l),
         LoopStep(l), AtRest(l)'
  PROVE  Faithful(l)'
<1>0. /\ LogType /\ LoopType /\ Shape /\ BlockType(l) /\ FreshInv
      /\ Calls(l) = 1..Len(batch[l]) /\ Len(batch[l]) \in Nat
  BY TypeParts, BlockTyped DEF TInv
<1>a. Answered(log'[l]) = Calls(l)'
  BY EndAnswers
<1>s. "cancelled" \in Says
  BY DEF Says
<1>1. CASE Request(l) \/ Receive(l) \/ Propose(l) \/ AcceptBatch(l) \/ Settle(l) \/ Serial(l)
           \/ SerialDone(l) \/ DispatchOver(l)
  BY <1>0, <1>1, Goes DEF Request, Receive, Propose, AcceptBatch, Settle, Serial, SerialDone, DispatchOver,
                          AtRest
<1>2. CASE Dispatch(l) \/ RefusalRaises(l) \/ FlushRaises(l)
  BY <1>2 DEF Dispatch, AtRest, RefusalRaises, FlushRaises
<1>3. CASE LoopHead(l)
  <2>1. UNCHANGED blockVars /\ phase'[l] # "head" /\ AtRest(l)
    BY <1>0, <1>3, Goes, EndsSo DEF LoopHead, AtRest
  <2> QED BY <2>1 DEF Faithful, blockVars, Calls, Holds
<1>4. CASE StreamRaises(l) \/ Answer(l) \/ NoAnswer(l)
  <2>1. phase[l] \in {"off", "stream", "received"} /\ UNCHANGED <<batch, log>>
    BY <1>4 DEF StreamRaises, Answer, NoAnswer, blockVars
  <2>2. batch'[l] = <<>> /\ log'[l] = <<>>
    BY <1>0, <2>1 DEF FreshInv, Fresh
  <2>3. Calls(l)' = {} /\ Len(log'[l]) = 0 /\ Len(batch'[l]) = 0
    BY <2>2 DEF Calls
  <2> QED BY <2>3 DEF Faithful
<1>5. CASE RejectBatch(l) \/ RefuseBatch(l)
  <2>1. /\ UNCHANGED <<batch, call>> /\ phase[l] = "preflight"
        /\ log'[l] = Say("invalid", Ordered(Calls(l))) \/ log'[l] = Say("updated", Ordered(Calls(l)))
    BY <1>0, <1>5 DEF RejectBatch, RefuseBatch, Shape
  <2>2. ASSUME NEW what, log'[l] = Say(what, Ordered(Calls(l)))
        PROVE  Len(log'[l]) = Len(batch[l]) /\ \A i \in 1..Len(log'[l]) : log'[l][i][1] = i
    <3>1. Say(what, Ordered(Calls(l))) = [i \in 1..Len(batch[l]) |-> <<i, what>>]
      BY <1>0, SayAll
    <3> QED BY <1>0, <2>2, <3>1
  <2>3. Len(log'[l]) = Len(batch[l]) /\ \A i \in 1..Len(log'[l]) : log'[l][i][1] = i
    BY <2>1, <2>2
  <2>4. \A c \in Calls(l) : call[l][c] # "real"
    BY <2>1 DEF CallInv, Untried
  <2> QED BY <2>1, <2>3, <2>4 DEF Faithful, Calls
<1>6. CASE BeginBatch(l)
  <2>1. cancel /\ phase[l] = "accepted" /\ UNCHANGED <<batch, call>> /\ phase'[l] # "head"
    BY <1>0, <1>6, Goes, EndsSo DEF BeginBatch, AtRest
  <2>2. log'[l] = Repair(l, log[l], "cancelled") /\ log[l] = <<>>
    BY <1>0, <1>6, <2>1 DEF BeginBatch, Shape, CallInv
  <2>3. Ascending(log[l]) /\ log[l] \in Seq(Calls(l) \X Says)
    BY <1>0, <2>2 DEF Ascending, BlockType
  <2>4. Len(log'[l]) = Len(batch[l])
    BY <1>0, <1>s, <2>2, <2>3, RepairFaithful
  <2>5. \A c \in Calls(l) : call[l][c] # "real"
    BY <2>1 DEF CallInv, Untried
  <2> QED BY <2>1, <2>4, <2>5 DEF Faithful, Calls
<1>7. CASE RoundOver(l)
  <2> DEFINE f == Flushed(l)
             m == flushed[l] + Cardinality(Flushable(l))
  <2>1. UNCHANGED <<batch, call>> /\ phase[l] = "drain" /\ ~Busy(l)
    BY <1>7 DEF RoundOver
  <2>2. Ascending(log[l]) /\ LogBounded(l) /\ RealHeld(l) /\ InOrder(l)
    BY <2>1 DEF OrderOf, CallInv, Rounding
  <2>3. /\ f \in Seq(Calls(l) \X Says) /\ Ascending(f)
        /\ \A c \in Calls(l) : (call[l][c] = "real" /\ c <= m) \/ call[l][c] = "own" => Holds(f, <<c, "real">>)
    BY <1>0, <2>2, FlushOrder
  <2>4. ASSUME NEW c \in Calls(l), call[l][c] = "real" PROVE Holds(f, <<c, "real">>)
    <3>1. \A d \in Calls(l) : d < c => call[l][d] \in Resolved
      <4> TAKE d \in Calls(l)
      <4> HAVE d < c
      <4>1. call[l][d] # "new"
        BY <2>2, <2>4 DEF InOrder, Untried
      <4>2. call[l][d] \notin InProgress
        BY <2>1 DEF Busy
      <4> QED BY <1>0, <4>1, <4>2 DEF BlockType
    <3>2. call[l][c] \in Resolved
      BY <2>4 DEF Resolved
    <3>3. c <= m
      BY <1>0, <3>1, <3>2, ResolvedBefore
    <3> QED BY <2>3, <2>4, <3>3
  <2> HIDE DEF f, m
  <2>5. CASE cancel
    <3>1. log'[l] = Repair(l, f, "cancelled") /\ phase'[l] # "head"
      BY <1>0, <1>7, <2>5, EndsSo DEF RoundOver, Shape, f
    <3>2. Len(log'[l]) = Len(batch[l]) /\ \A e : Holds(f, e) => Holds(log'[l], e)
      BY <1>0, <1>s, <2>3, <3>1, RepairFaithful
    <3> QED BY <2>1, <2>4, <3>1, <3>2 DEF Faithful, Calls
  <2>6. CASE ~cancel
    <3>1. log'[l] = f
      BY <1>0, <1>7, <2>6 DEF RoundOver, Shape, f
    <3>2. Answered(f) = 1..Len(batch[l]) /\ f \in Seq((1..Len(batch[l])) \X Says)
      BY <1>0, <1>a, <2>1, <2>3, <3>1 DEF Calls
    <3>3. Len(f) = Len(batch[l]) /\ \A i \in 1..Len(f) : f[i][1] = i
      BY <1>0, <2>3, <3>2, InCallOrder
    <3> QED BY <2>1, <2>4, <3>1, <3>3 DEF Faithful, Calls
  <2> QED BY <2>5, <2>6
<1> QED BY <1>1, <1>2, <1>3, <1>4, <1>5, <1>6, <1>7 DEF LoopStep

(* They stay so until the next request. *)
LEMMA FaithfulStep ==
  ASSUME ~ObserverRaises, TInv, BusyInv, [Next]_vars,
         \A l \in Loops : CallInv(l) /\ AnswerInv(l) /\ OrderOf(l) /\ Faithful(l)
  PROVE  \A l \in Loops : Faithful(l)'
<1> SUFFICES ASSUME NEW l \in Loops PROVE Faithful(l)'
  OBVIOUS
<1>0. /\ LogType /\ LoopType /\ Shape /\ BlockType(l) /\ FreshInv /\ Faithful(l)
  BY TypeParts, BlockTyped DEF TInv
<1>h. phase[l] = "head" => AtRest(l)
  BY DEF AtRest
<1>1. ASSUME UNCHANGED <<batch[l], call[l], log[l], phase[l]>>
      PROVE  Faithful(l)'
  <2>1. Calls(l)' = Calls(l) /\ AtRest(l)' = AtRest(l)
    BY <1>1 DEF Calls, AtRest
  <2> QED BY <1>0, <1>1, <2>1 DEF Faithful, Holds
<1>r. ASSUME ~AtRest(l)' PROVE Faithful(l)'
  BY <1>r DEF Faithful, AtRest
<1>2. ASSUME NEW k \in Loops, LoopStep(k) PROVE Faithful(l)'
  <2>1. CASE k # l
    BY <1>0, <1>1, <1>2, <2>1, BlocksApart, LoopsApart DEF SameBlock, SameLoop
  <2>2. CASE k = l /\ AtRest(l)'
    BY <1>2, <2>2, EndFaithful
  <2> QED BY <1>r, <2>1, <2>2
<1>3. ASSUME NEW k \in Loops, NEW c \in Calls(k), CallStep(k, c) PROVE Faithful(l)'
  <2>1. CASE k # l
    BY <1>0, <1>1, <1>3, <2>1, BlocksApart, LoopsApart DEF SameBlock, SameLoop
  <2>2. CASE k = l
    <3>1. Busy(l) /\ phase' = phase
      BY <1>3, <2>2 DEF CallStep, Claim, Admit, Return, ShellReturns, Busy, InProgress
    <3>2. ~AtRest(l)'
      BY <3>1 DEF BusyInv, AtRest, Rounding
    <3> QED BY <1>r, <3>2
  <2> QED BY <2>1, <2>2
<1>4. ASSUME NEW c \in Calls(Root), DelegateReturns(c) PROVE Faithful(l)'
  <2>1. CASE l # Root
    BY <1>0, <1>1, <1>4, <2>1 DEF DelegateReturns, Becomes, Shape
  <2>2. CASE l = Root
    <3>1. Busy(l) /\ phase' = phase
      BY <1>4, <2>2 DEF DelegateReturns, Busy, InProgress
    <3>2. ~AtRest(l)'
      BY <3>1 DEF BusyInv, AtRest, Rounding
    <3> QED BY <1>r, <3>2
  <2> QED BY <2>1, <2>2
<1>5. ASSUME NEW k \in Children, ChildStarts(k) PROVE Faithful(l)'
  <2>1. k \in Loops /\ phase[k] = "off" /\ UNCHANGED blockVars /\ Go(k, "head")
    BY <1>5 DEF ChildStarts, Loops
  <2>2. l # k => phase'[l] = phase[l]
    BY <1>0, <2>1, Goes
  <2>3. CASE l = k
    <3>1. batch'[l] = <<>> /\ log'[l] = <<>>
      BY <1>0, <2>1, <2>3 DEF FreshInv, Fresh, blockVars
    <3>2. Calls(l)' = {} /\ Len(log'[l]) = 0 /\ Len(batch'[l]) = 0
      BY <3>1 DEF Calls
    <3> QED BY <3>2 DEF Faithful
  <2> QED BY <1>1, <2>1, <2>2, <2>3 DEF blockVars
<1>6. CASE CloseTask \/ Persist
  <2>1. /\ Root \in Loops /\ phase[Root] \in {"closing", "persist"} /\ UNCHANGED blockVars
        /\ Go(Root, "persist") \/ Go(Root, "over")
    BY <1>6 DEF CloseTask, Persist, Loops
  <2>2. phase'[Root] \in {"persist", "over"} /\ (l # Root => phase'[l] = phase[l])
    BY <1>0, <2>1, Goes
  <2>3. CASE l = Root
    BY <1>0, <2>1, <2>2, <2>3 DEF Faithful, AtRest, blockVars, Calls, Holds
  <2> QED BY <1>1, <2>1, <2>2, <2>3 DEF blockVars
<1>7. CASE Submit \/ Stop \/ StopCloses \/ UNCHANGED vars
  BY <1>1, <1>7 DEF Submit, Stop, StopCloses, vars, blockVars
<1> QED BY <1>2, <1>3, <1>4, <1>5, <1>6, <1>7 DEF Next, Finished

OrderInv == \A l \in Loops : OrderOf(l) /\ Faithful(l)

LEMMA OrderInit == Init => OrderInv
<1> SUFFICES ASSUME Init, NEW l \in Loops PROVE OrderOf(l) /\ Faithful(l)
  BY DEF OrderInv
<1>1. phase[l] \in {"head", "off"} /\ Calls(l) = {} /\ Len(log[l]) = 0 /\ Len(batch[l]) = 0
  BY DEF Init, Calls
<1> QED BY <1>1 DEF OrderOf, Faithful, Rounding

(* The results behind a block that may be sent are one for each call, the  *)
(* ones the tools returned even when a Stop made calls before them return  *)
(* nothing, and in call order unless the round was interrupted.  It takes  *)
(* that no observer raises: one that raises on the result of a shell call, *)
(* which is appended before it is emitted, leaves two for that call.       *)
THEOREM ResultsAreFaithful ==
  ASSUME ~ObserverRaises
  PROVE  Spec => []ResultsFaithful
<1>1. Init => OrderInv
  BY OrderInit
<1>2. (TInv /\ BusyInv /\ SInv /\ CallsInv) /\ OrderInv /\ [Next]_vars => OrderInv'
  <2> SUFFICES ASSUME TInv, BusyInv, CallsInv, OrderInv, [Next]_vars PROVE OrderInv'
    OBVIOUS
  <2>1. \A l \in Loops : CallInv(l) /\ AnswerInv(l) /\ OrderOf(l) /\ Faithful(l)
    BY DEF CallsInv, OrderInv
  <2>2. \A l \in Loops : OrderOf(l)'
    BY <2>1, OrderStep
  <2>3. \A l \in Loops : Faithful(l)'
    BY <2>1, FaithfulStep
  <2> QED BY <2>2, <2>3 DEF OrderInv
<1>3. CallsInv /\ OrderInv => ResultsFaithful
  BY DEF CallsInv, AnswerInv, OrderInv, Faithful, Holds, ResultsFaithful
<1> QED BY <1>1, <1>2, <1>3, CallsKept, PTL DEF Spec
=============================================================================
