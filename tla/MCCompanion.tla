---------------------------- MODULE MCCompanion -----------------------------
(***************************************************************************)
(* The instance of Companion that TLC checks: two phones, two chats, a     *)
(* turn of up to two streams, one fault.                                   *)
(***************************************************************************)
EXTENDS Companion, TLC

\* The phones are alike.
PhonesAlike == Permutations(Phones)
=============================================================================
