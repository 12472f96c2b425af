------------------------------- MODULE MCRelay -------------------------------
(***************************************************************************)
(* The instance of Relay that TLC checks: one desktop, two phones, three   *)
(* breaks and pairing codes together, no more than two of either.          *)
(***************************************************************************)
EXTENDS Relay, TLC

\* The phones are alike.
Symmetry == Permutations(Phones)
=============================================================================
