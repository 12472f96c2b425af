------------------------------ MODULE PhoneIds ------------------------------
(***************************************************************************)
(* The phones that the relay connects (Relay) and that chat with the       *)
(* desktop (Companion), by their device ids.                               *)
(***************************************************************************)
CONSTANT Phones
=============================================================================
