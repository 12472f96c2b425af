------------------------------ MODULE MCAutoSave ------------------------------
(***************************************************************************)
(* The instance of AutoSave that TLC checks: a conversation that was typed, *)
(* and two whose first messages make the slug of a handoff.                 *)
(***************************************************************************)
EXTENDS AutoSave

CONSTANTS c1, c2, c3

MCConversations == {c1, c2, c3}
MCSlugs == {"typed", "handoff"}
MCSlug == [c \in MCConversations |-> IF c = c1 THEN "typed" ELSE "handoff"]
=============================================================================
