----------------------------- MODULE MCWorktree -----------------------------
EXTENDS Worktree, TLC

(* Change sets are created in no order of their own, and no branch is      *)
(* special.                                                                *)
Symmetry == Permutations(ChangeSets) \cup Permutations(Branches)

World(savesFail, crashes, wanders, sets, commits) ==
  [savesFail |-> savesFail, crashes |-> crashes, wanders |-> wanders, sets |-> sets,
   commits |-> commits]

(* Two change sets: with all that can fail, with a user who goes anywhere  *)
(* while only Git fails, and with two results or commits on the branch.    *)
(* One change set: with all of it at once.                                 *)
MCWorlds ==
  {World(TRUE, TRUE, FALSE, ChangeSets, 1), World(FALSE, FALSE, TRUE, ChangeSets, 1),
   World(FALSE, FALSE, FALSE, ChangeSets, 2)}
    \cup {World(TRUE, TRUE, TRUE, {c}, 2) : c \in ChangeSets}
=============================================================================
