----------------------------- MODULE MCTaskTurn -----------------------------
(* Instances of TaskTurn for TLC: what the models may propose. *)
EXTENDS TaskTurn

(* Reads before and behind calls that must run alone, and a delegation. *)
RootBatches ==
  {<<"read", "read">>, <<"read", "edit">>, <<"read", "shell", "read">>, <<"edit", "read">>,
   <<"delegate", "read">>}

ChildBatches == {<<"read", "read">>, <<"edit">>}

MCBatches == [l \in Loops |-> IF l = Root THEN RootBatches ELSE ChildBatches]

(* A root that delegates to a team or works itself, and the team under it. *)
TeamBatches ==
  [l \in Loops |-> IF l = Root THEN {<<"delegate">>, <<"read", "shell", "read">>}
                   ELSE {<<"read", "edit">>}]
=============================================================================
