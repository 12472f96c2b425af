----------------------------- MODULE MCWorkflow -----------------------------
(* Every plan of three Steps that the graph validation lets through.        *)
EXTENDS Workflow

MCAllPlans == {p \in WorkflowPlans : Runnable(p)}
=============================================================================
