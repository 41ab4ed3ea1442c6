--------------------------- MODULE MCWorkflowRuns ---------------------------
(* One run with polls and retries as the configurations give. *)
EXTENDS WorkflowRuns
CONSTANTS p1, r1, r2
=============================================================================
