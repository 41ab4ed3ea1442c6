----------------------------- MODULE MCRunsPage -----------------------------
(* A run that is retried while others poll it, and the workflows page, which *)
(* polls and retries runs.  The two share no variable, so a behaviour takes  *)
(* steps of one of them.                                                     *)
EXTENDS WorkflowRuns, RunsPage

CONSTANTS p1, r1, n1, n2, c1, c2

VARIABLE side

\* The page starts with runs of any status; beside the server it does nothing.
MCInit ==
  /\ Init /\ RunsPageInit
  /\ side \in {"server", "page"}
  /\ side = "server" => status = [run \in Ids |-> "pending"]

MCNext ==
  /\ UNCHANGED side
  /\ \/ side = "server" /\ Next /\ UNCHANGED pageVars
     \/ side = "page" /\ RunsPageNext /\ UNCHANGED vars

MCSpec == MCInit /\ [][MCNext]_<<vars, pageVars, side>>
=============================================================================
