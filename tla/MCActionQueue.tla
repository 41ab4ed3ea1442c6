--------------------------- MODULE MCActionQueue ---------------------------
(* The automation worker on one or two events for one wallet.              *)
EXTENDS ActionQueue, TLC

CONSTANTS e1, e2, s1, none

\* The events differ in name only; not used where liveness is checked.
Interchangeable == Permutations(Events)
=============================================================================
