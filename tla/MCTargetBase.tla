---------------------------- MODULE MCTargetBase ----------------------------
(* TargetBase on a small instance. *)
EXTENDS TargetBase

CONSTANTS alice, bob, owner, k1, implA, mint, noCode
=============================================================================
