--------------------------- MODULE MCTokenRecords ---------------------------
(* Requests of any kind for wallets at brands. *)
EXTENDS TokenRecords, TLC

CONSTANTS b1, b2, w1, w2, q1, q2, q3

Interchangeable == Permutations(Brands) \cup Permutations(Wallets) \cup Permutations(Requests)
=============================================================================
