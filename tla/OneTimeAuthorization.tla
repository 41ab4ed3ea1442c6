------------------------ MODULE OneTimeAuthorization ------------------------
(***************************************************************************)
(* What TargetBase.sol promises to the contracts built on it, stated       *)
(* without nonces, expiry times, code hashes or replay tables: there is    *)
(* one trusted key, every call that runs was authorized by the key that    *)
(* was trusted when it ran, no authorization runs a second time, and what  *)
(* has run is never forgotten or rewritten.                                *)
(***************************************************************************)
EXTENDS Naturals, Sequences

CONSTANTS
  Authorizations,  \* everything the trusted key can authorize
  Keys             \* the keys that may be trusted

VARIABLES
  trusted,         \* the key trusted now
  history          \* the calls that ran, oldest first: [auth, signer]

vars == <<trusted, history>>

HasRun(a) == \E i \in DOMAIN history : history[i].auth = a

Init == /\ trusted \in Keys
        /\ history = <<>>

Run(a) ==
  /\ ~HasRun(a)
  /\ history' = Append(history, [auth |-> a, signer |-> trusted])
  /\ UNCHANGED trusted

Rotate(k) ==
  /\ trusted' = k
  /\ UNCHANGED history

Next == \/ \E a \in Authorizations : Run(a)
        \/ \E k \in Keys : Rotate(k)

Spec == Init /\ [][Next]_vars
=============================================================================
