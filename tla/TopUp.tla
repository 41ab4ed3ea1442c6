------------------------------- MODULE TopUp -------------------------------
(***************************************************************************)
(* Buying sponsorship credits on the billing page: the x402 handshake      *)
(* between the page, the user's wallet and the route                       *)
(* POST /brands/:brandId/billing/x402/start.  The page asks, is told what  *)
(* to pay (402), has the wallet sign an authorization and asks again with  *)
(* it.  Each call goes through apiFetchRaw, which selects the brand's      *)
(* portal and sends the call once more when the guard of the route refused *)
(* it.                                                                     *)
(*                                                                         *)
(* A submission goes on when the user leaves the page, so that another one *)
(* may overlap with it; a reload ends its part in the browser, not what    *)
(* the server was asked to do.  The wallet's chain and the other fields of *)
(* an authorization are left out: what the page fills in is what the route *)
(* asks for.  Not production, where the route answers 501.                 *)
(***************************************************************************)
EXTENDS Naturals, Sequences

CONSTANTS
  Flows,      \* submissions of the form
  Typed,      \* amounts typed in
  MaxTopUp,   \* X402_MAX_TOPUP_USDC
  Timeout,    \* how long an authorization is valid
  None,       \* null
  MaxTime,    \* bound: of the clock
  MaxMoves    \* bound: portals selected in other tabs

ASSUME TopUpAssumption ==
  /\ Typed \subseteq Nat
  /\ {MaxTopUp, Timeout, MaxTime, MaxMoves} \subseteq Nat
  /\ None \notin Flows

VARIABLES
  flow,      \* submissions: [pc, amount, auth, wire, retried]
  billing,   \* the submission the mounted page waits for (submitting), or None
  selected,  \* whether the user's portalSession is this brand's portal
  clock,
  topUps,    \* the payments recorded, each with the time: [auth, amount, time]
  signed,    \* history: the authorizations the wallet signed
  switches

topUpVars == <<flow, billing, selected, clock, topUps, signed, switches>>

\* An authorization, its nonce named by the one submission it is made for.
Authorizations == [nonce : Flows, value : Nat, before : Nat]

\* wire is the call under way or its answer: "request" and "select" are on the way
\* to the server, the others on the way back.
Unused == [pc |-> "unused", amount |-> 0, auth |-> None, wire |-> "none", retried |-> FALSE]

TopUpInit ==
  /\ flow = [f \in Flows |-> Unused]
  /\ billing = None
  /\ selected \in BOOLEAN
  /\ clock = 0
  /\ topUps = <<>>
  /\ signed = {}
  /\ switches = 0
-----------------------------------------------------------------------------
Alive(f) == flow[f].pc \in {"starting", "prompt", "paying"}

\* handleSubmit: the button is disabled while the page waits.
Submit(f, amount) ==
  /\ flow[f].pc = "unused"
  /\ billing = None
  /\ billing' = f
  /\ flow' = [flow EXCEPT ![f] = [Unused EXCEPT !.pc = "starting", !.amount = amount,
                                                !.wire = "request"]]
  /\ UNCHANGED <<selected, clock, topUps, signed, switches>>

\* requireBrandPortal: 409 or 403.
Refuse(f) ==
  /\ flow[f].wire = "request"
  /\ ~selected
  /\ flow' = [flow EXCEPT ![f].wire = "refused"]
  /\ UNCHANGED <<billing, selected, clock, topUps, signed, switches>>

\* apiFetchRaw: a refused call is followed by a selection of the portal, once.
Reselect(f) ==
  /\ Alive(f)
  /\ flow[f].wire = "refused"
  /\ ~flow[f].retried
  /\ flow' = [flow EXCEPT ![f].wire = "select"]
  /\ UNCHANGED <<billing, selected, clock, topUps, signed, switches>>

\* performPortalSelect, and the call again.
SelectPortal(f) ==
  /\ flow[f].wire = "select"
  /\ selected' = TRUE
  /\ flow' = [flow EXCEPT ![f].wire = IF Alive(f) THEN "request" ELSE "none",
                          ![f].retried = TRUE]
  /\ UNCHANGED <<billing, clock, topUps, signed, switches>>

Payable(amount) == amount > 0 /\ amount <= MaxTopUp

\* buildPaymentRequirements: an amount of USDC in units of the token.
Required(amount) == amount * 10^6

\* Without an authorization the route asks for one.
Require(f) ==
  /\ flow[f].wire = "request"
  /\ selected
  /\ flow[f].auth = None
  /\ flow' = [flow EXCEPT ![f].wire = IF Payable(flow[f].amount) THEN "required" ELSE "rejected"]
  /\ UNCHANGED <<billing, selected, clock, topUps, signed, switches>>

\* buildEip3009PaymentPayload: the wallet is asked to sign for the amount required.
Prompt(f) ==
  /\ flow[f].pc = "starting"
  /\ flow[f].wire = "required"
  /\ flow' = [flow EXCEPT ![f].pc = "prompt", ![f].wire = "none",
       ![f].auth = [nonce |-> f, value |-> Required(flow[f].amount), before |-> clock + Timeout]]
  /\ UNCHANGED <<billing, selected, clock, topUps, signed, switches>>

\* The user signs, and the page sends the authorization.
Sign(f) ==
  /\ flow[f].pc = "prompt"
  /\ signed' = signed \cup {flow[f].auth}
  /\ flow' = [flow EXCEPT ![f].pc = "paying", ![f].wire = "request", ![f].retried = FALSE]
  /\ UNCHANGED <<billing, selected, clock, topUps, switches>>

\* Mutant: the end of the validity is not looked at.
AcceptsLate(f) == Payable(flow[f].amount) /\ flow[f].auth.value = Required(flow[f].amount)

\* What the route looks at before it credits.
Accepts(f) ==
  /\ Payable(flow[f].amount)
  /\ flow[f].auth.value = Required(flow[f].amount)
  /\ clock < flow[f].auth.before

\* Payment and credits in one transaction.  Whether the authorization was used
\* before is not looked at.
Credit(f) ==
  /\ flow[f].wire = "request"
  /\ selected
  /\ flow[f].auth # None
  /\ IF Accepts(f)
     THEN /\ topUps' = Append(topUps, [auth |-> flow[f].auth, amount |-> flow[f].amount,
                                           time |-> clock])
          /\ flow' = [flow EXCEPT ![f].wire = "ok"]
     ELSE /\ flow' = [flow EXCEPT ![f].wire = "rejected"]
          /\ UNCHANGED topUps
  /\ UNCHANGED <<billing, selected, clock, signed, switches>>

Released(f) == IF billing = f THEN None ELSE billing

\* The page says Done.
Done(f) ==
  /\ flow[f].pc = "paying"
  /\ flow[f].wire = "ok"
  /\ flow' = [flow EXCEPT ![f].pc = "done", ![f].wire = "none"]
  /\ billing' = Released(f)
  /\ UNCHANGED <<selected, clock, topUps, signed, switches>>

\* A call fails, is refused again or is answered with an error, or the user does not
\* sign.  What was sent may still arrive.
Abandon(f) ==
  /\ Alive(f)
  /\ flow' = [flow EXCEPT ![f].pc = "failed"]
  /\ billing' = Released(f)
  /\ UNCHANGED <<selected, clock, topUps, signed, switches>>
-----------------------------------------------------------------------------
\* The page is left; its submission goes on.
LeaveBilling ==
  /\ billing # None
  /\ billing' = None
  /\ UNCHANGED <<flow, selected, clock, topUps, signed, switches>>

\* The tab is reloaded or closed.
Reload ==
  /\ \E f \in Flows : Alive(f)
  /\ flow' = [f \in Flows |-> IF Alive(f) THEN [flow[f] EXCEPT !.pc = "failed"] ELSE flow[f]]
  /\ billing' = None
  /\ UNCHANGED <<selected, clock, topUps, signed, switches>>

\* Another tab selects a portal.
SwitchPortal ==
  /\ switches < MaxMoves
  /\ switches' = switches + 1
  /\ selected' \in BOOLEAN
  /\ UNCHANGED <<flow, billing, clock, topUps, signed>>

TopUpTick ==
  /\ clock < MaxTime
  /\ clock' = clock + 1
  /\ UNCHANGED <<flow, billing, selected, topUps, signed, switches>>
-----------------------------------------------------------------------------
TopUpStep(f) ==
  \/ \E amount \in Typed : Submit(f, amount)
  \/ Refuse(f) \/ Reselect(f) \/ SelectPortal(f) \/ Require(f)
  \/ Prompt(f) \/ Sign(f) \/ Credit(f) \/ Done(f) \/ Abandon(f)

TopUpNext ==
  \/ \E f \in Flows : TopUpStep(f)
  \/ LeaveBilling \/ Reload \/ SwitchPortal \/ TopUpTick

TopUpSpec == TopUpInit /\ [][TopUpNext]_topUpVars
-----------------------------------------------------------------------------
(* Properties                                                              *)

FlowSet == [pc      : {"unused", "starting", "prompt", "paying", "done", "failed"},
            amount  : Nat,
            auth    : Authorizations \cup {None},
            wire    : {"none", "request", "refused", "select", "required", "rejected", "ok"},
            retried : BOOLEAN]

Payments == [auth : Authorizations, amount : Nat, time : Nat]

\* Every submission, payment and authorization is of its type; the wallet is only
\* asked to sign when there is something to sign.
TopUpTypeOK ==
  /\ flow \in [Flows -> FlowSet]
  /\ \A f \in Flows : flow[f].pc = "prompt" => flow[f].auth \in Authorizations
  /\ billing \in Flows \cup {None}
  /\ selected \in BOOLEAN
  /\ clock \in 0..MaxTime
  /\ topUps \in Seq(Payments)
  /\ signed \subseteq Authorizations
  /\ switches \in 0..MaxMoves

\* However often the portal is taken away, calls are sent again, answers are lost
\* and submissions overlap, every payment is for an authorization the wallet
\* signed, of its value and while it was valid, and none is paid twice, although
\* the route keeps no record of those it has seen (brands.ts:1787-2004,
\* api.ts:473-612).
PaidAsSigned ==
  /\ \A i \in DOMAIN topUps :
       /\ topUps[i].auth \in signed
       /\ topUps[i].auth.value = Required(topUps[i].amount)
       /\ topUps[i].time < topUps[i].auth.before
  /\ \A i, j \in DOMAIN topUps : topUps[i].auth = topUps[j].auth => i = j
=============================================================================
