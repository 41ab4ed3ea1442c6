------------------------ MODULE PortalSessionProofs ------------------------
(***************************************************************************)
(* What holds of the portal of a user for any brands, any number of        *)
(* overlapping calls of ensurePortal and any requests of other tabs.       *)
(***************************************************************************)
EXTENDS PortalSession, TLAPS

CallRow    == [pc : {"idle", "ask", "select", "write", "confirm", "apply"},
               type : Portals, brand : MaybeBrand, seen : Sessions, gate : BOOLEAN]
RequestRow == [pc : {"idle", "infer", "write"}, kind : Kinds,
               brand : MaybeBrand, seen : Sessions]
GateRow    == [type : Portals \cup {"none"}, brand : MaybeBrand, last : MaybeBrand,
               busy : BOOLEAN]

(* The rows as they are reset.                                             *)
LEMMA ResetRows ==
  /\ NoSession \in Sessions
  /\ IdleCall \in CallRow /\ IdleCall.pc = "idle" /\ IdleCall.gate = FALSE
  /\ IdleRequest \in RequestRow
  /\ NoGate \in GateRow /\ NoGate.busy = FALSE
BY DEF NoSession, Sessions, IdleCall, CallRow, IdleRequest, RequestRow, NoGate, GateRow,
       Portals, MaybeBrand, Kinds

(* The brand that is selected is one that was asked for or read before.    *)
LEMMA SelectionIsSession ==
  ASSUME NEW type \in Portals, NEW brand \in MaybeBrand, NEW existing \in Sessions
  PROVE  /\ Selection(type, brand, existing) \in Sessions
         /\ Selection(type, brand, existing).type = type
         /\ Selection(type, brand, existing).brand = Final(type, brand, existing)
         /\ Selection(type, brand, existing).explicit
<1>1. Final(type, brand, existing) \in MaybeBrand
  BY DEF Final, MaybeBrand, Sessions
<1> QED
  BY <1>1 DEF Selection, Sessions

(* What ensurePortal does to the calls and to inFlightRef.                 *)
Joined(forGate) ==
  /\ inFlight \in Runs
  /\ inFlight' = inFlight
  /\ \A q \in Runs : call'[q].pc = call[q].pc /\ call'[q].seen = call[q].seen
  /\ \A q \in Runs \ {inFlight} : call'[q].gate = call[q].gate
  /\ call'[inFlight].gate <=> (call[inFlight].gate \/ forGate)
  /\ mixed' = mixed

Begun(r, forGate) ==
  /\ ~Active(r)
  /\ inFlight' = r
  /\ call'[r].pc = "ask"
  /\ call'[r].gate <=> forGate
  /\ \A q \in Runs \ {r} : call'[q] = call[q]
  /\ mixed' = (mixed \/ \E other \in Runs : Active(other))

LEMMA EnsureSteps ==
  ASSUME TypeOK, NEW type \in Portals, NEW brand \in MaybeBrand, NEW forGate \in BOOLEAN,
         Ensure(type, brand, forGate)
  PROVE  /\ Joined(forGate) \/ \E r \in Runs : Begun(r, forGate)
         /\ call' \in [Runs -> CallRow]
         /\ inFlight' \in Runs \cup {None}
<1>1. call \in [Runs -> CallRow] /\ inFlight \in Runs \cup {None}
  BY DEF TypeOK, CallRow
<1>2. CASE /\ inFlight # None
           /\ call[inFlight].type = type
           /\ call[inFlight].brand = brand
  <2>1. /\ call' = [call EXCEPT ![inFlight].gate = @ \/ forGate]
        /\ inFlight' = inFlight
        /\ mixed' = mixed
    BY <1>2 DEF Ensure
  <2>2. inFlight \in Runs
    BY <1>1, <1>2
  <2>3. [call[inFlight] EXCEPT !.gate = @ \/ forGate] \in CallRow
    BY <1>1, <2>2 DEF CallRow
  <2>4. call' \in [Runs -> CallRow]
    BY <1>1, <2>1, <2>2, <2>3
  <2>5. /\ \A q \in Runs \ {inFlight} : call'[q] = call[q]
        /\ call'[inFlight].pc = call[inFlight].pc
        /\ call'[inFlight].seen = call[inFlight].seen
        /\ call'[inFlight].gate = (call[inFlight].gate \/ forGate)
    BY <1>1, <2>1, <2>2 DEF CallRow
  <2>6. Joined(forGate)
    BY <2>1, <2>2, <2>5 DEF Joined
  <2> QED
    BY <1>1, <2>1, <2>4, <2>6
<1>3. CASE ~(/\ inFlight # None
             /\ call[inFlight].type = type
             /\ call[inFlight].brand = brand)
  <2>1. PICK r \in Runs :
          /\ ~Active(r)
          /\ inFlight' = r
          /\ call' = [call EXCEPT ![r] = [IdleCall EXCEPT !.pc = "ask", !.type = type,
                                                          !.brand = brand, !.gate = forGate]]
          /\ mixed' = (mixed \/ \E other \in Runs : Active(other))
    BY <1>3 DEF Ensure
  <2>2. [IdleCall EXCEPT !.pc = "ask", !.type = type, !.brand = brand, !.gate = forGate]
          \in CallRow
    BY ResetRows DEF CallRow
  <2>3. call' \in [Runs -> CallRow]
    BY <1>1, <2>1, <2>2
  <2>4. /\ call'[r].pc = "ask" /\ call'[r].gate = forGate
        /\ \A q \in Runs \ {r} : call'[q] = call[q]
    BY <1>1, <2>1 DEF IdleCall
  <2>5. Begun(r, forGate)
    BY <2>1, <2>4 DEF Begun
  <2> QED
    BY <2>1, <2>3, <2>5
<1> QED
  BY <1>2, <1>3

(* What the end of a call does.                                            *)
LEMMA FinishSteps ==
  ASSUME TypeOK, NEW r \in Runs, NEW copy, NEW failed \in BOOLEAN, Finish(r, copy, failed)
  PROVE  /\ tab' = copy
         /\ inFlight' = None
         /\ call' = [call EXCEPT ![r] = IdleCall]
         /\ call' \in [Runs -> CallRow]
         /\ gate' \in GateRow
         /\ gate'.busy = (gate.busy /\ ~call[r].gate)
<1>1. call \in [Runs -> CallRow] /\ gate \in GateRow
  BY DEF TypeOK, CallRow, GateRow
<1>2. call[r].gate \in BOOLEAN
  BY <1>1 DEF CallRow
<1>3. gate' = IF ~call[r].gate THEN gate
             ELSE [gate EXCEPT !.busy = FALSE, !.last = IF failed THEN None ELSE @]
  BY DEF Finish
<1>4. gate' \in GateRow
  BY <1>1, <1>3 DEF GateRow, MaybeBrand
<1>5. gate'.busy = (gate.busy /\ ~call[r].gate)
  BY <1>1, <1>2, <1>3 DEF GateRow
<1> QED
  BY <1>1, <1>4, <1>5, ResetRows DEF Finish

(* The server's side: what is selected, inferred and logged out.           *)
SessionOK ==
  /\ session \in Sessions
  /\ session.type = "none" => session = NoSession
  /\ ~session.explicit => session.brand = None

LEMMA SessionTypes ==
  ASSUME TypeOK, [Next]_vars
  PROVE  SessionOK'
<1> USE DEF SessionOK
<1>t. SessionOK
  BY DEF TypeOK
<1>0. CASE UNCHANGED session
  BY <1>t, <1>0
<1>1. ASSUME NEW r \in Runs, Write(r)
      PROVE  SessionOK'
  <2>1. call[r] \in CallRow
    BY DEF TypeOK, CallRow
  <2>2. session' = Selection(call[r].type, call[r].brand, call[r].seen)
    BY <1>1 DEF Write
  <2>3. call[r].type \in Portals /\ call[r].brand \in MaybeBrand /\ call[r].seen \in Sessions
    BY <2>1 DEF CallRow
  <2>4. session' \in Sessions /\ session'.type \in Portals /\ session'.explicit
    BY <2>2, <2>3, SelectionIsSession
  <2> QED
    BY <2>4 DEF Portals
<1>2. ASSUME NEW q \in Requests, Put(q)
      PROVE  SessionOK'
  <2>1. request[q] \in RequestRow
    BY DEF TypeOK, RequestRow
  <2>2. request[q].brand \in MaybeBrand /\ request[q].seen \in Sessions
    BY <2>1 DEF RequestRow
  <2>3. session' = New(q)
    BY <1>2 DEF Put
  <2>4. New(q) \in Sessions /\ New(q).type \in Portals /\ New(q).explicit
    <3>1. CASE request[q].kind = "select brand"
      BY <2>2, <3>1, SelectionIsSession DEF New, Portals
    <3>2. CASE request[q].kind = "select owner"
      BY <2>2, <3>2, SelectionIsSession DEF New, Portals
    <3>3. CASE request[q].kind = "choose brand"
      BY <2>2, <3>3 DEF New, Portals, Sessions
    <3> QED
      BY <2>1, <3>1, <3>2, <3>3 DEF RequestRow, Kinds
  <2> QED
    BY <2>3, <2>4 DEF Portals
<1>3. ASSUME NEW q \in Requests, Infer(q)
      PROVE  SessionOK'
  BY <1>3 DEF Infer, Inferred, Sessions, Portals, MaybeBrand
<1>4. CASE Logout
  BY <1>4, ResetRows DEF Logout, NoSession
<1> QED
  BY <1>0, <1>1, <1>2, <1>3, <1>4
  DEF Next, Step, Ask, Select, Confirm, Apply, Refused, Fail, GateAsks, Go, Choose, Read,
      Repair, Leave, vars

(* A call steps within its row.                                            *)
LEMMA CallTypes ==
  ASSUME TypeOK, NEW r \in Runs, Ask(r) \/ Select(r) \/ Write(r) \/ Confirm(r)
  PROVE  call' \in [Runs -> CallRow]
<1>t. call \in [Runs -> CallRow] /\ call[r] \in CallRow /\ session \in Sessions
  BY DEF TypeOK, CallRow
<1>1. CASE Ask(r)
  BY <1>1, <1>t DEF Ask, CallRow
<1>2. CASE Select(r)
  BY <1>2, <1>t DEF Select, CallRow
<1>3. CASE Write(r)
  BY <1>3, <1>t, ResetRows DEF Write, CallRow
<1>4. CASE Confirm(r)
  BY <1>4, <1>t DEF Confirm, CallRow
<1> QED
  BY <1>1, <1>2, <1>3, <1>4

(* The bounded counters stay in their bounds.                              *)
Counters == trouble \in 0..MaxTrouble /\ moves \in 0..MaxMoves

LEMMA CountersBounded ==
  ASSUME Counters, [Next]_vars
  PROVE  Counters'
<1>1. /\ trouble' = trouble \/ (trouble < MaxTrouble /\ trouble' = trouble + 1)
      /\ moves' = moves \/ (moves < MaxMoves /\ moves' = moves + 1)
  BY DEF Next, Step, Ask, Select, Write, Confirm, Apply, Refused, Fail, GateAsks, Go, Choose,
         Read, Repair, Infer, Put, Leave, Logout, vars
<1> QED
  BY <1>1, PortalAssumption DEF Counters

(* What the tab shows has the form of a portal.                            *)
TabRow == [type : Portals \cup {"none"}, brand : MaybeBrand, ready : BOOLEAN]

(* The types of the portal's state.                                        *)
THEOREM PortalTypeCorrect == Spec => []TypeOK
<1>1. Init => TypeOK
  <2> SUFFICES ASSUME Init
               PROVE  TypeOK
    OBVIOUS
  <2>1. call \in [Runs -> CallRow] /\ request \in [Requests -> RequestRow] /\ gate \in GateRow
    BY ResetRows DEF Init
  <2>2. SessionOK
    BY ResetRows DEF Init, SessionOK, NoSession
  <2>3. tab \in TabRow /\ inFlight \in Runs \cup {None}
    BY DEF Init, NoPortal, TabRow, MaybeBrand
  <2>4. mixed \in BOOLEAN /\ spoiled \in BOOLEAN
    BY DEF Init
  <2>5. Counters
    BY PortalAssumption DEF Init, Counters
  <2> QED
    BY <2>1, <2>2, <2>3, <2>4, <2>5
    DEF TypeOK, SessionOK, CallRow, RequestRow, GateRow, TabRow, Counters
<1>2. TypeOK /\ [Next]_vars => TypeOK'
  <2> SUFFICES ASSUME TypeOK, [Next]_vars
               PROVE  TypeOK'
    OBVIOUS
  <2> DEFINE Rest == /\ tab \in TabRow
                     /\ inFlight \in Runs \cup {None}
                     /\ call \in [Runs -> CallRow]
                     /\ gate \in GateRow
                     /\ request \in [Requests -> RequestRow]
                     /\ mixed \in BOOLEAN
                     /\ spoiled \in BOOLEAN
  <2>t. Rest
    BY DEF TypeOK, TabRow, CallRow, GateRow, RequestRow
  <2>r. Rest' /\ SessionOK' /\ Counters' => TypeOK'
    BY DEF TypeOK, SessionOK, Counters, TabRow, CallRow, GateRow, RequestRow
  <2>c. \A r \in Runs : \A copy \in TabRow : \A failed \in BOOLEAN :
          (Finish(r, copy, failed) /\ request' = request /\ mixed' = mixed) => Rest'
    <3> SUFFICES ASSUME NEW r \in Runs, NEW copy \in TabRow, NEW failed \in BOOLEAN,
                        Finish(r, copy, failed), request' = request, mixed' = mixed
                 PROVE  Rest'
      OBVIOUS
    <3>1. spoiled' \in BOOLEAN
      BY <2>t DEF Finish
    <3> QED
      BY <2>t, <3>1, FinishSteps
  <2>k. Counters'
    BY CountersBounded DEF TypeOK, Counters
  <2>n. NoPortal \in TabRow
    BY DEF NoPortal, TabRow, MaybeBrand
  <2>1. ASSUME NEW r \in Runs, Ask(r) \/ Select(r) \/ Write(r) \/ Confirm(r)
        PROVE  Rest'
    <3>1. UNCHANGED <<tab, inFlight, gate, request, spoiled, trouble, moves>>
          /\ mixed' \in BOOLEAN
      BY <2>1, <2>t DEF Ask, Select, Write, Confirm
    <3> QED
      BY <2>1, <2>t, <3>1, CallTypes
  <2>2. ASSUME NEW r \in Runs, Apply(r)
        PROVE  Rest'
    <3>1. call[r].seen \in Sessions
      BY <2>t DEF CallRow
    <3>2. Copy(r) \in TabRow
      BY <2>n, <3>1 DEF Copy, TabRow, Sessions
    <3> QED
      BY <2>2, <2>c, <2>t, <3>2 DEF Apply
  <2>3. ASSUME NEW r \in Runs, Refused(r) \/ Fail(r)
        PROVE  Rest'
    BY <2>3, <2>c, <2>n DEF Refused, Fail
  <2>4. ASSUME GateAsks
        PROVE  Rest'
    <3>1. gate.type \in Portals /\ gate.brand \in MaybeBrand
      BY <2>4, <2>t DEF GateAsks, GateRow
    <3>2. call' \in [Runs -> CallRow] /\ inFlight' \in Runs \cup {None}
      BY <2>4, <3>1, EnsureSteps DEF GateAsks
    <3>3. gate' \in GateRow
      BY <2>4, <2>t DEF GateAsks, GateRow
    <3>4. mixed' \in BOOLEAN
      BY <2>4, <2>t DEF GateAsks, Ensure
    <3> QED
      BY <2>4, <2>t, <3>2, <3>3, <3>4 DEF GateAsks
  <2>5. ASSUME NEW type \in Portals, NEW brand \in MaybeBrand, Choose(type, brand)
        PROVE  Rest'
    <3>1. call' \in [Runs -> CallRow] /\ inFlight' \in Runs \cup {None}
      BY <2>5, EnsureSteps DEF Choose
    <3>2. mixed' \in BOOLEAN
      BY <2>5, <2>t DEF Choose, Ensure
    <3> QED
      BY <2>5, <2>t, <3>1, <3>2 DEF Choose
  <2>6. ASSUME NEW type \in Portals, NEW brand \in MaybeBrand, Go(type, brand)
        PROVE  Rest'
    <3>1. gate' \in GateRow
      BY <2>6 DEF Go, NoGate, GateRow, MaybeBrand
    <3>2. call' \in [Runs -> CallRow]
      BY <2>6, <2>t DEF Go, CallRow
    <3> QED
      BY <2>6, <2>t, <3>1, <3>2 DEF Go
  <2>7. ASSUME NEW q \in Requests, NEW kind \in Kinds, NEW brand \in MaybeBrand,
               Read(q, kind, brand)
        PROVE  Rest'
    <3>1. session \in Sessions
      BY DEF TypeOK
    <3>2. request' \in [Requests -> RequestRow]
      BY <2>7, <2>t, <3>1 DEF Read, RequestRow
    <3> QED
      BY <2>7, <2>t, <3>2 DEF Read
  <2>8. ASSUME NEW q \in Requests, Infer(q) \/ Put(q) \/ Leave(q)
        PROVE  Rest'
    <3>1. request' \in [Requests -> RequestRow]
      BY <2>8, <2>t, ResetRows DEF Infer, Put, Leave, RequestRow
    <3> QED
      BY <2>8, <2>t, <3>1 DEF Infer, Put, Leave
  <2>9. ASSUME Logout
        PROVE  Rest'
    BY <2>9, <2>t DEF Logout
  <2>10. ASSUME UNCHANGED vars
         PROVE  Rest'
    BY <2>10, <2>t DEF vars
  <2>11. ASSUME NEW q \in Requests, NEW brand \in MaybeBrand, Repair(q, brand)
         PROVE  Rest'
    BY <2>7, <2>11 DEF Repair, Kinds
  <2>12. Rest'
    BY <2>1, <2>2, <2>3, <2>4, <2>5, <2>6, <2>7, <2>8, <2>9, <2>10, <2>11 DEF Next, Step
  <2> QED
    BY <2>r, <2>12, <2>k, SessionTypes
<1> QED
  BY <1>1, <1>2, PTL DEF Spec

(* A brand portal is only ever open for a brand of the user, whatever rows *)
(* were read before and whichever brand an owner showed interest in.       *)
THEOREM BrandSessionOwnedAlways == Spec => []BrandSessionOwned
<1>1. Init => BrandSessionOwned
  BY DEF Init, NoSession, BrandSessionOwned
<1>2. TypeOK /\ BrandSessionOwned /\ [Next]_vars => BrandSessionOwned'
  <2> SUFFICES ASSUME TypeOK, BrandSessionOwned, [Next]_vars
               PROVE  BrandSessionOwned'
    OBVIOUS
  <2> USE DEF BrandSessionOwned
  <2>0. CASE UNCHANGED session
    BY <2>0
  <2>1. ASSUME NEW r \in Runs, Write(r)
        PROVE  BrandSessionOwned'
    <3>1. session' = Selection(call[r].type, call[r].brand, call[r].seen)
          /\ Allowed(call[r].type, session'.brand)
      BY <2>1 DEF Write
    <3>2. session'.type = call[r].type
      BY <3>1 DEF Selection
    <3> QED
      BY <3>1, <3>2 DEF Allowed
  <2>2. ASSUME NEW q \in Requests, Put(q)
        PROVE  BrandSessionOwned'
    BY <2>2 DEF Put, Allowed
  <2>3. ASSUME NEW q \in Requests, Infer(q)
        PROVE  BrandSessionOwned'
    BY <2>3 DEF Infer, Inferred
  <2>4. CASE Logout
    BY <2>4 DEF Logout, NoSession
  <2> QED
    BY <2>0, <2>1, <2>2, <2>3, <2>4
    DEF Next, Step, Ask, Select, Confirm, Apply, Refused, Fail, GateAsks, Go, Choose, Read,
        Repair, Leave, vars
<1> QED
  BY <1>1, <1>2, PortalTypeCorrect, PTL DEF Spec

(* The guard of the brand-scoped routes lets through only what is the      *)
(* user's, although it does not look at the owner.                         *)
THEOREM ServedOwnedAlways == Spec => []ServedOwned
<1>1. BrandSessionOwned => ServedOwned
  BY PortalAssumption DEF BrandSessionOwned, ServedOwned, Guard
<1> QED
  BY <1>1, BrandSessionOwnedAlways, PTL

(* inFlightRef names a call that is under way.                             *)
InFlightActive == inFlight # None => Active(inFlight)

(* A gate that waits is answered by exactly one call, the one it began or  *)
(* joined.                                                                 *)
THEOREM GateIsAnsweredAlways == Spec => []GateIsAnswered
<1> DEFINE IInv == GateIsAnswered /\ InFlightActive
<1>1. Init => IInv
  BY DEF Init, GateIsAnswered, InFlightActive, IdleCall, NoGate
<1>2. TypeOK /\ IInv /\ [Next]_vars => IInv'
  <2> SUFFICES ASSUME TypeOK, IInv, [Next]_vars
               PROVE  IInv'
    OBVIOUS
  <2> USE DEF GateIsAnswered, InFlightActive, Active
  <2>t. call \in [Runs -> CallRow] /\ inFlight \in Runs \cup {None} /\ None \notin Runs
    BY PortalAssumption DEF TypeOK, CallRow
  <2>s. ASSUME call' \in [Runs -> CallRow], UNCHANGED <<inFlight, gate>>,
               \A r \in Runs : /\ call'[r].gate = call[r].gate
                               /\ Active(r) => Active(r)'
        PROVE  IInv'
    BY <2>t, <2>s
  <2>f. ASSUME NEW r \in Runs, NEW copy, NEW failed \in BOOLEAN, Finish(r, copy, failed)
        PROVE  IInv'
    <3>1. /\ inFlight' = None
          /\ call' = [call EXCEPT ![r] = IdleCall]
          /\ gate'.busy = (gate.busy /\ ~call[r].gate)
      BY <2>f, FinishSteps
    <3>2. /\ \A q \in Runs \ {r} : call'[q] = call[q]
          /\ call'[r].gate = FALSE
      BY <2>t, <3>1, ResetRows
    <3> QED
      BY <3>1, <3>2
  <2>1. ASSUME NEW r \in Runs, Ask(r) \/ Select(r) \/ Write(r) \/ Confirm(r)
        PROVE  IInv'
    <3>1. call' \in [Runs -> CallRow]
      BY <2>1, CallTypes
    <3>2. UNCHANGED <<inFlight, gate>>
      BY <2>1 DEF Ask, Select, Write, Confirm
    <3>3. \A q \in Runs \ {r} : call'[q] = call[q]
      <4>1. CASE Ask(r)
        BY <4>1, <2>t DEF Ask
      <4>2. CASE Select(r)
        BY <4>2, <2>t DEF Select
      <4>3. CASE Write(r)
        BY <4>3, <2>t DEF Write
      <4>4. CASE Confirm(r)
        BY <4>4, <2>t DEF Confirm
      <4> QED
        BY <2>1, <4>1, <4>2, <4>3, <4>4
    <3>4. call'[r].gate = call[r].gate /\ call'[r].pc # "idle"
      <4>1. CASE Ask(r)
        BY <4>1, <2>t DEF Ask, CallRow
      <4>2. CASE Select(r)
        BY <4>2, <2>t DEF Select, CallRow
      <4>3. CASE Write(r)
        BY <4>3, <2>t DEF Write, CallRow
      <4>4. CASE Confirm(r)
        BY <4>4, <2>t DEF Confirm, CallRow
      <4> QED
        BY <2>1, <4>1, <4>2, <4>3, <4>4
    <3>5. \A q \in Runs : call'[q].gate = call[q].gate /\ (Active(q) => Active(q)')
      BY <3>3, <3>4
    <3> QED
      BY <2>s, <3>1, <3>2, <3>5
  <2>2. ASSUME NEW r \in Runs, Apply(r) \/ Refused(r) \/ Fail(r)
        PROVE  IInv'
    BY <2>2, <2>f DEF Apply, Refused, Fail
  <2>3. CASE GateAsks
    <3>1. gate.type \in Portals /\ gate.brand \in MaybeBrand
      BY <2>3 DEF GateAsks, TypeOK
    <3>2. Ensure(gate.type, gate.brand, TRUE) /\ gate'.busy /\ ~gate.busy
      BY <2>3 DEF GateAsks, TypeOK
    <3>3. \A q \in Runs : ~call[q].gate
      BY <3>2
    <3>4. CASE Joined(TRUE)
      BY <2>t, <3>2, <3>3, <3>4 DEF Joined
    <3>5. ASSUME NEW r \in Runs, Begun(r, TRUE)
          PROVE  IInv'
      BY <2>t, <3>2, <3>3, <3>5 DEF Begun
    <3> QED
      BY <3>1, <3>2, <3>4, <3>5, EnsureSteps
  <2>4. ASSUME NEW type \in Portals, NEW brand \in MaybeBrand, Choose(type, brand)
        PROVE  IInv'
    <3>1. Ensure(type, brand, FALSE) /\ gate' = gate
      BY <2>4 DEF Choose
    <3>2. CASE Joined(FALSE)
      BY <2>t, <3>1, <3>2 DEF Joined
    <3>3. ASSUME NEW r \in Runs, Begun(r, FALSE)
          PROVE  IInv'
      BY <2>t, <3>1, <3>3 DEF Begun
    <3> QED
      BY <3>1, <3>2, <3>3, EnsureSteps
  <2>5. ASSUME NEW type \in Portals, NEW brand \in MaybeBrand, Go(type, brand)
        PROVE  IInv'
    <3>1. /\ \A r \in Runs : ~call'[r].gate /\ call'[r].pc = call[r].pc
          /\ ~gate'.busy /\ inFlight' = inFlight
      BY <2>5, <2>t DEF Go, NoGate, CallRow
    <3> QED
      BY <2>t, <3>1
  <2>6. CASE UNCHANGED <<call, inFlight, gate>>
    BY <2>6
  <2> QED
    BY <2>1, <2>2, <2>3, <2>4, <2>5, <2>6
    DEF Next, Step, Read, Repair, Infer, Put, Leave, Logout, vars
<1> QED
  BY <1>1, <1>2, PortalTypeCorrect, PTL DEF Spec

(* As long as the copy cannot be older than the row: at most one call is   *)
(* under way, what it confirmed is the row, and without one the copy       *)
(* agrees.                                                                 *)
OneCall      == \A r, other \in Runs : Active(r) /\ Active(other) => r = other
SeenIsRow    == \A r \in Runs : call[r].pc = "apply" => call[r].seen = session
TabAgrees    == tab.type = session.type /\ tab.brand = session.brand
CopyOfRow    == ~mixed => /\ OneCall
                          /\ SeenIsRow
                          /\ (tab.ready /\ \A r \in Runs : ~Active(r)) => TabAgrees

(* What a call leaves in the tab is the row it confirmed, or no portal.    *)
LEMMA CopiesConfirmed ==
  ASSUME NEW r \in Runs, Copy(r).ready
  PROVE  Copy(r).type = call[r].seen.type /\ Copy(r).brand = call[r].seen.brand
BY DEF Copy, NoPortal

(* A quiet tab that says it is ready shows the portal and brand of the     *)
(* row, a preserved brand included.                                        *)
THEOREM QuietTabAgreesAlways == Spec => []QuietTabAgrees
<1>1. Init => CopyOfRow
  BY DEF Init, CopyOfRow, OneCall, SeenIsRow, Active, IdleCall, NoPortal
<1>2. TypeOK /\ CopyOfRow /\ [Next]_vars => CopyOfRow'
  <2> SUFFICES ASSUME TypeOK, CopyOfRow, [Next]_vars, ~mixed'
               PROVE  (OneCall /\ SeenIsRow
                        /\ ((tab.ready /\ \A r \in Runs : ~Active(r)) => TabAgrees))'
    BY DEF CopyOfRow
  <2> USE DEF OneCall, SeenIsRow, TabAgrees, Active
  <2> DEFINE Good == (OneCall /\ SeenIsRow
                        /\ ((tab.ready /\ \A r \in Runs : ~Active(r)) => TabAgrees))'
  <2>t. call \in [Runs -> CallRow] /\ inFlight \in Runs \cup {None} /\ session \in Sessions
    BY DEF TypeOK, CallRow
  <2>o. ~mixed => OneCall /\ SeenIsRow
                  /\ ((tab.ready /\ \A r \in Runs : ~Active(r)) => TabAgrees)
    BY DEF CopyOfRow
  <2>f. ASSUME NEW r \in Runs, NEW copy, NEW failed \in BOOLEAN, Finish(r, copy, failed),
               Active(r), session' = session, mixed' = mixed,
               copy.ready => (copy.type = session.type /\ copy.brand = session.brand)
        PROVE  Good
    <3>1. tab' = copy /\ call' = [call EXCEPT ![r] = IdleCall]
      BY <2>f, FinishSteps
    <3>2. call'[r].pc = "idle" /\ \A q \in Runs \ {r} : call'[q] = call[q]
      BY <2>t, <3>1, ResetRows
    <3>3. \A q \in Runs \ {r} : ~Active(q)
      BY <2>f, <2>o
    <3>4. \A q \in Runs : ~Active(q)'
      BY <3>2, <3>3
    <3> QED
      BY <2>f, <3>1, <3>4
  <2>e. ASSUME NEW forGate \in BOOLEAN, UNCHANGED <<session, tab>>,
               Joined(forGate) \/ \E r \in Runs : Begun(r, forGate)
        PROVE  Good
    <3>1. ASSUME Joined(forGate)
          PROVE  Good
      BY <2>o, <2>e, <3>1 DEF Joined
    <3>2. ASSUME NEW r \in Runs, Begun(r, forGate)
          PROVE  Good
      <4>1. \A q \in Runs \ {r} : ~Active(q)'
        BY <3>2 DEF Begun
      <4>2. call'[r].pc = "ask"
        BY <3>2 DEF Begun
      <4> QED
        BY <4>1, <4>2
    <3> QED
      BY <2>e, <3>1, <3>2
  <2>1. ASSUME NEW r \in Runs, Ask(r) \/ Select(r)
        PROVE  Good
    <3>1. /\ UNCHANGED <<session, tab, mixed>>
          /\ \A q \in Runs \ {r} : call'[q] = call[q]
          /\ call'[r].pc \notin {"idle", "apply"} /\ Active(r)
      <4>1. CASE Ask(r)
        BY <4>1, <2>t DEF Ask, CallRow
      <4>2. CASE Select(r)
        BY <4>2, <2>t DEF Select, CallRow
      <4> QED
        BY <2>1, <4>1, <4>2
    <3> QED
      BY <2>o, <3>1
  <2>2. ASSUME NEW r \in Runs, Write(r)
        PROVE  Good
    <3>1. /\ UNCHANGED <<tab, mixed>>
          /\ \A q \in Runs \ {r} : call'[q] = call[q]
          /\ call'[r].pc = "confirm" /\ Active(r)
      BY <2>2, <2>t DEF Write, CallRow
    <3> QED
      BY <2>o, <3>1
  <2>3. ASSUME NEW r \in Runs, Confirm(r)
        PROVE  Good
    <3>1. /\ UNCHANGED <<session, tab>>
          /\ \A q \in Runs \ {r} : call'[q] = call[q] /\ ~Active(q)
          /\ call'[r].pc = "apply" /\ call'[r].seen = session
      BY <2>3, <2>t DEF Confirm, CallRow
    <3> QED
      BY <3>1
  <2>4. ASSUME NEW r \in Runs, Apply(r)
        PROVE  Good
    <3>1. /\ Finish(r, Copy(r), ~Matches(r, call[r].seen)) /\ Active(r)
          /\ session' = session /\ mixed' = mixed
      BY <2>4 DEF Apply
    <3>2. call[r].seen = session
      BY <2>4, <2>o, <3>1 DEF Apply
    <3>3. Copy(r).ready => (Copy(r).type = session.type /\ Copy(r).brand = session.brand)
      BY <3>2, CopiesConfirmed
    <3>4. (~Matches(r, call[r].seen)) \in BOOLEAN
      OBVIOUS
    <3> QED
      BY <2>f, <3>1, <3>3, <3>4
  <2>5. ASSUME NEW r \in Runs, Refused(r) \/ Fail(r)
        PROVE  Good
    <3>1. Finish(r, NoPortal, TRUE) /\ Active(r) /\ session' = session /\ mixed' = mixed
      BY <2>5 DEF Refused, Fail
    <3>2. ~NoPortal.ready
      BY DEF NoPortal
    <3> QED
      BY <2>f, <3>1, <3>2
  <2>6. ASSUME GateAsks
        PROVE  Good
    <3>1. gate.type \in Portals /\ gate.brand \in MaybeBrand
      BY <2>6 DEF GateAsks, TypeOK
    <3>2. Ensure(gate.type, gate.brand, TRUE) /\ UNCHANGED <<session, tab>>
      BY <2>6 DEF GateAsks
    <3>3. Joined(TRUE) \/ \E r \in Runs : Begun(r, TRUE)
      BY <3>1, <3>2, EnsureSteps
    <3> QED
      BY <2>e, <3>2, <3>3
  <2>7. ASSUME NEW type \in Portals, NEW brand \in MaybeBrand, Choose(type, brand)
        PROVE  Good
    <3>1. Ensure(type, brand, FALSE) /\ UNCHANGED <<session, tab>>
      BY <2>7 DEF Choose
    <3>2. Joined(FALSE) \/ \E r \in Runs : Begun(r, FALSE)
      BY <3>1, EnsureSteps
    <3> QED
      BY <2>e, <3>1, <3>2
  <2>8. ASSUME NEW type \in Portals, NEW brand \in MaybeBrand, Go(type, brand)
        PROVE  Good
    <3>1. /\ \A r \in Runs : call'[r].pc = call[r].pc /\ call'[r].seen = call[r].seen
          /\ UNCHANGED <<session, tab, mixed>>
      BY <2>8, <2>t DEF Go, CallRow
    <3> QED
      BY <2>o, <3>1
  <2>9. ASSUME UNCHANGED <<session, tab, call, mixed>>
        PROVE  Good
    BY <2>o, <2>9
  <2>10. CASE mixed'
    BY <2>10
  <2> QED
    BY <2>1, <2>2, <2>3, <2>4, <2>5, <2>6, <2>7, <2>8, <2>9, <2>10
    DEF Next, Step, Read, Repair, Infer, Put, Leave, Logout, vars
<1>3. CopyOfRow => QuietTabAgrees
  BY DEF CopyOfRow, TabAgrees, QuietTabAgrees
<1> QED
  BY <1>1, <1>2, <1>3, PortalTypeCorrect, PTL DEF Spec
=============================================================================
