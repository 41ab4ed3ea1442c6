--------------------------- MODULE PortalSession ---------------------------
(***************************************************************************)
(* The portal a user has selected: the PortalSession row of the server,    *)
(* the requests that write it and are guarded by it, and one browser tab   *)
(* that keeps a copy.  The tab shows a page only when its copy fits the    *)
(* page's PortalGate; ensurePortal brings row and copy there in several    *)
(* requests.  Calls of ensurePortal overlap, and other tabs of the user    *)
(* write the row in between.                                               *)
(*                                                                         *)
(* A brand-scoped page lies under a route segment that holds the brand, so *)
(* a page of another brand mounts a PortalGate anew.                       *)
(***************************************************************************)
EXTENDS Naturals

CONSTANTS
  Brands,      \* the brands
  Owned,       \* those whose ownerUserId is the user
  Runs,        \* calls of ensurePortal under way at the same time
  Requests,    \* requests of other tabs under way at the same time
  None,        \* null
  MaxTrouble,  \* bound: failed requests and requests of other tabs
  MaxMoves     \* bound: pages visited and portals chosen by the user

ASSUME PortalAssumption ==
  /\ Owned \subseteq Brands
  /\ None \notin Brands \cup Runs
  /\ MaxTrouble \in Nat
  /\ MaxMoves \in Nat

MaybeBrand == Brands \cup {None}
Portals    == {"brand", "owner"}

\* A row, or "none" when there is no row.
Sessions  == [type : Portals \cup {"none"}, brand : MaybeBrand, explicit : BOOLEAN]
NoSession == [type |-> "none", brand |-> None, explicit |-> FALSE]

VARIABLES
  session,   \* the portalSession of the user
  tab,       \* PortalProvider: [type, brand, ready]
  inFlight,  \* inFlightRef: the call to join, or None
  call,      \* calls of ensurePortal: [pc, type, brand, seen, gate]
  gate,      \* the mounted PortalGate: [type, brand, last, busy]
  request,   \* requests of other tabs: [pc, kind, brand, seen]
  mixed,     \* history: the copy may be older than the row (see QuietTabAgrees)
  spoiled,   \* history: another call closed the open gate
  trouble, moves

vars == <<session, tab, inFlight, call, gate, request, mixed, spoiled,
          trouble, moves>>

NoPortal    == [type |-> "none", brand |-> None, ready |-> FALSE]
NoGate      == [type |-> "none", brand |-> None, last |-> None, busy |-> FALSE]
IdleCall    == [pc |-> "idle", type |-> "brand", brand |-> None, seen |-> NoSession,
                gate |-> FALSE]
IdleRequest == [pc |-> "idle", kind |-> "select brand", brand |-> None, seen |-> NoSession]

Init ==
  /\ session = NoSession
  /\ tab = NoPortal
  /\ inFlight = None
  /\ call = [r \in Runs |-> IdleCall]
  /\ gate = NoGate
  /\ request = [q \in Requests |-> IdleRequest]
  /\ mixed = FALSE
  /\ spoiled = FALSE
  /\ trouble = 0
  /\ moves = 0
-----------------------------------------------------------------------------
(* POST /auth/select-portal *)

\* finalBrandId, from what was asked for and the row read before.
Final(type, brand, existing) ==
  CASE type = "owner"           -> None
    [] brand # None             -> brand
    [] existing.type = "brand"  -> existing.brand
    [] OTHER                    -> None

\* 403 for a brand of somebody else.
Allowed(type, brand) == type = "owner" \/ brand \in Owned \cup {None}

Selection(type, brand, existing) ==
  [type |-> type, brand |-> Final(type, brand, existing), explicit |-> TRUE]
-----------------------------------------------------------------------------
(* ensurePortal *)

Active(r) == call[r].pc # "idle"

\* Whether the copy lets the page through (portalReady of the PortalGate g).
Opens(g, t) == /\ t.ready
               /\ t.type = g.type
               /\ (g.type = "brand" /\ g.brand # None) => t.brand = g.brand

\* What a call confirms, and what it must have confirmed: the portal, and the
\* brand when one was asked for.
Matches(r, s) == /\ s.type = call[r].type
                 /\ (call[r].type = "brand" /\ call[r].brand # None) => s.brand = call[r].brand

\* Mutant: a gate that joins a call is not told.
EnsureTellsNobody(type, brand, forGate) ==
  IF /\ inFlight # None
     /\ call[inFlight].type = type
     /\ call[inFlight].brand = brand
  THEN UNCHANGED <<call, inFlight, mixed>>
  ELSE \E r \in Runs :
         /\ ~Active(r)
         /\ call' = [call EXCEPT ![r] = [IdleCall EXCEPT !.pc = "ask", !.type = type,
                                                         !.brand = brand, !.gate = forGate]]
         /\ inFlight' = r
         /\ mixed' = (mixed \/ \E other \in Runs : Active(other))

\* A call begins, unless one for the same portal is in flight: then that one is
\* returned, and the caller waits for it.
Ensure(type, brand, forGate) ==
  IF /\ inFlight # None
     /\ call[inFlight].type = type
     /\ call[inFlight].brand = brand
  THEN /\ call' = [call EXCEPT ![inFlight].gate = @ \/ forGate]
       /\ UNCHANGED <<inFlight, mixed>>
  ELSE \E r \in Runs :
         /\ ~Active(r)
         /\ call' = [call EXCEPT ![r] = [IdleCall EXCEPT !.pc = "ask", !.type = type,
                                                         !.brand = brand, !.gate = forGate]]
         /\ inFlight' = r
         /\ mixed' = (mixed \/ \E other \in Runs : Active(other))

\* GET /auth/me: select only when the row differs.
Ask(r) ==
  /\ call[r].pc = "ask"
  /\ call' = [call EXCEPT ![r].pc = IF Matches(r, session) THEN "confirm" ELSE "select"]
  /\ UNCHANGED <<session, tab, inFlight, gate, request, mixed, spoiled, trouble, moves>>

\* The select-portal route reads the row ...
Select(r) ==
  /\ call[r].pc = "select"
  /\ call' = [call EXCEPT ![r].pc = "write", ![r].seen = session]
  /\ UNCHANGED <<session, tab, inFlight, gate, request, mixed, spoiled, trouble, moves>>

\* ... and writes it.
Write(r) ==
  LET new == Selection(call[r].type, call[r].brand, call[r].seen)
  IN /\ call[r].pc = "write"
     /\ Allowed(call[r].type, new.brand)
     /\ session' = new
     /\ call' = [call EXCEPT ![r].pc = "confirm", ![r].seen = NoSession]
     /\ UNCHANGED <<tab, inFlight, gate, request, mixed, spoiled, trouble, moves>>

\* GET /auth/me again.
Confirm(r) ==
  /\ call[r].pc = "confirm"
  /\ call' = [call EXCEPT ![r].pc = "apply", ![r].seen = session]
  /\ mixed' = (\E other \in Runs \ {r} : Active(other))
  /\ UNCHANGED <<session, tab, inFlight, gate, request, spoiled, trouble, moves>>

\* Mutant: after a failure the gate does not ask again.
FinishKeepsLast(r, copy, failed) ==
  /\ tab' = copy
  /\ inFlight' = None
  /\ call' = [call EXCEPT ![r] = IdleCall]
  /\ gate' = IF ~call[r].gate THEN gate ELSE [gate EXCEPT !.busy = FALSE]
  /\ spoiled' = (spoiled \/ (~call[r].gate /\ Opens(gate, tab) /\ ~Opens(gate, copy)))

\* A call ends: its end clears inFlightRef whichever call that names, and the gate
\* that waits for it is told; after a failure it may ask again.
Finish(r, copy, failed) ==
  /\ tab' = copy
  /\ inFlight' = None
  /\ call' = [call EXCEPT ![r] = IdleCall]
  /\ gate' = IF ~call[r].gate THEN gate
             ELSE [gate EXCEPT !.busy = FALSE, !.last = IF failed THEN None ELSE @]
  /\ spoiled' = (spoiled \/ (~call[r].gate /\ Opens(gate, tab) /\ ~Opens(gate, copy)))

\* Mutant: what was asked for is taken for what was selected.
CopyAsked(r) == [type |-> call[r].type, brand |-> call[r].brand, ready |-> TRUE]

\* What a call leaves in the tab: what was confirmed, if that is what was asked for.
Copy(r) == IF Matches(r, call[r].seen)
           THEN [type |-> call[r].seen.type, brand |-> call[r].seen.brand, ready |-> TRUE]
           ELSE NoPortal

Apply(r) ==
  /\ call[r].pc = "apply"
  /\ Finish(r, Copy(r), ~Matches(r, call[r].seen))
  /\ UNCHANGED <<session, request, mixed, trouble, moves>>

\* The brand is refused, or a request of the call fails.
Refused(r) ==
  /\ call[r].pc = "write"
  /\ ~Allowed(call[r].type, Final(call[r].type, call[r].brand, call[r].seen))
  /\ Finish(r, NoPortal, TRUE)
  /\ UNCHANGED <<session, request, mixed, trouble, moves>>

Fail(r) ==
  /\ Active(r)
  /\ trouble < MaxTrouble
  /\ trouble' = trouble + 1
  /\ Finish(r, NoPortal, TRUE)
  /\ UNCHANGED <<session, request, mixed, moves>>
-----------------------------------------------------------------------------
(* The page *)

\* The user goes to a page: its gate is a new one.  A call for the former gate
\* goes on, but nobody waits for it.
Go(type, brand) ==
  /\ moves < MaxMoves
  /\ moves' = moves + 1
  /\ <<type, brand>> # <<gate.type, gate.brand>>
  /\ type = "owner" => brand = None
  /\ gate' = [NoGate EXCEPT !.type = type, !.brand = brand]
  /\ call' = [r \in Runs |-> [call[r] EXCEPT !.gate = FALSE]]
  /\ spoiled' = FALSE
  /\ UNCHANGED <<session, tab, inFlight, request, mixed, trouble>>

\* The effect of the PortalGate.
GateAsks ==
  /\ gate.type # "none"
  /\ ~Opens(gate, tab)
  /\ gate.type = "brand" => (gate.brand # None /\ gate.last # gate.brand)
  /\ ~gate.busy
  /\ Ensure(gate.type, gate.brand, TRUE)
  /\ gate' = [gate EXCEPT !.busy = TRUE, !.last = IF gate.type = "brand" THEN gate.brand ELSE @]
  /\ UNCHANGED <<session, tab, request, spoiled, trouble, moves>>

\* The user chooses a portal or a brand (select-portal page, brand lists, the
\* brand menu): the page waits for the call and goes on from there.
Choose(type, brand) ==
  /\ moves < MaxMoves
  /\ moves' = moves + 1
  /\ type = "owner" => brand = None
  /\ Ensure(type, brand, FALSE)
  /\ UNCHANGED <<session, tab, gate, request, spoiled, trouble>>
-----------------------------------------------------------------------------
(* Requests of other tabs *)

Kinds == {"select brand", "select owner", "choose brand"}

\* Mutant: the type of the portal is not looked at.
GuardBrandOnly(brand) == session.brand = brand

\* requireAuth and the guard of the route; brand-scoped routes are let through
\* only for the selected brand.
Guard(brand) == session.type = "brand" /\ session.brand = brand

\* requireOwnerPortal refuses a brand portal that was chosen.
OwnerGuard == ~(session.explicit /\ session.type # "owner")

\* A request reads the row.  Routes of the owner portal come in two: the guard,
\* which infers the owner portal when there was no row, and then the handler.
Read(q, kind, brand) ==
  /\ request[q].pc = "idle"
  /\ trouble < MaxTrouble
  /\ trouble' = trouble + 1
  /\ kind = "choose brand" => (OwnerGuard /\ brand # None)
  /\ request' = [request EXCEPT ![q] =
       [pc |-> IF kind = "choose brand" /\ session = NoSession THEN "infer" ELSE "write",
        kind |-> kind, brand |-> brand, seen |-> session]]
  /\ UNCHANGED <<session, tab, inFlight, call, gate, mixed, spoiled, moves>>

\* apiFetch, of this tab or another: when the guard of its route refused a call, the
\* portal of that route is selected for it, and the tab's copy is not told.
Repair(q, brand) ==
  /\ IF brand # None THEN ~Guard(brand) ELSE ~OwnerGuard
  /\ Read(q, IF brand # None THEN "select brand" ELSE "select owner", brand)

Inferred == [type |-> "owner", brand |-> None, explicit |-> FALSE]

Infer(q) ==
  /\ request[q].pc = "infer"
  /\ session' = Inferred
  /\ request' = [request EXCEPT ![q].pc = "write"]
  /\ mixed' = TRUE
  /\ UNCHANGED <<tab, inFlight, call, gate, spoiled, trouble, moves>>

\* What the request writes: the selection, or for POST /me/brands/:brandId/select
\* the brand an owner is interested in, whoever owns it.
New(q) ==
  CASE request[q].kind = "select brand" -> Selection("brand", request[q].brand, request[q].seen)
    [] request[q].kind = "select owner" -> Selection("owner", request[q].brand, request[q].seen)
    [] OTHER -> [type |-> "owner", brand |-> request[q].brand, explicit |-> TRUE]

Put(q) ==
  /\ request[q].pc = "write"
  /\ New(q).type = "brand" => Allowed("brand", New(q).brand)
  /\ session' = New(q)
  /\ request' = [request EXCEPT ![q] = IdleRequest]
  /\ mixed' = TRUE
  /\ UNCHANGED <<tab, inFlight, call, gate, spoiled, trouble, moves>>

\* Refused, or the handler fails.
Leave(q) ==
  /\ request[q].pc # "idle"
  /\ request' = [request EXCEPT ![q] = IdleRequest]
  /\ UNCHANGED <<session, tab, inFlight, call, gate, mixed, spoiled, trouble, moves>>

Logout ==
  /\ trouble < MaxTrouble
  /\ trouble' = trouble + 1
  /\ session' = NoSession
  /\ mixed' = TRUE
  /\ UNCHANGED <<tab, inFlight, call, gate, request, spoiled, moves>>
-----------------------------------------------------------------------------
Step(r) == Ask(r) \/ Select(r) \/ Write(r) \/ Confirm(r) \/ Apply(r) \/ Refused(r)

Next ==
  \/ \E r \in Runs : Step(r) \/ Fail(r)
  \/ GateAsks
  \/ \E type \in Portals, brand \in MaybeBrand : Go(type, brand) \/ Choose(type, brand)
  \/ \E q \in Requests :
       \/ \E brand \in MaybeBrand :
            Repair(q, brand) \/ \E kind \in Kinds : Read(q, kind, brand)
       \/ Infer(q) \/ Put(q) \/ Leave(q)
  \/ Logout

Spec == Init /\ [][Next]_vars

\* Requests are answered or fail, and React runs the effect of the gate after each
\* change of what it depends on.
Fairness ==
  /\ \A r \in Runs : WF_vars(Step(r))
  /\ \A q \in Requests : WF_vars(Infer(q) \/ Put(q) \/ Leave(q))
  /\ WF_vars(GateAsks)

FairSpec == Spec /\ Fairness
-----------------------------------------------------------------------------
TypeOK ==
  /\ session \in Sessions
  /\ session.type = "none" => session = NoSession
  /\ ~session.explicit => session.brand = None
  /\ tab \in [type : Portals \cup {"none"}, brand : MaybeBrand, ready : BOOLEAN]
  /\ inFlight \in Runs \cup {None}
  /\ call \in [Runs -> [pc : {"idle", "ask", "select", "write", "confirm", "apply"},
                        type : Portals, brand : MaybeBrand, seen : Sessions, gate : BOOLEAN]]
  /\ gate \in [type : Portals \cup {"none"}, brand : MaybeBrand, last : MaybeBrand,
               busy : BOOLEAN]
  /\ request \in [Requests -> [pc : {"idle", "infer", "write"}, kind : Kinds,
                               brand : MaybeBrand, seen : Sessions]]
  /\ mixed \in BOOLEAN
  /\ spoiled \in BOOLEAN
  /\ trouble \in 0..MaxTrouble
  /\ moves \in 0..MaxMoves

\* A brand portal is only ever open for a brand of the user, although the brand
\* may come from a row read earlier and an owner's choice is stored in the same
\* column without a look at who owns it (auth.ts:78-106, me.ts:190-211).
BrandSessionOwned == session.type = "brand" => session.brand \in Owned \cup {None}

\* The guard of the brand-scoped routes, which compares the row with the route and
\* does not look at the owner, lets through only what is the user's
\* (requirePortal.ts:90-147, brands.ts:266).
ServedOwned == \A brand \in Brands : Guard(brand) => brand \in Owned

\* When no call is under way, and since the last confirmation no two calls ran at
\* once and no other tab wrote the row, a tab that says it is ready shows the
\* portal and brand of the row, a preserved brand included (portal.tsx:122-215).
QuietTabAgrees ==
  (tab.ready /\ ~mixed /\ \A r \in Runs : ~Active(r))
     => (tab.type = session.type /\ tab.brand = session.brand)

\* A gate that waits does so for a call under way, also when it joined a call that
\* somebody else began; no two calls answer the same gate (portal.tsx:135-138,
\* 207-215, portal-gate.tsx:48-72).
GateIsAnswered ==
  /\ gate.busy => \E r \in Runs : Active(r) /\ call[r].gate
  /\ \A r \in Runs : call[r].gate => (gate.busy /\ \A other \in Runs \ {r} : ~call[other].gate)

\* The gate of a page the user may see: of the owner portal, or of a brand of his.
RightfulGate(brand) == IF brand = None THEN gate.type = "owner"
                                       ELSE gate.type = "brand" /\ gate.brand = brand

\* A gate that the user may see and does not leave opens, whatever requests failed
\* and other tabs wrote on the way, unless another call of the tab closed it again
\* (portal-gate.tsx:36-81).
GateOpens ==
  \A brand \in Owned \cup {None} :
    [](([]RightfulGate(brand)) => <>(Opens(gate, tab) \/ spoiled))
=============================================================================
