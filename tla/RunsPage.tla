------------------------------ MODULE RunsPage ------------------------------
(***************************************************************************)
(* The workflows page of a brand: the list of its runs, the panel that     *)
(* shows one of them, the polling of that one, and the Retry button.       *)
(*                                                                         *)
(* The list and the panel are two routes with the same component, so going *)
(* from one to the other mounts it anew, and only going from one run to    *)
(* another keeps its state.  A new mount looks for the run of its route in *)
(* a list it does not have yet: it opens the panel without a status.       *)
(*                                                                         *)
(* queued and running are one status, "pending", as the page treats them.  *)
(* Verify now asks for a route the server does not have, and the server    *)
(* sends no onchainVerification: neither changes anything here.            *)
(***************************************************************************)
EXTENDS Naturals

CONSTANTS
  Ids,         \* workflow runs of the brand
  Calls,       \* requests of the page for one run under way at the same time
  None,        \* null, undefined
  MaxMoves     \* bound: routes visited, retries the server accepts and requests that
               \* fail, taken together

Statuses   == {"pending", "succeeded", "failed"}
Selections == [run : Ids, status : Statuses \cup {None}]

ASSUME RunsPageAssumption ==
  /\ None \notin Ids \cup Statuses \cup Selections
  /\ MaxMoves \in Nat

VARIABLES
  status,     \* workflowRun.status of each run
  route,      \* runId of the route, or None on the list
  rows,       \* runs: the status of each, or None before the list was loaded
  cache,      \* the last answer useSWR keeps, or None
  listing,    \* the request for the list: [pc, rows]
  chosen,     \* selectedRun: one of Selections, or None
  detail,     \* detail: [run, status], or None
  broken,     \* whether detailError is set
  retrying,
  call,       \* requests for one run: [kind, run, answer]
  overtaken,  \* history: the route went on while a request for another run was under way
  moves       \* number of what is bounded

list     == <<rows, cache, listing>>
panel    == <<chosen, detail, broken, retrying>>
pageVars == <<status, route, list, panel, call, overtaken, moves>>

Idle == [kind |-> "idle", run |-> None, answer |-> None]

NoRequest == [pc |-> "none", rows |-> None]
Requested == [pc |-> "sent", rows |-> None]

RunsPageInit ==
  /\ status \in [Ids -> Statuses]
  /\ route = None
  /\ rows = None
  /\ cache = None
  /\ listing = Requested
  /\ chosen = None
  /\ detail = None
  /\ broken = FALSE
  /\ retrying = FALSE
  /\ call = [c \in Calls |-> Idle]
  /\ overtaken = FALSE
  /\ moves = 0
-----------------------------------------------------------------------------
Moves == moves < MaxMoves /\ moves' = moves + 1

\* The interval of the effect: it is set up anew after every render.
Followed == chosen # None /\ chosen.status = "pending"

Send(c, kind, run) == [call EXCEPT ![c] = [kind |-> kind, run |-> run, answer |-> None]]

\* A retry goes on at the server when its page is gone; nobody waits for it.
Dropped(c) == IF call[c].kind \in {"retry", "orphan"} /\ call[c].answer = None
              THEN [call[c] EXCEPT !.kind = "orphan"]
              ELSE Idle

\* Mutant: the panel keeps what it showed.
OpenKeepsDetail(run, known, calls, c) ==
  /\ chosen' = [run |-> run, status |-> known]
  /\ UNCHANGED detail
  /\ broken' = FALSE
  /\ call' = [calls EXCEPT ![c] = [kind |-> "open", run |-> run, answer |-> None]]

\* openDetailById, with the status of the matching row if there is one.
Open(run, known, calls, c) ==
  /\ chosen' = [run |-> run, status |-> known]
  /\ detail' = None
  /\ broken' = FALSE
  /\ call' = [calls EXCEPT ![c] = [kind |-> "open", run |-> run, answer |-> None]]

\* Another run, by the history of the browser: the component stays.
NextRun(run) ==
  /\ Moves
  /\ route \notin {None, run}
  /\ \E c \in Calls :
       /\ call[c] = Idle
       /\ Open(run, IF rows = None THEN None ELSE rows[run], call, c)
  /\ route' = run
  /\ overtaken' = (overtaken \/ \E c \in Calls : call[c].kind \notin {"idle", "orphan"})
  /\ UNCHANGED <<status, list, retrying>>

\* To the list or from it: a new mount, which starts from the cached list and asks
\* for a new one.
Mount(to) ==
  /\ Moves
  /\ to # route /\ None \in {to, route}
  /\ LET left == [c \in Calls |-> Dropped(c)]
     IN IF to = None
        THEN chosen' = None /\ detail' = None /\ broken' = FALSE /\ call' = left
        ELSE \E c \in Calls : left[c] = Idle /\ Open(to, None, left, c)
  /\ route' = to
  /\ rows' = cache
  /\ listing' = Requested
  /\ retrying' = FALSE
  /\ overtaken' = FALSE
  /\ UNCHANGED <<status, cache>>
-----------------------------------------------------------------------------
(* The list *)

\* On focus, every five seconds while a run is pending, and on Refresh.
Refresh ==
  /\ listing = NoRequest
  /\ listing' = Requested
  /\ UNCHANGED <<status, route, rows, cache, panel, call, overtaken, moves>>

\* GET /brands/:brandId/workflows
ServeList ==
  /\ listing = Requested
  /\ listing' = [pc |-> "answered", rows |-> status]
  /\ UNCHANGED <<status, route, rows, cache, panel, call, overtaken, moves>>

\* An answer equal to the cached one changes nothing (useSWR compares them), another
\* replaces what the rows say (mergeRuns, applyRuns).
ShowList ==
  /\ listing.pc = "answered"
  /\ cache' = listing.rows
  /\ rows' = IF listing.rows = cache THEN rows ELSE listing.rows
  /\ listing' = NoRequest
  /\ UNCHANGED <<status, route, panel, call, overtaken, moves>>

FailList ==
  /\ listing # NoRequest
  /\ Moves
  /\ listing' = NoRequest
  /\ UNCHANGED <<status, route, rows, cache, panel, call, overtaken>>
-----------------------------------------------------------------------------
(* The panel *)

Poll(c) ==
  /\ Followed
  /\ call[c] = Idle
  /\ call' = Send(c, "poll", chosen.run)
  /\ UNCHANGED <<status, route, list, panel, overtaken, moves>>

\* The button is on a panel that shows a run, in place of an error or of "Loading",
\* and is there for a failed run.
CanRetry == /\ detail # None /\ ~broken
            /\ chosen # None /\ chosen.status = "failed"
            /\ ~retrying

\* handleRetry asks the user to confirm.
Retry(c) ==
  /\ CanRetry
  /\ call[c] = Idle
  /\ call' = Send(c, "retry", chosen.run)
  /\ retrying' = TRUE
  /\ UNCHANGED <<status, route, list, chosen, detail, broken, overtaken, moves>>

\* GET /brands/:brandId/workflows/:runId
ServeDetail(c) ==
  /\ call[c].kind \in {"open", "poll", "refresh"}
  /\ call[c].answer = None
  /\ call' = [call EXCEPT ![c].answer = status[call[c].run]]
  /\ UNCHANGED <<status, route, list, panel, overtaken, moves>>

\* POST /brands/:brandId/workflows/:runId/retry: only a failed run is submitted again.
ServeRetry(c) ==
  /\ call[c].kind \in {"retry", "orphan"}
  /\ call[c].answer = None
  /\ \/ /\ status[call[c].run] = "failed"
        /\ Moves
        /\ status' = [status EXCEPT ![call[c].run] = "pending"]
        /\ call' = IF call[c].kind = "orphan" THEN [call EXCEPT ![c] = Idle]
                                              ELSE [call EXCEPT ![c].answer = "ok"]
     \/ /\ call' = IF call[c].kind = "orphan" THEN [call EXCEPT ![c] = Idle]
                                              ELSE [call EXCEPT ![c].answer = "refused"]
        /\ UNCHANGED <<status, moves>>
  /\ UNCHANGED <<route, list, panel, overtaken>>

\* Mutant: an answer is put to the run that is selected, whichever it is about.
ApplyDetailAnyway(run, value) ==
  /\ chosen' = IF chosen # None THEN [chosen EXCEPT !.status = value] ELSE chosen
  /\ rows' = IF rows = None THEN None ELSE [rows EXCEPT ![run] = value]

\* applyDetailToRun
ApplyDetail(run, value) ==
  /\ chosen' = IF chosen # None /\ chosen.run = run THEN [chosen EXCEPT !.status = value]
                                                    ELSE chosen
  /\ rows' = IF rows = None THEN None ELSE [rows EXCEPT ![run] = value]

\* The answer is shown, whichever run the panel is about by now; only that of a poll
\* is applied to the selected run.
ShowDetail(c) ==
  /\ call[c].kind \in {"open", "poll", "refresh"}
  /\ call[c].answer # None
  /\ detail' = [run |-> call[c].run, status |-> call[c].answer]
  /\ IF call[c].kind = "poll" THEN ApplyDetail(call[c].run, call[c].answer)
                              ELSE UNCHANGED <<chosen, rows>>
  /\ retrying' = (retrying /\ call[c].kind # "refresh")
  /\ call' = [call EXCEPT ![c] = Idle]
  /\ UNCHANGED <<status, route, cache, listing, broken, overtaken, moves>>

\* handleRetry goes on with a look at the run.
ShowRetry(c) ==
  /\ call[c].kind = "retry"
  /\ \/ call[c].answer = "ok" /\ call' = Send(c, "refresh", call[c].run) /\ UNCHANGED retrying
     \/ call[c].answer = "refused" /\ call' = [call EXCEPT ![c] = Idle] /\ retrying' = FALSE
  /\ UNCHANGED <<status, route, list, chosen, detail, broken, overtaken, moves>>

\* The request fails: only that of openDetailById leaves an error on the panel.
FailCall(c) ==
  /\ call[c].kind \notin {"idle", "orphan"}
  /\ Moves
  /\ broken' = (broken \/ call[c].kind = "open")
  /\ retrying' = (retrying /\ call[c].kind \notin {"retry", "refresh"})
  /\ call' = [call EXCEPT ![c] = IF call[c].kind = "retry" THEN Dropped(c) ELSE Idle]
  /\ UNCHANGED <<status, route, list, chosen, detail, overtaken>>

\* The run goes on at KRNL, and the server's poller stores how it ended.
EndRun(run) ==
  /\ status[run] = "pending"
  /\ \E s \in {"succeeded", "failed"} : status' = [status EXCEPT ![run] = s]
  /\ UNCHANGED <<route, list, panel, call, overtaken, moves>>
-----------------------------------------------------------------------------
Answer(c) == ServeDetail(c) \/ ServeRetry(c) \/ ShowDetail(c) \/ ShowRetry(c)

RunsPageNext ==
  \/ \E run \in Ids : NextRun(run) \/ EndRun(run)
  \/ \E to \in Ids \cup {None} : Mount(to)
  \/ Refresh \/ ServeList \/ ShowList \/ FailList
  \/ \E c \in Calls : Poll(c) \/ Retry(c) \/ Answer(c) \/ FailCall(c)

RunsPageSpec == RunsPageInit /\ [][RunsPageNext]_pageVars
\* What the page says of a run: in the row of the list, and in the panel.
RowSays(run)   == IF rows = None THEN {} ELSE {rows[run]}
PanelSays(run) == {said.status : said \in {x \in {chosen, detail} \ {None} : x.run = run}}
SaidOf(run)    == RowSays(run) \cup PanelSays(run)
-----------------------------------------------------------------------------
(* Properties                                                              *)

Listings == [Ids -> Statuses] \cup {None}

\* Looks at a run, retries that are awaited, and those whose page is gone.
CallSet == {Idle}
  \cup [kind : {"open", "poll", "refresh"}, run : Ids, answer : Statuses \cup {None}]
  \cup [kind : {"retry"}, run : Ids, answer : {None, "ok", "refused"}]
  \cup [kind : {"orphan"}, run : Ids, answer : {None}]

\* Every piece of the page's state is of its type; no call is answered with what
\* another kind of call is answered with.
PageTypeOK ==
  /\ status \in [Ids -> Statuses]
  /\ route \in Ids \cup {None}
  /\ rows \in Listings /\ cache \in Listings
  /\ listing \in [pc : {"none", "sent", "answered"}, rows : Listings]
  /\ chosen \in Selections \cup {None}
  /\ detail \in [run : Ids, status : Statuses] \cup {None}
  /\ broken \in BOOLEAN /\ retrying \in BOOLEAN /\ overtaken \in BOOLEAN
  /\ call \in [Calls -> CallSet]
  /\ moves \in 0..MaxMoves

\* The panel is about one run: what it shows and what its buttons act on are the
\* same run, unless the route went on while a request for another was under way
\* (workflows/page.tsx:205-241, 395-450).
PanelOfOneRun ==
  (detail # None /\ ~overtaken) => (chosen # None /\ detail.run = chosen.run)

\* What the page calls succeeded has succeeded: no answer is put to a run it is not
\* about, whichever run is selected and in whatever order answers come, and a
\* success is final, retries included (workflows/page.tsx:137-300, 395-450,
\* brands.ts:2217-2302).
SucceededForReal ==
  \A run \in Ids : "succeeded" \in SaidOf(run) => status[run] = "succeeded"
=============================================================================
