---------------------------- MODULE WorkflowRuns ----------------------------
(***************************************************************************)
(* The life of one workflow run: its row in the database, what the KRNL    *)
(* node and the chain do with each submission of it, and those that write  *)
(* the row from what they see.  krnlService.ts submits it and polls on     *)
(* behalf of a request (pollUntilTxHash) or of the automation worker       *)
(* (pollUntilTxHashByIntent), krnlRunPoller.ts polls in the background,    *)
(* and routes/brands.ts submits a failed run once more.                    *)
(*                                                                         *)
(* Every await is the end of a step, so what was read before it may be     *)
(* stale when it is used.  A process that takes no more steps has crashed. *)
(* Submissions are numbered; a number stands for the ids KRNL returned and *)
(* for the hash of the transaction.                                        *)
(***************************************************************************)
EXTENDS Naturals, FiniteSets

CONSTANTS
  RunType,      \* the type of the run
  Polls,        \* calls of pollUntilTxHash and pollUntilTxHashByIntent
  Retries,      \* requests POST /brands/:brandId/workflows/:runId/retry
  MaxAge        \* bound: 1 if the run never leaves the window of the poller

\* The types a retry supports, and those whose success has an effect on the
\* unlocked traits.
RetryableTypes == {"OPEN_LOOTBOX", "QUEST_REWARD", "MINT_BASE_NFT"}
EffectTypes    == {"OPEN_LOOTBOX", "SET_ACTIVE_TRAITS"}

ASSUME RunsAssumption ==
  /\ RunType \in RetryableTypes \cup EffectTypes
  /\ IsFiniteSet(Retries)
  /\ MaxAge \in {1, 2}

\* pollUntilTxHash and pollUntilTxHashByIntent.
Kinds == {"strict", "intent"}

\* One for the run and at most one more for each retry; 0 is no submission.
Submissions == 1..(1 + Cardinality(Retries))
NoHash == 0
Hashes == Submissions \cup {NoHash}

VARIABLES
  submit,   \* what became of the first submission, until the row is written
  row,      \* workflowRun: [status, ref, exec, chain, tx], "none" if missing
  applied,  \* whether the traits of the run were unlocked or activated
  age,      \* since createdAt: 0, 1 over 20 minutes, 2 over 24 hours
  node,     \* what the KRNL node did with each submission
  mined,    \* whether the transaction of each submission is in a block
  polls,    \* each poll: [kind, pc, ref, tx, stored, last, answer]
  poller,   \* the background poller: [pc, seen, age, answer, receipt]
  retries,  \* each retry: [pc, ref]
  gaveUp    \* history: failed by a timeout or by a lost answer

outside  == <<node, mined>>
vars     == <<submit, row, applied, age, outside, polls, poller, retries, gaveUp>>

\* ref: the submission whose ids the row holds.  exec, chain and tx are
\* krnlExecutionHash, chainTxHash and txHash.
NewRow(status) == [status |-> status, ref |-> 1, exec |-> NoHash, chain |-> NoHash, tx |-> NoHash]

NoAnswer == [status |-> "unknown", hash |-> FALSE]
IdlePoll == [kind |-> "strict", pc |-> "idle", ref |-> 1, tx |-> NoHash, stored |-> NoHash,
             last |-> "unknown", answer |-> NoAnswer]
IdlePoller == [pc |-> "idle", seen |-> NewRow("none"), age |-> 0, answer |-> NoAnswer,
               receipt |-> FALSE]

Init ==
  /\ submit = "idle"
  /\ row = NewRow("none")
  /\ applied = FALSE
  /\ age = 0
  /\ node = [s \in Submissions |-> "none"]
  /\ mined = [s \in Submissions |-> FALSE]
  /\ polls = [p \in Polls |-> IdlePoll]
  /\ poller = IdlePoller
  /\ retries = [r \in Retries |-> [pc |-> "idle", ref |-> 1]]
  /\ gaveUp = FALSE
-----------------------------------------------------------------------------
(* The KRNL node and the chain, as far as their answers go.  A hash in an  *)
(* answer is taken for that of the transaction, as the code does with any  *)
(* 32 bytes it finds there.                                                *)

\* getRunStatus: a submission the node does not know counts as one that failed.
StatusOf(s) == CASE node[s] = "none" -> "failed"
                 [] node[s] = "sent" -> "running"
                 [] OTHER -> node[s]

\* Whether a hash is found in the answer; it need not be in each.
HashesIn(s) == IF node[s] \in {"sent", "succeeded"} THEN BOOLEAN ELSE {FALSE}

\* resolveKrnlTrackingStatus: the state of the submission, or an answer that cannot
\* be read, which is "unknown" over HTTP and "queued" over JSON-RPC.
Answers(s) == [status : {StatusOf(s), "unknown", "queued"}, hash : HashesIn(s)]

NodeStep(s) ==
  /\ \/ node[s] = "queued" /\ node' = [node EXCEPT ![s] = "running"]
     \/ node[s] \in {"queued", "running"} /\ node' = [node EXCEPT ![s] = "failed"]
     \/ node[s] = "running" /\ node' = [node EXCEPT ![s] = "sent"]
     \/ node[s] = "sent" /\ node' = [node EXCEPT ![s] = "succeeded"]
  /\ UNCHANGED <<submit, row, applied, age, mined, polls, poller, retries, gaveUp>>

\* The transaction of a submission enters a block, executed or reverted: no
\* status depends on what the receipt says of that.
Mine(s) ==
  /\ node[s] \in {"sent", "succeeded"}
  /\ ~mined[s]
  /\ mined' = [mined EXCEPT ![s] = TRUE]
  /\ UNCHANGED <<submit, row, applied, age, node, polls, poller, retries, gaveUp>>

GrowOld ==
  /\ row.status # "none"
  /\ age < MaxAge
  /\ age' = age + 1
  /\ UNCHANGED <<submit, row, applied, outside, polls, poller, retries, gaveUp>>
-----------------------------------------------------------------------------
(* submitWorkflow: first to the node, then to the database                 *)

\* The node takes the submission, refuses it, or takes it and its answer is
\* lost or cannot be read.
Outcomes == {"accepted", "refused", "lost"}

SubmitToKrnl ==
  /\ submit = "idle"
  /\ submit' \in Outcomes
  /\ node' = IF submit' = "refused" THEN node ELSE [node EXCEPT ![1] = "queued"]
  /\ UNCHANGED <<row, applied, age, mined, polls, poller, retries, gaveUp>>

CreateRun ==
  /\ submit \in Outcomes
  /\ row' = NewRow(IF submit = "accepted" THEN "queued" ELSE "failed")
  /\ gaveUp' = (submit = "lost")
  /\ submit' = "done"
  /\ UNCHANGED <<applied, age, outside, polls, poller, retries>>
-----------------------------------------------------------------------------
(* pollUntilTxHash and pollUntilTxHashByIntent                             *)

PollUpdate(p, fields) == polls' = [polls EXCEPT ![p] = fields]
PollAgain(p, last)    == PollUpdate(p, [polls[p] EXCEPT !.pc = "loop", !.answer = NoAnswer,
                                                        !.last = last])
PollEnds(p, pc)       == PollUpdate(p, [IdlePoll EXCEPT !.kind = polls[p].kind, !.pc = pc,
                                                        !.ref = polls[p].ref])
Strict(p) == polls[p].kind = "strict"
PollOther == UNCHANGED <<submit, applied, age, outside, poller, retries>>

\* The ids, and for pollUntilTxHash the hashes and the status, are read once.
PollStart(p) ==
  /\ polls[p].pc = "idle"
  /\ row.status # "none"
  /\ \/ PollUpdate(p, [IdlePoll EXCEPT !.kind = "strict", !.pc = "loop", !.ref = row.ref,
                                        !.tx = row.tx, !.stored = row.exec,
                                        !.last = row.status])
     \/ PollUpdate(p, [IdlePoll EXCEPT !.kind = "intent", !.pc = "loop", !.ref = row.ref])
  /\ UNCHANGED <<row, gaveUp>> /\ PollOther

NewHash(p, answer) == answer.hash /\ polls[p].stored # polls[p].ref

\* What is to be written first for an answer.
AnsweredPc(p, answer) ==
  CASE answer.status = "failed" -> "failing"
    [] answer.status # "failed" /\ NewHash(p, answer) -> "new hash"
    [] OTHER -> "answered"

PollFetch(p) ==
  /\ polls[p].pc = "loop"
  /\ \E answer \in Answers(polls[p].ref) :
       PollUpdate(p, [polls[p] EXCEPT !.pc = AnsweredPc(p, answer), !.answer = answer])
  /\ UNCHANGED <<row, gaveUp>> /\ PollOther

\* The status request throws, and with it the whole poll.
PollThrow(p) ==
  /\ polls[p].pc = "loop"
  /\ PollEnds(p, "ended")
  /\ UNCHANGED <<row, gaveUp>> /\ PollOther

PollFail(p) ==
  /\ polls[p].pc = "failing"
  /\ row' = [row EXCEPT !.status = "failed"]
  /\ PollEnds(p, "ended")
  /\ UNCHANGED gaveUp /\ PollOther

\* A hash that is new is stored before anything else is done about it.
PollHash(p) ==
  LET q == polls[p] IN
  /\ q.pc = "new hash"
  /\ row' = [row EXCEPT !.exec = q.ref,
                        !.tx = IF Strict(p) /\ q.tx # NoHash THEN q.tx ELSE q.ref]
  /\ PollUpdate(p, [q EXCEPT !.pc = "answered", !.stored = q.ref])
  /\ UNCHANGED gaveUp /\ PollOther

\* Mutants: the status is not asked for; the receipt is not.
SettlesAnyStatus(p) ==
  polls[p].answer.hash /\ (Strict(p) => mined[polls[p].ref])
SettlesUnmined(p) == polls[p].answer.status = "succeeded" /\ polls[p].answer.hash

\* Only pollUntilTxHash looks for a receipt, and does not look into it.
Settles(p) ==
  /\ polls[p].answer.status = "succeeded"
  /\ polls[p].answer.hash
  /\ Strict(p) => mined[polls[p].ref]

PollSucceed(p) ==
  LET ref == polls[p].ref IN
  /\ polls[p].pc = "answered"
  /\ Settles(p)
  /\ row' = [row EXCEPT !.status = "succeeded", !.tx = ref,
                        !.chain = IF Strict(p) THEN ref ELSE @]
  /\ PollEnds(p, "succeeded")
  /\ UNCHANGED gaveUp /\ PollOther

\* A status other than the last one is written, everything but "queued" as
\* "running"; pollUntilTxHash leaves "succeeded" out.
PollCarryOn(p) ==
  LET q == polls[p]
      ignored == {"unknown", q.last} \cup IF Strict(p) THEN {"succeeded"} ELSE {}
  IN
  /\ q.pc = "answered"
  /\ ~Settles(p)
  /\ IF q.answer.status \in ignored
       THEN /\ PollAgain(p, q.last)
            /\ UNCHANGED row
       ELSE /\ PollAgain(p, q.answer.status)
            /\ row' = [row EXCEPT !.status = IF q.answer.status = "queued"
                                             THEN "queued" ELSE "running"]
  /\ UNCHANGED gaveUp /\ PollOther

\* Mutant: a poll that saw the hash waits on.
PollTimeoutUnlessHash(p) ==
  /\ polls[p].pc = "loop"
  /\ polls[p].stored = NoHash
  /\ PollEnds(p, "ended")
  /\ UNCHANGED <<row, gaveUp>> /\ PollOther

\* pollUntilTxHashByIntent fails the run when it gives up, pollUntilTxHash
\* leaves it as it is.
PollTimeout(p) ==
  /\ polls[p].pc = "loop"
  /\ PollEnds(p, "ended")
  /\ IF ~Strict(p)
       THEN row' = [row EXCEPT !.status = "failed"] /\ gaveUp' = TRUE
       ELSE UNCHANGED <<row, gaveUp>>
  /\ PollOther
-----------------------------------------------------------------------------
(* krnlRunPoller.ts: pollOnce, of which one runs at a time                 *)

PollerOther == UNCHANGED <<submit, age, outside, polls, retries>>

PollerRead ==
  /\ poller.pc = "idle"
  /\ row.status \in {"queued", "running"}
  /\ age < 2
  /\ poller' = [IdlePoller EXCEPT !.pc = "read", !.seen = row, !.age = age]
  /\ UNCHANGED <<row, applied, gaveUp>> /\ PollerOther

\* Mutant: a status that cannot be read is taken for a failure.
PollerMappedUnknown ==
  IF poller.answer.status = "unknown" THEN "failed" ELSE poller.answer.status

\* The status the row is to have.
PollerMapped ==
  IF poller.answer.status = "unknown" THEN poller.seen.status ELSE poller.answer.status

\* The hash that is known with an answer, which never replaces an older one.
KnownHash(answer) ==
  IF poller.seen.exec = NoHash /\ answer.hash THEN poller.seen.ref ELSE poller.seen.exec

PollerTimedOut == poller.age > 0

\* The answer, then the receipt of the hash that is known by then.
PollerFetch ==
  /\ poller.pc = "read"
  /\ ~PollerTimedOut
  /\ \E answer \in Answers(poller.seen.ref) :
       LET hash == KnownHash(answer)
       IN  poller' = [poller EXCEPT !.pc = "fetched", !.answer = answer,
                                    !.receipt = hash # NoHash /\ mined[hash]]
  /\ UNCHANGED <<row, applied, gaveUp>> /\ PollerOther

\* The status request throws: the run is skipped, its age not looked at.
PollerSkip ==
  /\ poller.pc = "read"
  /\ poller' = IdlePoller
  /\ UNCHANGED <<row, applied, gaveUp>> /\ PollerOther

\* Once the request is answered; what the answer says is not looked at.
PollerTimeout ==
  /\ poller.pc = "read"
  /\ PollerTimedOut
  /\ row' = [row EXCEPT !.status = "failed"]
  /\ gaveUp' = TRUE
  /\ poller' = IdlePoller
  /\ UNCHANGED applied /\ PollerOther

\* The row is written, with the status of the answer or of the row as it was
\* read, if the status, a hash or any of the JSON differs from what was read.
\* On success the traits are unlocked or activated in the same transaction.
PollerWrite ==
  LET seen == poller.seen
      hash == KnownHash(poller.answer)
      newExec  == hash # seen.exec
      newChain == seen.chain = NoHash /\ poller.receipt
  IN
  /\ poller.pc = "fetched"
  /\ \/ /\ row' = [row EXCEPT
             !.status = PollerMapped,
             !.exec  = IF newExec THEN hash ELSE @,
             !.chain = IF newChain THEN hash ELSE @,
             !.tx    = IF newChain \/ (newExec /\ seen.tx = NoHash) THEN hash ELSE @]
        /\ applied' = (applied \/ (PollerMapped = "succeeded" /\ RunType \in EffectTypes))
     \/ /\ PollerMapped = seen.status /\ ~newExec /\ ~newChain
        /\ UNCHANGED <<row, applied>>
  /\ poller' = IdlePoller
  /\ UNCHANGED gaveUp /\ PollerOther
-----------------------------------------------------------------------------
(* POST /brands/:brandId/workflows/:runId/retry                            *)

RetryOther == UNCHANGED <<submit, applied, age, mined, polls, poller, gaveUp>>

RetryCheck(r) ==
  /\ retries[r].pc = "idle"
  /\ RunType \in RetryableTypes
  /\ row.status = "failed"
  /\ retries' = [retries EXCEPT ![r].pc = "checked"]
  /\ UNCHANGED <<row, node>> /\ RetryOther

\* The node takes the same workflow as a new submission; its answer may be
\* lost, and the request ends with 500.
RetrySubmit(r) ==
  /\ retries[r].pc = "checked"
  /\ \/ \E s \in Submissions, pc \in {"submitted", "lost"} :
          /\ node[s] = "none" /\ s # 1
          /\ \A t \in 2..(s - 1) : node[t] # "none"
          /\ node' = [node EXCEPT ![s] = "queued"]
          /\ retries' = [retries EXCEPT ![r] = [pc |-> pc,
                                                  ref |-> IF pc = "lost" THEN 1 ELSE s]]
     \/ /\ retries' = [retries EXCEPT ![r].pc = "refused"]
        /\ UNCHANGED node
  /\ UNCHANGED row /\ RetryOther

\* The ids and txHash are replaced; krnlExecutionHash, chainTxHash and
\* createdAt stay.
RetryWrite(r) ==
  /\ retries[r].pc = "submitted"
  /\ row' = [row EXCEPT !.status = "queued", !.ref = retries[r].ref, !.tx = NoHash]
  /\ retries' = [retries EXCEPT ![r] = [pc |-> "done", ref |-> 1]]
  /\ UNCHANGED node /\ RetryOther
-----------------------------------------------------------------------------
Polling(p) ==
  \/ PollFetch(p) \/ PollThrow(p) \/ PollFail(p) \/ PollHash(p)
  \/ PollSucceed(p) \/ PollCarryOn(p) \/ PollTimeout(p)

Next ==
  \/ SubmitToKrnl \/ CreateRun
  \/ \E s \in Submissions : NodeStep(s) \/ Mine(s)
  \/ GrowOld
  \/ \E p \in Polls : PollStart(p) \/ Polling(p)
  \/ PollerRead \/ PollerFetch \/ PollerSkip \/ PollerTimeout \/ PollerWrite
  \/ \E r \in Retries : RetryCheck(r) \/ RetrySubmit(r) \/ RetryWrite(r)

Spec == Init /\ [][Next]_vars

\* A poll goes on until its time is up, and setInterval starts the poller
\* again and again.  The node answers the poller time and again.
Fairness ==
  /\ \A p \in Polls : WF_vars(Polling(p)) /\ SF_vars(PollTimeout(p))
  /\ WF_vars(PollerRead) /\ SF_vars(PollerFetch \/ PollerTimeout)
  /\ WF_vars(PollerWrite)
  /\ WF_vars(GrowOld)

FairSpec == Spec /\ Fairness
-----------------------------------------------------------------------------
RunStatuses == {"queued", "running", "succeeded", "failed"}
AnswerSet   == [status : RunStatuses \cup {"unknown"}, hash : BOOLEAN]
RowSet      == [status : RunStatuses \cup {"none"}, ref : Submissions,
                exec : Hashes, chain : Hashes, tx : Hashes]

PollSet     == [kind : Kinds,
                pc : {"idle", "loop", "failing", "new hash", "answered",
                      "succeeded", "ended"},
                ref : Submissions, tx : Hashes, stored : Hashes,
                last : RunStatuses \cup {"unknown"}, answer : AnswerSet]
PollerSet   == [pc : {"idle", "read", "fetched"}, seen : RowSet, age : 0..MaxAge,
                answer : AnswerSet, receipt : BOOLEAN]
RetrySet    == [pc : {"idle", "checked", "submitted", "lost", "refused", "done"},
                ref : Submissions]

(* Every column and local variable holds a value of its type; in particular*)
(* "unknown" is never written as the status of a run.                      *)
TypeOK ==
  /\ submit \in {"idle", "accepted", "refused", "lost", "done"}
  /\ row \in RowSet
  /\ applied \in BOOLEAN
  /\ age \in 0..MaxAge
  /\ node \in [Submissions -> RunStatuses \cup {"none", "sent"}]
  /\ mined \in [Submissions -> BOOLEAN]
  /\ polls \in [Polls -> PollSet]
  /\ poller \in PollerSet
  /\ retries \in [Retries -> RetrySet]
  /\ gaveUp \in BOOLEAN

(* Nobody takes a run for succeeded, or its traits for unlocked, before the*)
(* node reported the success of one of its submissions, whatever stale     *)
(* answers and rows are written.                                           *)
SuccessIsReported ==
  row.status = "succeeded" \/ applied => \E s \in Submissions : node[s] = "succeeded"

(* A hash that is shown is that of a transaction that was sent, and one    *)
(* that is shown as on chain, or that a request was answered with, is in a *)
(* block.                                                                  *)
HashesReal ==
  /\ {row.exec, row.tx, row.chain} \subseteq
       {NoHash} \cup {s \in Submissions : node[s] \in {"sent", "succeeded"}}
  /\ row.chain # NoHash => mined[row.chain]
  /\ \A p \in Polls : (Strict(p) /\ polls[p].pc = "succeeded") => mined[polls[p].ref]

(* A run that is recorded as failed although nobody gave it up, and no     *)
(* answer to its submission was lost, is one of which the node refused or  *)
(* failed a submission.                                                    *)
FailedIsReal ==
  (row.status = "failed" /\ ~gaveUp) =>
    \E s \in Submissions : node[s] = "failed" \/ (s = 1 /\ node[s] = "none")

(* Every poll on behalf of a request or of the worker ends.                *)
PollsEnd == \A p \in Polls : (polls[p].pc = "loop") ~>
              polls[p].pc \in {"succeeded", "ended"}

(* A run does not stay open for ever: the poller settles it or gives it    *)
(* up, and stale writes do not open it again and again.                    *)
RunSettles == <>[](row.status \in {"none", "succeeded", "failed"})

(* So waiting ends for everybody: a request for its poll, and the run for  *)
(* its outcome.                                                            *)
PollingEnds == PollsEnd /\ RunSettles
=============================================================================
