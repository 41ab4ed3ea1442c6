------------------------- MODULE WorkflowRunsProofs -------------------------
(***************************************************************************)
(* Proofs about WorkflowRuns for any number of polls and retries: whatever *)
(* stale answers and rows are written, a run is recorded as succeeded or   *)
(* failed, and a hash as that of a transaction, only as the node and the   *)
(* chain reported it.                                                      *)
(*                                                                         *)
(* What the node reports of a submission does not change back: success,    *)
(* failure and the sending of its transaction are final (lemma Final).  So *)
(* an answer, and a row that was read, stay true however late they are     *)
(* written, and that is the invariant: everything anyone holds is true.    *)
(*                                                                         *)
(* The second part is about the workflows page (RunsPage), for any number  *)
(* of runs and of requests of the page under way at once.                  *)
(***************************************************************************)
EXTENDS WorkflowRuns, RunsPage, FiniteSetTheorems, TLAPS

LEMMA FirstSubmission == 1 \in Submissions /\ Submissions \subseteq Nat \ {0}
<1>1. Cardinality(Retries) \in Nat
  BY RunsAssumption, FS_CardinalityType
<1> QED
  BY <1>1 DEF Submissions

\* Nothing below depends on how the submissions are numbered.
HashType == /\ NoHash \notin Submissions
            /\ 1 \in Submissions
            /\ Hashes = Submissions \cup {NoHash}

LEMMA HashTypeHolds == HashType
  BY FirstSubmission DEF HashType, NoHash, Hashes

(* Every step is one of the actions of Next.                               *)
LEMMA StepCases ==
  ASSUME [Next]_vars
  PROVE  \/ SubmitToKrnl \/ CreateRun \/ GrowOld
         \/ \E s \in Submissions : NodeStep(s) \/ Mine(s)
         \/ \E p \in Polls : PollStart(p) \/ PollFetch(p) \/ PollThrow(p) \/ PollFail(p)
                             \/ PollHash(p) \/ PollSucceed(p) \/ PollCarryOn(p)
                             \/ PollTimeout(p)
         \/ PollerRead \/ PollerFetch \/ PollerSkip \/ PollerTimeout \/ PollerWrite
         \/ \E r \in Retries : RetryCheck(r) \/ RetrySubmit(r) \/ RetryWrite(r)
         \/ UNCHANGED vars
  BY DEF Next, Polling

LEMMA AnswersType ==
  ASSUME TypeOK, NEW s \in Submissions
  PROVE  Answers(s) \subseteq AnswerSet
<1>1. node[s] \in RunStatuses \cup {"none", "sent"}
  BY DEF TypeOK
<1>2. CASE node[s] = "none"
  BY <1>2 DEF Answers, StatusOf, HashesIn, AnswerSet, RunStatuses
<1>3. CASE node[s] = "sent"
  BY <1>3 DEF Answers, StatusOf, HashesIn, AnswerSet, RunStatuses
<1>4. CASE node[s] \in RunStatuses
  BY <1>4 DEF Answers, StatusOf, HashesIn, AnswerSet, RunStatuses
<1> QED
  BY <1>1, <1>2, <1>3, <1>4

LEMMA AnsweredPcCases ==
  ASSUME NEW p, NEW a
  PROVE  /\ AnsweredPc(p, a) \in {"failing", "new hash", "answered"}
         /\ AnsweredPc(p, a) = "failing" => a.status = "failed"
         /\ AnsweredPc(p, a) = "new hash" => a.hash
  BY DEF AnsweredPc, NewHash

LEMMA KnownHashType ==
  ASSUME TypeOK, NEW a \in AnswerSet
  PROVE  KnownHash(a) \in Hashes
  BY HashTypeHolds DEF TypeOK, KnownHash, RowSet, PollerSet, HashType

(* Every column and local variable keeps its type.                         *)
THEOREM RunsTypeCorrect == Spec => []TypeOK
<1> USE HashTypeHolds DEF HashType
<1>1. Init => TypeOK
  <2> SUFFICES ASSUME Init PROVE TypeOK
    OBVIOUS
  <2>1. NewRow("none") \in RowSet /\ NoAnswer \in AnswerSet
    BY DEF NewRow, RowSet, NoAnswer, AnswerSet
  <2>2. IdlePoll \in PollSet
    BY <2>1 DEF IdlePoll, PollSet, Kinds
  <2>3. IdlePoller \in PollerSet /\ age \in 0..MaxAge
    BY <2>1, RunsAssumption DEF IdlePoller, PollerSet, Init
  <2>4. retries \in [Retries -> RetrySet]
    BY DEF Init, RetrySet
  <2> QED
    BY <2>1, <2>2, <2>3, <2>4 DEF Init, TypeOK
<1>2. TypeOK /\ [Next]_vars => TypeOK'
  <2> SUFFICES ASSUME TypeOK, [Next]_vars
               PROVE  TypeOK'
    OBVIOUS
  <2>1. CASE SubmitToKrnl \/ CreateRun \/ GrowOld
    <3>1. CASE SubmitToKrnl
      BY <3>1 DEF TypeOK, SubmitToKrnl, Outcomes, RunStatuses
    <3>2. CASE CreateRun
      <4>1. row' \in RowSet /\ gaveUp' \in BOOLEAN /\ submit' = "done"
        BY <3>2 DEF CreateRun, NewRow, RowSet, RunStatuses
      <4> QED
        BY <3>2, <4>1 DEF TypeOK, CreateRun, outside
    <3>3. CASE GrowOld
      <4>1. age' \in 0..MaxAge
        BY <3>3, RunsAssumption DEF TypeOK, GrowOld
      <4> QED
        BY <3>3, <4>1 DEF TypeOK, GrowOld, outside
    <3> QED
      BY <2>1, <3>1, <3>2, <3>3
  <2>2. ASSUME NEW s \in Submissions, NodeStep(s) \/ Mine(s)
        PROVE  TypeOK'
    BY <2>2 DEF TypeOK, NodeStep, Mine, RunStatuses
  <2>3. ASSUME NEW p \in Polls, PollStart(p)
        PROVE  TypeOK'
    <3>1. PICK q \in PollSet : polls' = [polls EXCEPT ![p] = q]
      BY <2>3 DEF TypeOK, PollStart, PollUpdate, IdlePoll, NoAnswer, AnswerSet, RowSet,
                  RunStatuses, PollSet, Kinds
    <3> QED
      BY <2>3, <3>1 DEF TypeOK, PollStart, PollOther, outside
  <2>4. ASSUME NEW p \in Polls, PollFetch(p)
        PROVE  TypeOK'
    <3>1. PICK a \in Answers(polls[p].ref) :
            polls' = [polls EXCEPT ![p] = [polls[p] EXCEPT !.pc = AnsweredPc(p, a), !.answer = a]]
      BY <2>4 DEF PollFetch, PollUpdate
    <3>2. /\ polls[p] \in PollSet /\ a \in AnswerSet
          /\ AnsweredPc(p, a) \in {"failing", "new hash", "answered"}
      BY <3>1, AnswersType, AnsweredPcCases DEF TypeOK, PollSet
    <3>3. PICK q \in PollSet : polls' = [polls EXCEPT ![p] = q]
      BY <3>1, <3>2 DEF PollSet
    <3> QED
      BY <2>4, <3>3 DEF TypeOK, PollFetch, PollOther, outside
  <2>5. ASSUME NEW p \in Polls, PollThrow(p) \/ PollFail(p) \/ PollTimeout(p) \/ PollSucceed(p)
        PROVE  TypeOK'
    <3>1. polls[p] \in PollSet
      BY DEF TypeOK
    <3>2. row' \in RowSet
      <4> row \in RowSet /\ polls[p].ref \in Submissions
        BY <3>1 DEF TypeOK, PollSet
      <4>1. CASE PollSucceed(p)
        BY <4>1 DEF PollSucceed, RowSet, RunStatuses
      <4>2. CASE row' = row \/ row' = [row EXCEPT !.status = "failed"]
        BY <4>2 DEF RowSet, RunStatuses
      <4> QED
        BY <2>5, <4>1, <4>2 DEF PollThrow, PollFail, PollTimeout
    <3>3. gaveUp' \in BOOLEAN /\ PollOther
      BY <2>5 DEF TypeOK, PollThrow, PollFail, PollTimeout, PollSucceed
    <3>4. \E pc \in {"ended", "succeeded"} : PollEnds(p, pc)
      BY <2>5 DEF PollThrow, PollFail, PollTimeout, PollSucceed
    <3>5. PICK q \in PollSet : polls' = [polls EXCEPT ![p] = q]
      <4>1. PICK pc \in {"ended", "succeeded"} : PollEnds(p, pc)
        BY <3>4
      <4> DEFINE q == [IdlePoll EXCEPT !.kind = polls[p].kind, !.pc = pc, !.ref = polls[p].ref]
      <4>2. IdlePoll \in PollSet
        BY DEF IdlePoll, NoAnswer, AnswerSet, PollSet, Kinds
      <4>3. polls[p].kind \in Kinds /\ polls[p].ref \in Submissions
        BY <3>1 DEF PollSet
      <4>4. q \in PollSet
        BY <4>2, <4>3 DEF PollSet
      <4> QED
        BY <4>1, <4>4 DEF PollEnds, PollUpdate
    <3> QED
      BY <3>2, <3>5, <3>3 DEF TypeOK, PollOther, outside
  <2>6. ASSUME NEW p \in Polls, PollHash(p) \/ PollCarryOn(p)
        PROVE  TypeOK'
    <3>1. polls[p] \in PollSet
      BY DEF TypeOK
    <3>2. row' \in RowSet
      <4> row \in RowSet /\ polls[p].ref \in Submissions /\ polls[p].tx \in Hashes
        BY <3>1 DEF TypeOK, PollSet
      <4>1. CASE PollHash(p)
        BY <4>1 DEF PollHash, RowSet
      <4>2. CASE PollCarryOn(p)
        BY <4>2 DEF PollCarryOn, RowSet, RunStatuses
      <4> QED
        BY <2>6, <4>1, <4>2
    <3>4. gaveUp' \in BOOLEAN /\ PollOther
      BY <2>6 DEF TypeOK, PollHash, PollCarryOn
    <3>3. \E q \in PollSet : polls' = [polls EXCEPT ![p] = q]
      <4>1. CASE PollHash(p)
        BY <3>1, <4>1 DEF PollHash, PollUpdate, PollSet
      <4>2. CASE PollCarryOn(p)
        <5>1. \E last \in RunStatuses \cup {"unknown"} : PollAgain(p, last)
          BY <3>1, <4>2 DEF PollCarryOn, AnswerSet, PollSet
        <5> QED
          BY <3>1, <5>1 DEF PollAgain, PollUpdate, NoAnswer, AnswerSet, PollSet
      <4> QED
        BY <2>6, <4>1, <4>2
    <3> QED
      BY <3>2, <3>3, <3>4 DEF TypeOK, PollOther, outside
  <2>7. CASE PollerRead \/ PollerFetch \/ PollerSkip
    <3>1. CASE PollerRead \/ PollerSkip
      <4>1. IdlePoller \in PollerSet
        BY RunsAssumption DEF IdlePoller, NewRow, NoAnswer, AnswerSet, RowSet, PollerSet
      <4>2. [IdlePoller EXCEPT !.pc = "read", !.seen = row, !.age = age] \in PollerSet
        BY <4>1 DEF TypeOK, PollerSet
      <4>3. poller' \in PollerSet
        BY <3>1, <4>1, <4>2 DEF PollerRead, PollerSkip
      <4> QED
        BY <3>1, <4>3 DEF TypeOK, PollerRead, PollerSkip, PollerOther, outside
    <3>2. CASE PollerFetch
      <4>1. PICK a \in Answers(poller.seen.ref), receipt \in BOOLEAN :
              poller' = [poller EXCEPT !.pc = "fetched", !.answer = a, !.receipt = receipt]
        BY <3>2 DEF PollerFetch
      <4>2. a \in AnswerSet
        BY <4>1, AnswersType DEF TypeOK, RowSet, PollerSet
      <4>3. poller' \in PollerSet
        BY <4>1, <4>2 DEF TypeOK, PollerSet
      <4> QED
        BY <3>2, <4>3 DEF TypeOK, PollerFetch, PollerOther, outside
    <3> QED
      BY <2>7, <3>1, <3>2
  <2>8. CASE PollerTimeout \/ PollerWrite
    <3>1. KnownHash(poller.answer) \in Hashes
      BY KnownHashType DEF TypeOK, PollerSet
    <3>2. PollerMapped \in RunStatuses \cup {"none"}
      BY DEF PollerMapped, TypeOK, RowSet, AnswerSet, PollerSet
    <3>3. row' \in RowSet
      <4>1. row \in RowSet
        BY DEF TypeOK
      <4>2. \/ row' = row \/ row' = [row EXCEPT !.status = "failed"]
            \/ \E exec, chain, tx \in Hashes :
                 row' = [row EXCEPT !.status = PollerMapped, !.exec = exec, !.chain = chain,
                                    !.tx = tx]
        <5>1. row.exec \in Hashes /\ row.chain \in Hashes /\ row.tx \in Hashes
          BY <4>1 DEF RowSet
        <5>2. CASE PollerTimeout
          BY <5>2 DEF PollerTimeout
        <5>3. CASE PollerWrite
          <6> DEFINE hash == KnownHash(poller.answer)
                     newExec == hash # poller.seen.exec
                     newChain == poller.seen.chain = NoHash /\ poller.receipt
                     exec == IF newExec THEN hash ELSE row.exec
                     chain == IF newChain THEN hash ELSE row.chain
                     tx == IF newChain \/ (newExec /\ poller.seen.tx = NoHash)
                             THEN hash ELSE row.tx
          <6>1. exec \in Hashes /\ chain \in Hashes /\ tx \in Hashes
            BY <3>1, <5>1
          <6>2. \/ row' = row
                \/ row' = [row EXCEPT !.status = PollerMapped, !.exec = exec,
                                      !.chain = chain, !.tx = tx]
            BY <5>3, Zenon DEF PollerWrite
          <6> HIDE DEF exec, chain, tx
          <6> QED
            BY <6>1, <6>2, Zenon
        <5> QED
          BY <2>8, <5>2, <5>3
      <4> QED
        BY <3>2, <4>1, <4>2 DEF RowSet, RunStatuses
    <3>4. poller' = IdlePoller /\ applied' \in BOOLEAN /\ gaveUp' \in BOOLEAN /\ PollerOther
      BY <2>8 DEF TypeOK, PollerTimeout, PollerWrite
    <3>5. poller' \in PollerSet
      BY <3>4, RunsAssumption
         DEF IdlePoller, NewRow, NoAnswer, AnswerSet, RowSet, PollerSet
    <3> QED
      BY <3>3, <3>4, <3>5 DEF TypeOK, PollerOther, outside
  <2>9. ASSUME NEW r \in Retries, RetryCheck(r) \/ RetrySubmit(r) \/ RetryWrite(r)
        PROVE  TypeOK'
    <3>1. retries[r] \in RetrySet
      BY DEF TypeOK
    <3>2. \E q \in RetrySet : retries' = [retries EXCEPT ![r] = q]
      BY <2>9, <3>1 DEF RetryCheck, RetrySubmit, RetryWrite, RetrySet
    <3>3. row' \in RowSet
      BY <2>9, <3>1 DEF TypeOK, RetryCheck, RetrySubmit, RetryWrite, RetrySet, RowSet, RunStatuses
    <3>4. node' \in [Submissions -> RunStatuses \cup {"none", "sent"}]
      BY <2>9 DEF TypeOK, RetryCheck, RetrySubmit, RetryWrite, RunStatuses
    <3>5. RetryOther
      BY <2>9 DEF RetryCheck, RetrySubmit, RetryWrite
    <3> QED
      BY <3>2, <3>3, <3>4, <3>5 DEF TypeOK, RetryOther
  <2>10. CASE UNCHANGED vars
    BY <2>10 DEF TypeOK, vars, outside
  <2> QED
    BY StepCases, <2>1, <2>2, <2>3, <2>4, <2>5, <2>6, <2>7, <2>8, <2>9, <2>10
<1> QED
  BY <1>1, <1>2, PTL DEF Spec
-----------------------------------------------------------------------------
(* What is final about a submission: that its transaction was sent, that it*)
(* failed or was refused, that the node knows it, that it is in a block.   *)
Sent(s)    == node[s] \in {"sent", "succeeded"}
Refused(s) == node[s] = "failed" \/ (s = 1 /\ node[1] = "none" /\ submit = "done")
Known(s)   == s = 1 \/ node[s] # "none"
InBlock(s) == mined[s]

(* Before the row is written nobody is at work, and the node has nothing of*)
(* a submission that it was not asked for or that it refused.              *)
Begun ==
  /\ row.status = "none" <=> submit # "done"
  /\ submit # "done" => /\ \A p \in Polls : polls[p].pc = "idle"
                        /\ poller.pc = "idle"
                        /\ \A r \in Retries : retries[r].pc = "idle"
  /\ submit \in {"idle", "refused"} => node[1] = "none"

LEMMA Final ==
  ASSUME TypeOK, Begun, [Next]_vars, NEW s \in Submissions
  PROVE  /\ Sent(s) => Sent(s)'
         /\ Refused(s) => Refused(s)'
         /\ Known(s) => Known(s)'
         /\ InBlock(s) => InBlock(s)'
         /\ node[s] = "succeeded" => node'[s] = "succeeded"
<1> USE DEF Sent, Refused, Known, InBlock
<1>1. CASE UNCHANGED outside
  <2>1. submit = "done" => submit' = "done"
    BY <1>1, StepCases
       DEF SubmitToKrnl, Outcomes, CreateRun, GrowOld, NodeStep, Mine, PollStart, PollFetch, PollThrow,
           PollFail, PollHash, PollSucceed, PollCarryOn, PollTimeout, PollOther, PollerRead,
           PollerFetch, PollerSkip, PollerTimeout, PollerWrite, PollerOther, RetryCheck,
           RetrySubmit, RetryWrite, RetryOther, vars
  <2> QED
    BY <1>1, <2>1 DEF outside
<1>2. CASE SubmitToKrnl
  BY <1>2, HashTypeHolds DEF SubmitToKrnl, Outcomes, TypeOK, Begun, HashType
<1>3. ASSUME NEW t \in Submissions, NodeStep(t) \/ Mine(t)
      PROVE  /\ Sent(s) => Sent(s)'
             /\ Refused(s) => Refused(s)'
             /\ Known(s) => Known(s)'
             /\ InBlock(s) => InBlock(s)'
             /\ node[s] = "succeeded" => node'[s] = "succeeded"
  BY <1>3 DEF NodeStep, Mine, TypeOK
<1>4. ASSUME NEW r \in Retries, RetrySubmit(r)
      PROVE  /\ Sent(s) => Sent(s)'
             /\ Refused(s) => Refused(s)'
             /\ Known(s) => Known(s)'
             /\ InBlock(s) => InBlock(s)'
             /\ node[s] = "succeeded" => node'[s] = "succeeded"
  BY <1>4 DEF RetrySubmit, RetryOther, TypeOK
<1>5. \/ UNCHANGED outside
      \/ SubmitToKrnl
      \/ \E t \in Submissions : NodeStep(t) \/ Mine(t)
      \/ \E r \in Retries : RetrySubmit(r)
  BY StepCases
     DEF CreateRun, GrowOld, PollStart, PollFetch, PollThrow, PollFail, PollHash, PollSucceed,
         PollCarryOn, PollTimeout, PollOther, PollerRead, PollerFetch, PollerSkip, PollerTimeout,
         PollerWrite, PollerOther, RetryCheck, RetryWrite, RetryOther, outside, vars
<1> QED
  BY <1>1, <1>2, <1>3, <1>4, <1>5
-----------------------------------------------------------------------------
(* An answer that came from the node is true of its submission, and stays  *)
(* true.                                                                   *)
Honest(s, a) == /\ a.status = "succeeded" => node[s] = "succeeded"
                /\ a.status = "failed" => Refused(s)
                /\ a.hash => Sent(s)

HashSent(h) == h = NoHash \/ Sent(h)

RowHonest(r) == /\ Known(r.ref)
                /\ HashSent(r.exec) /\ HashSent(r.tx) /\ HashSent(r.chain)
                /\ r.chain # NoHash => InBlock(r.chain)

PollHonest(p) == /\ Known(polls[p].ref)
                 /\ Honest(polls[p].ref, polls[p].answer)
                 /\ HashSent(polls[p].tx)
                 /\ polls[p].pc = "failing" => polls[p].answer.status = "failed"
                 /\ polls[p].pc = "new hash" => polls[p].answer.hash
                 /\ (Strict(p) /\ polls[p].pc = "succeeded") => InBlock(polls[p].ref)

PollerHonest == /\ RowHonest(poller.seen)
                /\ Honest(poller.seen.ref, poller.answer)
                /\ poller.pc # "idle" => poller.seen.status \in {"queued", "running"}
                /\ poller.receipt => KnownHash(poller.answer) # NoHash
                                       /\ InBlock(KnownHash(poller.answer))

RetryHonest(r) == Known(retries[r].ref)

StatusHonest ==
  /\ row.status = "succeeded" \/ applied => \E s \in Submissions : node[s] = "succeeded"
  /\ (row.status = "failed" /\ ~gaveUp) => \E s \in Submissions : Refused(s)

\* The inductive invariant: everything anyone holds is true.
AllHonest == /\ Begun
             /\ RowHonest(row)
             /\ \A p \in Polls : PollHonest(p)
             /\ PollerHonest
             /\ \A r \in Retries : RetryHonest(r)
             /\ StatusHonest

LEMMA AnswersHonest ==
  ASSUME TypeOK, submit = "done", NEW s \in Submissions, Known(s), NEW a \in Answers(s)
  PROVE  a \in AnswerSet /\ Honest(s, a)
<1>1. node[s] \in {"none", "sent", "queued", "running", "succeeded", "failed"}
  BY DEF TypeOK, RunStatuses
<1>2. a.status \in {"failed", "succeeded"} =>
        (a.status = node[s] \/ (a.status = "failed" /\ node[s] = "none"))
  BY <1>1 DEF Answers, StatusOf, HashesIn
<1>3. a.hash => node[s] \in {"sent", "succeeded"}
  BY DEF Answers, StatusOf, HashesIn
<1>4. a \in AnswerSet
  BY AnswersType
<1> QED
  BY <1>1, <1>2, <1>3, <1>4 DEF Honest, Refused, Known, Sent

(* What is true of a row and of an answer stays true.                      *)
LEMMA RowHonestStays ==
  ASSUME TypeOK, Begun, [Next]_vars, NEW r \in RowSet, RowHonest(r)
  PROVE  RowHonest(r)'
<1>1. /\ r.ref \in Submissions
      /\ {r.exec, r.tx, r.chain} \subseteq Submissions \cup {NoHash}
  BY HashTypeHolds DEF RowSet, HashType
<1> QED
  BY <1>1, Final DEF RowHonest, HashSent

LEMMA AnswerHonestStays ==
  ASSUME TypeOK, Begun, [Next]_vars, NEW s \in Submissions, NEW a, Honest(s, a)
  PROVE  Honest(s, a)'
  BY Final DEF Honest

LEMMA PollHonestStays ==
  ASSUME TypeOK, Begun, [Next]_vars, NEW p \in Polls, PollHonest(p), polls'[p] = polls[p]
  PROVE  PollHonest(p)'
<1>1. polls[p].ref \in Submissions /\ polls[p].tx \in Submissions \cup {NoHash}
  BY HashTypeHolds DEF TypeOK, PollSet, HashType
<1>2. Honest(polls[p].ref, polls[p].answer)'
  BY <1>1, AnswerHonestStays DEF PollHonest
<1>3. Known(polls[p].ref)' /\ HashSent(polls[p].tx)'
      /\ (InBlock(polls[p].ref) => InBlock(polls[p].ref)')
  BY <1>1, Final DEF PollHonest, HashSent
<1> QED
  BY <1>2, <1>3 DEF PollHonest, Strict

LEMMA PollerHonestStays ==
  ASSUME TypeOK, Begun, [Next]_vars, PollerHonest, poller' = poller
  PROVE  PollerHonest'
<1>1. poller.seen \in RowSet /\ poller.seen.ref \in Submissions /\ poller.answer \in AnswerSet
  BY DEF TypeOK, PollerSet, RowSet
<1>2. KnownHash(poller.answer) \in Submissions \cup {NoHash}
  BY <1>1, KnownHashType, HashTypeHolds DEF HashType
<1>3. RowHonest(poller.seen)' /\ Honest(poller.seen.ref, poller.answer)'
  BY <1>1, RowHonestStays, AnswerHonestStays DEF PollerHonest
<1>4. KnownHash(poller.answer)' = KnownHash(poller.answer)
  BY DEF KnownHash
<1>5. \A h \in Submissions : InBlock(h) => InBlock(h)'
  BY Final
<1>6. poller.receipt => KnownHash(poller.answer) # NoHash /\ InBlock(KnownHash(poller.answer))'
  BY <1>2, <1>4, <1>5 DEF PollerHonest, InBlock
<1> QED
  BY <1>3, <1>4, <1>6 DEF PollerHonest

LEMMA IdleHonest ==
  ASSUME TypeOK
  PROVE  /\ RowHonest(NewRow("none"))
         /\ \A s \in Submissions : Honest(s, NoAnswer)
         /\ poller = IdlePoller => PollerHonest
<1>1. RowHonest(NewRow("none"))
  BY DEF RowHonest, NewRow, HashSent, Known
<1>2. \A s \in Submissions : Honest(s, NoAnswer)
  BY DEF Honest, NoAnswer
<1>3. ASSUME poller = IdlePoller
      PROVE  PollerHonest
  <2>1. /\ poller.seen = NewRow("none") /\ poller.answer = NoAnswer
        /\ poller.pc = "idle" /\ poller.receipt = FALSE /\ poller.seen.ref = 1
    BY <1>3 DEF IdlePoller, NewRow
  <2>2. Honest(poller.seen.ref, poller.answer)
    BY <1>2, <2>1, HashTypeHolds DEF HashType
  <2>3. RowHonest(poller.seen)
    BY <1>1, <2>1
  <2> QED
    BY <2>1, <2>2, <2>3 DEF PollerHonest
<1> QED
  BY <1>1, <1>2, <1>3
-----------------------------------------------------------------------------
(* The steps, grouped by what they write.  Each keeps Begun, and each part *)
(* of AllHonest it writes is true when it is written.                      *)
LEMMA BegunStays ==
  ASSUME TypeOK, Begun, [Next]_vars, PollerHonest
  PROVE  Begun'
<1> USE HashTypeHolds DEF HashType
<1>1. CASE SubmitToKrnl
  BY <1>1 DEF SubmitToKrnl, Outcomes, Begun, TypeOK
<1>2. CASE CreateRun \/ GrowOld
  BY <1>2 DEF CreateRun, GrowOld, Begun, NewRow, outside
<1>3. ASSUME NEW s \in Submissions, NodeStep(s) \/ Mine(s)
      PROVE  Begun'
  BY <1>3 DEF NodeStep, Mine, Begun, TypeOK
<1>4. ASSUME NEW p \in Polls,
             \/ PollStart(p) \/ PollFetch(p) \/ PollThrow(p) \/ PollFail(p)
             \/ PollHash(p) \/ PollSucceed(p) \/ PollCarryOn(p) \/ PollTimeout(p)
      PROVE  Begun'
  <2>1. submit = "done" /\ row.status # "none"
    BY <1>4 DEF Begun, PollStart, PollFetch, PollThrow, PollFail, PollHash, PollSucceed,
                PollCarryOn, PollTimeout
  <2>2. row'.status # "none"
    BY <1>4, <2>1 DEF TypeOK, RowSet, PollStart, PollFetch, PollThrow, PollFail, PollHash,
                      PollSucceed, PollCarryOn, PollTimeout
  <2>3. submit' = submit
    BY <1>4 DEF PollOther, PollStart, PollFetch, PollThrow, PollFail, PollHash, PollSucceed,
                PollCarryOn, PollTimeout
  <2> QED
    BY <2>1, <2>2, <2>3 DEF Begun
<1>5. CASE PollerRead \/ PollerFetch \/ PollerSkip \/ PollerTimeout \/ PollerWrite
  <2>1. submit = "done" /\ row.status # "none"
    BY <1>5 DEF Begun, PollerRead, PollerFetch, PollerSkip, PollerTimeout, PollerWrite
  <2>2. PollerMapped # "none" \/ poller.pc = "idle"
    BY DEF PollerMapped, PollerHonest, TypeOK, PollerSet, AnswerSet, RunStatuses
  <2>3. row'.status # "none"
    <3>1. CASE row' = row
      BY <2>1, <3>1
    <3>2. CASE PollerTimeout
      BY <3>2 DEF TypeOK, RowSet, PollerTimeout
    <3>3. CASE PollerWrite /\ row' # row
      <4>1. PollerMapped # "none"
        BY <2>2, <3>3 DEF PollerWrite
      <4>2. row'.status = PollerMapped
        BY <3>3 DEF TypeOK, RowSet, PollerWrite
      <4> QED
        BY <4>1, <4>2
    <3> QED
      BY <1>5, <3>1, <3>2, <3>3 DEF PollerRead, PollerFetch, PollerSkip
  <2>4. submit' = submit
    BY <1>5 DEF PollerOther, PollerRead, PollerFetch, PollerSkip, PollerTimeout, PollerWrite
  <2> QED
    BY <2>1, <2>3, <2>4 DEF Begun
<1>6. ASSUME NEW r \in Retries, RetryCheck(r) \/ RetrySubmit(r) \/ RetryWrite(r)
      PROVE  Begun'
  <2>1. submit = "done" /\ row.status # "none" /\ submit' = submit
    BY <1>6 DEF Begun, RetryOther, RetryCheck, RetrySubmit, RetryWrite
  <2>2. row'.status # "none"
    BY <1>6, <2>1 DEF TypeOK, RowSet, RetryCheck, RetrySubmit, RetryWrite
  <2> QED
    BY <2>1, <2>2 DEF Begun
<1>7. CASE UNCHANGED vars
  BY <1>7 DEF vars, outside, Begun
<1> QED
  BY StepCases, <1>1, <1>2, <1>3, <1>4, <1>5, <1>6, <1>7

(* What is written in the row is true: an answer of a poll, an answer of   *)
(* the poller with the row it read, or the submission of a retry.          *)
LEMMA RowStep ==
  ASSUME TypeOK, AllHonest, [Next]_vars
  PROVE  RowHonest(row)'
<1> USE HashTypeHolds DEF HashType
<1>1. /\ row \in RowSet /\ Begun /\ RowHonest(row)
      /\ {row.exec, row.tx, row.chain} \subseteq Hashes
  BY DEF TypeOK, AllHonest, RowSet
<1>2. ASSUME NEW ref \in Submissions, NEW exec \in Hashes, NEW tx \in Hashes, NEW chain \in Hashes,
             Known(ref), HashSent(exec), HashSent(tx), HashSent(chain),
             chain # NoHash => InBlock(chain),
             row'.ref = ref, row'.exec = exec, row'.tx = tx, row'.chain = chain
      PROVE  RowHonest(row)'
  BY <1>1, <1>2, Final DEF RowHonest, HashSent
<1>3. CASE /\ row'.ref = row.ref /\ row'.exec = row.exec
           /\ row'.tx = row.tx /\ row'.chain = row.chain
  BY <1>1, <1>2, <1>3 DEF RowHonest, RowSet
<1>4. CASE CreateRun
  BY <1>4 DEF CreateRun, NewRow, RowHonest, HashSent, Known
<1>5. ASSUME NEW p \in Polls, PollFail(p) \/ PollCarryOn(p) \/ PollTimeout(p)
      PROVE  RowHonest(row)'
  <2>1. row'.ref = row.ref /\ row'.exec = row.exec /\ row'.tx = row.tx /\ row'.chain = row.chain
    BY <1>1, <1>5 DEF PollFail, PollCarryOn, PollTimeout, RowSet
  <2> QED
    BY <1>3, <2>1
<1>6. ASSUME NEW p \in Polls, PollHash(p)
      PROVE  RowHonest(row)'
  <2>1. PollHonest(p) /\ polls[p].ref \in Submissions /\ polls[p].tx \in Hashes
    BY DEF AllHonest, TypeOK, PollSet
  <2>2. HashSent(polls[p].ref) /\ HashSent(polls[p].tx)
    BY <1>6, <2>1 DEF PollHash, PollHonest, Honest, HashSent
  <2>3. PICK tx \in {polls[p].tx, polls[p].ref} :
          /\ row'.ref = row.ref /\ row'.exec = polls[p].ref
          /\ row'.tx = tx /\ row'.chain = row.chain
    BY <1>1, <1>6 DEF PollHash, RowSet
  <2> QED
    BY <1>1, <1>2, <2>1, <2>2, <2>3 DEF RowHonest, RowSet
<1>7. ASSUME NEW p \in Polls, PollSucceed(p)
      PROVE  RowHonest(row)'
  <2>1. PollHonest(p) /\ polls[p].ref \in Submissions
    BY DEF AllHonest, TypeOK, PollSet
  <2>2. HashSent(polls[p].ref) /\ (Strict(p) => InBlock(polls[p].ref))
    BY <1>7, <2>1 DEF PollSucceed, Settles, PollHonest, Honest, InBlock, HashSent
  <2>3. PICK chain \in {row.chain, polls[p].ref} :
          /\ row'.ref = row.ref /\ row'.exec = row.exec
          /\ row'.tx = polls[p].ref /\ row'.chain = chain
          /\ chain = row.chain \/ Strict(p)
    BY <1>1, <1>7 DEF PollSucceed, RowSet
  <2> QED
    BY <1>1, <1>2, <2>1, <2>2, <2>3 DEF RowHonest, RowSet
<1>8. CASE PollerTimeout
  <2>1. row'.ref = row.ref /\ row'.exec = row.exec /\ row'.tx = row.tx /\ row'.chain = row.chain
    BY <1>1, <1>8 DEF PollerTimeout, RowSet
  <2> QED
    BY <1>3, <2>1
<1>9. CASE PollerWrite
  <2>1. PollerHonest /\ poller \in PollerSet /\ poller.seen \in RowSet
    BY DEF AllHonest, TypeOK, PollerSet
  <2>2. KnownHash(poller.answer) \in Hashes
    BY <2>1, KnownHashType DEF PollerSet
  <2>3. HashSent(KnownHash(poller.answer))
    BY <2>1 DEF PollerHonest, RowHonest, KnownHash, HashSent, Honest
  <2>4. PICK exec \in {row.exec, KnownHash(poller.answer)},
             chain \in {row.chain, KnownHash(poller.answer)},
             tx \in {row.tx, KnownHash(poller.answer)} :
          /\ row'.ref = row.ref /\ row'.exec = exec /\ row'.chain = chain /\ row'.tx = tx
          /\ chain # row.chain => poller.receipt
    BY <1>1, <1>9 DEF PollerWrite, RowSet
  <2>5. /\ HashSent(exec) /\ HashSent(chain) /\ HashSent(tx)
        /\ chain # NoHash => InBlock(chain)
    BY <1>1, <2>1, <2>3, <2>4 DEF RowHonest, PollerHonest
  <2> QED
    BY <1>1, <1>2, <2>2, <2>4, <2>5 DEF RowHonest, RowSet
<1>10. ASSUME NEW t \in Retries, RetryWrite(t)
       PROVE  RowHonest(row)'
  <2>1. retries[t].ref \in Submissions /\ Known(retries[t].ref)
    BY DEF TypeOK, RetrySet, AllHonest, RetryHonest
  <2>2. /\ row'.ref = retries[t].ref /\ row'.exec = row.exec
        /\ row'.tx = NoHash /\ row'.chain = row.chain
    BY <1>1, <1>10 DEF RetryWrite, RowSet
  <2> QED
    BY <1>1, <1>2, <2>1, <2>2 DEF RowHonest, HashSent
<1>11. \/ row' = row \/ CreateRun \/ PollerTimeout \/ PollerWrite
       \/ \E p \in Polls : PollFail(p) \/ PollHash(p) \/ PollSucceed(p) \/ PollCarryOn(p)
                           \/ PollTimeout(p)
       \/ \E t \in Retries : RetryWrite(t)
  BY StepCases
     DEF SubmitToKrnl, Outcomes, GrowOld, NodeStep, Mine, PollStart, PollFetch, PollThrow, PollerRead,
         PollerFetch, PollerSkip, RetryCheck, RetrySubmit, vars
<1> QED
  BY <1>3, <1>4, <1>5, <1>6, <1>7, <1>8, <1>9, <1>10, <1>11
(* What a poll holds is true: what it read, and the answer it got.         *)
LEMMA PollStep ==
  ASSUME TypeOK, AllHonest, [Next]_vars, NEW p \in Polls
  PROVE  PollHonest(p)'
<1> USE HashTypeHolds DEF HashType
<1>1. Begun /\ RowHonest(row) /\ PollHonest(p) /\ polls[p] \in PollSet /\ row \in RowSet
  BY DEF AllHonest, TypeOK
<1>2. CASE polls'[p] = polls[p]
  BY <1>1, <1>2, PollHonestStays
\* A poll step leaves what the node and the chain have done as it is.
<1>3. ASSUME NEW q \in PollSet, polls' = [polls EXCEPT ![p] = q], UNCHANGED <<submit, outside>>,
             Known(q.ref), Honest(q.ref, q.answer), HashSent(q.tx),
             q.pc = "failing" => q.answer.status = "failed",
             q.pc = "new hash" => q.answer.hash,
             (q.kind = "strict" /\ q.pc = "succeeded") => InBlock(q.ref)
      PROVE  PollHonest(p)'
  <2>1. polls'[p] = q
    BY <1>3 DEF TypeOK
  <2>2. node' = node /\ mined' = mined /\ submit' = submit
    BY <1>3 DEF outside
  <2>3. Known(polls[p].ref)' /\ HashSent(polls[p].tx)'
    BY <1>3, <2>1, <2>2 DEF Known, HashSent, Sent
  <2>4. Honest(polls[p].ref, polls[p].answer)'
    BY <1>3, <2>1, <2>2 DEF Honest, Sent, Refused
  <2>5. (Strict(p) /\ polls[p].pc = "succeeded" => InBlock(polls[p].ref))'
    BY <1>3, <2>1, <2>2 DEF Strict, InBlock
  <2> QED
    BY <1>3, <2>1, <2>3, <2>4, <2>5 DEF PollHonest
<1>4. CASE PollStart(p)
  <2>1. PICK q \in PollSet :
          /\ polls' = [polls EXCEPT ![p] = q]
          /\ q.ref = row.ref /\ q.tx \in {row.tx, NoHash} /\ q.pc = "loop" /\ q.answer = NoAnswer
    <3> DEFINE strict == [IdlePoll EXCEPT !.kind = "strict", !.pc = "loop", !.ref = row.ref,
                                          !.tx = row.tx, !.stored = row.exec,
                                          !.last = row.status]
               intent == [IdlePoll EXCEPT !.kind = "intent", !.pc = "loop", !.ref = row.ref]
    <3>1. IdlePoll \in PollSet /\ row.status # "none"
      BY <1>4 DEF PollStart, IdlePoll, NoAnswer, AnswerSet, PollSet, Kinds
    <3>2. /\ strict \in PollSet /\ strict.ref = row.ref /\ strict.tx = row.tx
          /\ strict.pc = "loop" /\ strict.answer = NoAnswer
      BY <1>1, <3>1 DEF RowSet, PollSet, Kinds, IdlePoll
    <3>3. /\ intent \in PollSet /\ intent.ref = row.ref /\ intent.tx = NoHash
          /\ intent.pc = "loop" /\ intent.answer = NoAnswer
      BY <1>1, <3>1 DEF RowSet, PollSet, Kinds, IdlePoll
    <3>4. polls' = [polls EXCEPT ![p] = strict] \/ polls' = [polls EXCEPT ![p] = intent]
      BY <1>4 DEF PollStart, PollUpdate
    <3> HIDE DEF strict, intent
    <3> QED
      BY <3>2, <3>3, <3>4
  <2>2. Known(q.ref) /\ HashSent(q.tx) /\ Honest(q.ref, q.answer)
    BY <1>1, <2>1, IdleHonest DEF RowHonest, HashSent, RowSet
  <2> QED
    BY <1>3, <1>4, <2>1, <2>2 DEF PollStart, PollOther
<1>5. CASE PollFetch(p)
  <2>1. submit = "done"
    BY <1>1, <1>5 DEF PollFetch, Begun
  <2>2. PICK a \in Answers(polls[p].ref) :
          polls' = [polls EXCEPT ![p] = [polls[p] EXCEPT !.pc = AnsweredPc(p, a), !.answer = a]]
    BY <1>5 DEF PollFetch, PollUpdate
  <2>3. a \in AnswerSet /\ Honest(polls[p].ref, a)
    BY <1>1, <2>1, AnswersHonest DEF PollHonest, PollSet
  <2>4. PICK pc \in {"failing", "new hash", "answered"} : pc = AnsweredPc(p, a)
    BY AnsweredPcCases
  <2> DEFINE q == [polls[p] EXCEPT !.pc = pc, !.answer = a]
  <2>5. /\ q \in PollSet
        /\ q.pc = pc /\ q.answer = a /\ q.ref = polls[p].ref /\ q.tx = polls[p].tx
    BY <1>1, <2>3 DEF PollSet
  <2> HIDE DEF q
  <2>6. polls' = [polls EXCEPT ![p] = q]
    BY <2>2, <2>4 DEF q
  <2>7. (pc = "failing" => a.status = "failed") /\ (pc = "new hash" => a.hash)
    BY <2>4, AnsweredPcCases
  <2> QED
    BY <1>1, <1>3, <1>5, <2>3, <2>4, <2>5, <2>6, <2>7 DEF PollFetch, PollOther, PollHonest
<1>6. ASSUME NEW pc \in {"ended", "succeeded"}, PollEnds(p, pc), PollOther,
             (Strict(p) /\ pc = "succeeded") => InBlock(polls[p].ref)
      PROVE  PollHonest(p)'
  <2> DEFINE q == [IdlePoll EXCEPT !.kind = polls[p].kind, !.pc = pc, !.ref = polls[p].ref]
  <2>1. /\ q \in PollSet
        /\ q.kind = polls[p].kind /\ q.pc = pc /\ q.ref = polls[p].ref
        /\ q.tx = NoHash /\ q.answer = NoAnswer
    BY <1>1 DEF PollSet, IdlePoll, NoAnswer, AnswerSet
  <2>2. Honest(q.ref, q.answer) /\ Known(q.ref) /\ HashSent(q.tx)
    BY <1>1, <2>1, IdleHonest DEF PollSet, PollHonest, HashSent
  <2> HIDE DEF q
  <2>3. polls' = [polls EXCEPT ![p] = q]
    BY <1>6 DEF PollEnds, PollUpdate, q
  <2> QED
    BY <1>3, <1>6, <2>1, <2>2, <2>3 DEF PollOther, Strict
<1>7. CASE PollThrow(p) \/ PollFail(p) \/ PollTimeout(p)
  BY <1>6, <1>7 DEF PollThrow, PollFail, PollTimeout
<1>8. CASE PollSucceed(p)
  BY <1>6, <1>8 DEF PollSucceed, Settles, InBlock
<1>9. CASE PollHash(p)
  <2> DEFINE q == [polls[p] EXCEPT !.pc = "answered", !.stored = polls[p].ref]
  <2>1. /\ q \in PollSet
        /\ q.pc = "answered" /\ q.answer = polls[p].answer
        /\ q.ref = polls[p].ref /\ q.tx = polls[p].tx
    BY <1>1 DEF PollSet
  <2> HIDE DEF q
  <2>2. polls' = [polls EXCEPT ![p] = q]
    BY <1>9 DEF PollHash, PollUpdate, q
  <2> QED
    BY <1>1, <1>3, <1>9, <2>1, <2>2 DEF PollHash, PollOther, PollHonest
<1>10. CASE PollCarryOn(p)
  <2>1. PICK last \in RunStatuses \cup {"unknown"} : PollAgain(p, last)
    BY <1>1, <1>10 DEF PollCarryOn, AnswerSet, PollSet
  <2> DEFINE q == [polls[p] EXCEPT !.pc = "loop", !.answer = NoAnswer, !.last = last]
  <2>2. /\ q \in PollSet
        /\ q.pc = "loop" /\ q.answer = NoAnswer /\ q.ref = polls[p].ref /\ q.tx = polls[p].tx
    BY <1>1 DEF PollSet, NoAnswer, AnswerSet
  <2> HIDE DEF q
  <2>3. polls' = [polls EXCEPT ![p] = q]
    BY <2>1 DEF PollAgain, PollUpdate, q
  <2>4. Honest(q.ref, q.answer)
    BY <1>1, <2>2, IdleHonest DEF PollSet
  <2> QED
    BY <1>1, <1>3, <1>10, <2>2, <2>3, <2>4 DEF PollCarryOn, PollOther, PollHonest
<1>11. \/ polls'[p] = polls[p]
       \/ PollStart(p) \/ PollFetch(p) \/ PollThrow(p) \/ PollFail(p)
       \/ PollHash(p) \/ PollSucceed(p) \/ PollCarryOn(p) \/ PollTimeout(p)
  <2>1. ASSUME NEW o \in Polls, o # p,
               \/ PollStart(o) \/ PollFetch(o) \/ PollThrow(o) \/ PollFail(o)
               \/ PollHash(o) \/ PollSucceed(o) \/ PollCarryOn(o) \/ PollTimeout(o)
        PROVE  polls'[p] = polls[p]
    BY <2>1 DEF TypeOK, PollStart, PollFetch, PollThrow, PollFail, PollHash, PollSucceed,
                PollCarryOn, PollTimeout, PollUpdate, PollAgain, PollEnds
  <2>2. \/ UNCHANGED polls
        \/ \E o \in Polls : \/ PollStart(o) \/ PollFetch(o) \/ PollThrow(o) \/ PollFail(o)
                            \/ PollHash(o) \/ PollSucceed(o) \/ PollCarryOn(o) \/ PollTimeout(o)
    BY StepCases
       DEF SubmitToKrnl, Outcomes, CreateRun, GrowOld, NodeStep, Mine, PollerRead, PollerFetch, PollerSkip,
           PollerTimeout, PollerWrite, PollerOther, RetryCheck, RetrySubmit, RetryWrite,
           RetryOther, vars
  <2> QED
    BY <2>1, <2>2
<1> QED
  BY <1>2, <1>4, <1>5, <1>7, <1>8, <1>9, <1>10, <1>11

(* What the poller holds is true: the row it read, the answer, the receipt.*)
LEMMA PollerStep ==
  ASSUME TypeOK, AllHonest, [Next]_vars
  PROVE  PollerHonest'
<1> USE HashTypeHolds DEF HashType
<1>1. /\ Begun /\ RowHonest(row) /\ PollerHonest
      /\ poller \in PollerSet /\ poller.seen \in RowSet /\ row \in RowSet
  BY DEF AllHonest, TypeOK, PollerSet
<1>2. CASE poller' = poller
  BY <1>1, <1>2, PollerHonestStays
<1>3. CASE poller' = IdlePoller
  <2>1. /\ poller'.seen = NewRow("none") /\ poller'.answer = NoAnswer
        /\ poller'.pc = "idle" /\ poller'.receipt = FALSE /\ poller'.seen.ref = 1
    BY <1>3 DEF IdlePoller, NewRow
  <2>2. RowHonest(poller.seen)'
    BY <2>1 DEF RowHonest, NewRow, HashSent, Known
  <2>3. Honest(poller.seen.ref, poller.answer)'
    BY <2>1 DEF Honest, NoAnswer
  <2> QED
    BY <2>1, <2>2, <2>3 DEF PollerHonest
<1>4. CASE PollerRead
  <2>1. /\ poller'.seen = row /\ poller'.answer = NoAnswer /\ poller'.receipt = FALSE
        /\ row.status \in {"queued", "running"}
    BY <1>4 DEF PollerRead, IdlePoller
  <2>2. UNCHANGED <<row, node, mined>>
    BY <1>4 DEF PollerRead, PollerOther, outside
  <2>3. RowHonest(poller.seen)'
    BY <1>1, <2>1, <2>2 DEF RowHonest, HashSent, Known, Sent, InBlock
  <2>4. Honest(poller.seen.ref, poller.answer)'
    BY <2>1 DEF Honest, NoAnswer
  <2> QED
    BY <2>1, <2>3, <2>4 DEF PollerHonest
<1>5. CASE PollerFetch
  <2>1. submit = "done" /\ poller.pc = "read" /\ UNCHANGED <<submit, node, mined>>
    BY <1>1, <1>5 DEF PollerFetch, PollerOther, Begun, outside
  <2>2. PICK a \in Answers(poller.seen.ref) :
          poller' = [poller EXCEPT !.pc = "fetched", !.answer = a,
                       !.receipt = KnownHash(a) # NoHash /\ mined[KnownHash(a)]]
    BY <1>5 DEF PollerFetch
  <2>3. a \in AnswerSet /\ Honest(poller.seen.ref, a)
    BY <1>1, <2>1, AnswersHonest DEF PollerHonest, RowHonest, RowSet
  <2>4. /\ poller'.seen = poller.seen /\ poller'.answer = a
        /\ poller'.receipt = (KnownHash(a) # NoHash /\ mined[KnownHash(a)])
    BY <1>1, <2>2 DEF PollerSet
  <2>5. RowHonest(poller.seen)'
    BY <1>1, <2>1, <2>4 DEF PollerHonest, RowHonest, HashSent, Known, Sent, InBlock
  <2>6. Honest(poller.seen.ref, poller.answer)'
    BY <2>1, <2>3, <2>4 DEF Honest, Sent, Refused
  <2>7. poller'.receipt => KnownHash(a) # NoHash /\ InBlock(KnownHash(a))
    BY <2>4 DEF InBlock
  <2>8. KnownHash(poller.answer)' = KnownHash(a)
    BY <2>4 DEF KnownHash
  <2>9. (poller.receipt => KnownHash(poller.answer) # NoHash /\ InBlock(KnownHash(poller.answer)))'
    BY <2>1, <2>7, <2>8 DEF InBlock
  <2> QED
    BY <1>1, <2>1, <2>4, <2>5, <2>6, <2>9 DEF PollerHonest
<1>6. poller' = poller \/ poller' = IdlePoller \/ PollerRead \/ PollerFetch
  BY StepCases
     DEF SubmitToKrnl, Outcomes, CreateRun, GrowOld, NodeStep, Mine, PollStart, PollFetch, PollThrow,
         PollFail, PollHash, PollSucceed, PollCarryOn, PollTimeout, PollOther, PollerSkip,
         PollerTimeout, PollerWrite, RetryCheck, RetrySubmit, RetryWrite, RetryOther, vars
<1> QED
  BY <1>2, <1>3, <1>4, <1>5, <1>6

(* A retry holds a submission that the node has taken.                     *)
LEMMA RetryStep ==
  ASSUME TypeOK, AllHonest, [Next]_vars, NEW r \in Retries
  PROVE  RetryHonest(r)'
<1>1. /\ Begun /\ RetryHonest(r) /\ retries[r] \in RetrySet /\ retries[r].ref \in Submissions
  BY DEF AllHonest, TypeOK, RetrySet
<1>2. CASE retries'[r].ref \in {1, retries[r].ref}
  BY <1>1, <1>2, HashTypeHolds, Final DEF RetryHonest, HashType, Known
<1>3. CASE RetrySubmit(r) /\ retries'[r].ref \notin {1, retries[r].ref}
  <2>1. PICK s \in Submissions, pc \in {"submitted", "lost"} :
          /\ node' = [node EXCEPT ![s] = "queued"]
          /\ retries' = [retries EXCEPT ![r] = [pc |-> pc, ref |-> IF pc = "lost" THEN 1 ELSE s]]
    BY <1>1, <1>3 DEF RetrySubmit, RetrySet, TypeOK
  <2>2. node'[s] = "queued"
    BY <2>1 DEF TypeOK
  <2>3. retries'[r].ref = s
    BY <1>3, <2>1 DEF TypeOK
  <2> QED
    BY <1>1, <2>2, <2>3, BegunStays DEF RetryHonest, Known
<1>4. retries'[r].ref \in {1, retries[r].ref} \/ RetrySubmit(r)
  <2>1. ASSUME NEW t \in Retries, RetryCheck(t) \/ RetryWrite(t)
        PROVE  retries'[r].ref \in {1, retries[r].ref}
    BY <1>1, <2>1 DEF RetryCheck, RetryWrite, TypeOK, RetrySet
  <2>2. ASSUME NEW t \in Retries, t # r, RetrySubmit(t)
        PROVE  retries'[r].ref = retries[r].ref
    BY <2>2 DEF RetrySubmit, TypeOK
  <2>3. UNCHANGED retries \/ \E t \in Retries : RetryCheck(t) \/ RetrySubmit(t) \/ RetryWrite(t)
    BY StepCases
       DEF SubmitToKrnl, Outcomes, CreateRun, GrowOld, NodeStep, Mine, PollStart, PollFetch, PollThrow,
           PollFail, PollHash, PollSucceed, PollCarryOn, PollTimeout, PollOther, PollerRead,
           PollerFetch, PollerSkip, PollerTimeout, PollerWrite, PollerOther, vars
  <2> QED
    BY <2>1, <2>2, <2>3
<1> QED
  BY <1>2, <1>3, <1>4

(* The row becomes succeeded by an answer that says so, failed by one that *)
(* does, by a refusal, or when the run is given up.                        *)
LEMMA StatusStep ==
  ASSUME TypeOK, AllHonest, [Next]_vars
  PROVE  StatusHonest'
<1> USE HashTypeHolds DEF HashType
<1> DEFINE Succeeded == \E s \in Submissions : node[s] = "succeeded"
           Failed    == \E s \in Submissions : Refused(s)
<1>1. Begun /\ StatusHonest /\ PollerHonest /\ row \in RowSet
  BY DEF AllHonest, TypeOK
<1>2. (Succeeded => Succeeded') /\ (Failed => Failed')
  BY <1>1, Final
<1>3. ASSUME row'.status = "succeeded" => row.status = "succeeded" \/ Succeeded,
             applied' => applied \/ Succeeded,
             row'.status = "failed" => row.status = "failed" \/ Failed \/ gaveUp',
             gaveUp => gaveUp'
      PROVE  StatusHonest'
  BY <1>1, <1>2, <1>3 DEF StatusHonest
<1>4. CASE row' = row /\ UNCHANGED <<applied, gaveUp>>
  BY <1>3, <1>4
<1>5. CASE CreateRun
  <2>1. row'.status = (IF submit = "accepted" THEN "queued" ELSE "failed")
        /\ UNCHANGED <<applied, node>> /\ submit' = "done"
        /\ gaveUp' = (submit = "lost") /\ submit \in {"accepted", "refused", "lost"}
    BY <1>5 DEF CreateRun, Outcomes, NewRow, outside
  <2>2. submit = "refused" => Refused(1)'
    BY <1>1, <2>1 DEF Begun, Refused
  <2>3. submit = "refused" => Failed'
    BY <2>2
  <2> QED
    BY <1>1, <1>2, <2>1, <2>3 DEF StatusHonest
<1>6. ASSUME NEW p \in Polls,
             \/ PollFail(p) \/ PollHash(p) \/ PollSucceed(p) \/ PollCarryOn(p) \/ PollTimeout(p)
      PROVE  StatusHonest'
  <2>1. PollHonest(p) /\ polls[p].ref \in Submissions
    BY DEF AllHonest, TypeOK, PollSet
  <2>2. applied' = applied /\ (gaveUp => gaveUp')
    BY <1>6 DEF PollOther, PollFail, PollHash, PollSucceed, PollCarryOn, PollTimeout
  <2>3. CASE PollFail(p)
    <3>1. Failed
      BY <2>1, <2>3 DEF PollFail, PollHonest, Honest
    <3>2. row'.status = "failed"
      BY <1>1, <2>3 DEF PollFail, RowSet
    <3> QED
      BY <1>3, <2>2, <3>1, <3>2
  <2>4. CASE PollSucceed(p)
    <3>1. Succeeded
      BY <2>1, <2>4 DEF PollSucceed, Settles, PollHonest, Honest
    <3>2. row'.status = "succeeded"
      BY <1>1, <2>4 DEF PollSucceed, RowSet
    <3> QED
      BY <1>3, <2>2, <3>1, <3>2
  <2>5. CASE PollHash(p) \/ PollCarryOn(p)
    <3>1. row'.status \in {row.status, "queued", "running"}
      BY <1>1, <2>5 DEF PollHash, PollCarryOn, RowSet
    <3> QED
      BY <1>3, <2>2, <3>1
  <2>6. CASE PollTimeout(p)
    <3>1. row' = row \/ (row'.status = "failed" /\ gaveUp')
      BY <1>1, <2>6 DEF PollTimeout, RowSet
    <3> QED
      BY <1>3, <2>2, <3>1
  <2> QED
    BY <1>6, <2>3, <2>4, <2>5, <2>6
<1>7. CASE PollerTimeout
  <2>1. row'.status = "failed" /\ gaveUp' = TRUE /\ applied' = applied
    BY <1>1, <1>7 DEF PollerTimeout, RowSet
  <2> QED
    BY <1>3, <2>1
<1>8. CASE PollerWrite
  <2>1. poller \in PollerSet /\ poller.seen.ref \in Submissions
    BY DEF TypeOK, PollerSet, RowSet
  <2>2. poller.seen.status \in {"queued", "running"}
    BY <1>1, <1>8 DEF PollerWrite, PollerHonest
  <2>3. PollerMapped = "succeeded" => Succeeded
    BY <1>1, <2>1, <2>2 DEF PollerMapped, PollerHonest, Honest
  <2>4. PollerMapped = "failed" => Failed
    BY <1>1, <2>1, <2>2 DEF PollerMapped, PollerHonest, Honest
  <2>5. row'.status \in {row.status, PollerMapped} /\ gaveUp' = gaveUp
    BY <1>1, <1>8 DEF PollerWrite, RowSet
  <2>6. applied' => applied \/ PollerMapped = "succeeded"
    BY <1>8 DEF PollerWrite
  <2> QED
    BY <1>3, <2>3, <2>4, <2>5, <2>6
<1>9. ASSUME NEW r \in Retries, RetryWrite(r)
      PROVE  StatusHonest'
  <2>1. row'.status = "queued" /\ UNCHANGED <<applied, gaveUp>>
    BY <1>1, <1>9 DEF RetryWrite, RetryOther, RowSet
  <2> QED
    BY <1>3, <2>1
<1>10. \/ row' = row /\ UNCHANGED <<applied, gaveUp>>
       \/ CreateRun \/ PollerTimeout \/ PollerWrite
       \/ \E p \in Polls : PollFail(p) \/ PollHash(p) \/ PollSucceed(p) \/ PollCarryOn(p)
                           \/ PollTimeout(p)
       \/ \E r \in Retries : RetryWrite(r)
  BY StepCases
     DEF SubmitToKrnl, Outcomes, GrowOld, NodeStep, Mine, PollStart, PollFetch, PollThrow, PollOther,
         PollerRead, PollerFetch, PollerSkip, RetryCheck, RetrySubmit, RetryOther, vars
<1> QED
  BY <1>4, <1>5, <1>6, <1>7, <1>8, <1>9, <1>10
-----------------------------------------------------------------------------
LEMMA AllHonestAlways == Spec => []AllHonest
<1>1. Init => AllHonest
  <2> SUFFICES ASSUME Init
               PROVE  AllHonest
    OBVIOUS
  <2> USE HashTypeHolds DEF HashType
  <2>1. Begun
    BY DEF Init, Begun, NewRow, IdlePoll, IdlePoller
  <2>2. RowHonest(row)
    BY DEF Init, RowHonest, NewRow, HashSent, Known
  <2>3. ASSUME NEW p \in Polls
        PROVE  PollHonest(p)
    <3>1. polls[p] = IdlePoll
      BY DEF Init
    <3> QED
      BY <3>1 DEF PollHonest, IdlePoll, NoAnswer, HashSent, Known, Honest
  <2>4. PollerHonest
    BY <2>2 DEF Init, PollerHonest, IdlePoller, NewRow, NoAnswer, Honest
  <2>5. \A r \in Retries : RetryHonest(r)
    BY DEF Init, RetryHonest, Known
  <2>6. StatusHonest
    BY DEF Init, StatusHonest, NewRow
  <2> QED
    BY <2>1, <2>2, <2>3, <2>4, <2>5, <2>6 DEF AllHonest
<1>2. TypeOK /\ AllHonest /\ [Next]_vars => AllHonest'
  <2> SUFFICES ASSUME TypeOK, AllHonest, [Next]_vars
               PROVE  AllHonest'
    OBVIOUS
  <2>1. Begun'
    BY BegunStays DEF AllHonest
  <2> QED
    BY <2>1, RowStep, PollStep, PollerStep, RetryStep, StatusStep DEF AllHonest
<1> QED
  BY <1>1, <1>2, RunsTypeCorrect, PTL DEF Spec

(* Nobody takes a run for succeeded, or its traits for unlocked, before the*)
(* node reported the success of one of its submissions.                    *)
THEOREM SuccessIsReportedAlways == Spec => []SuccessIsReported
<1>1. AllHonest => SuccessIsReported
  BY DEF AllHonest, StatusHonest, SuccessIsReported
<1> QED
  BY <1>1, AllHonestAlways, PTL

(* Every hash in the row is that of a transaction that was sent, and one   *)
(* that is shown as on chain, or that answered a request, is in a block.   *)
THEOREM HashesRealAlways == Spec => []HashesReal
<1>1. TypeOK /\ AllHonest => HashesReal
  <2> SUFFICES ASSUME TypeOK, AllHonest
               PROVE  HashesReal
    OBVIOUS
  <2>1. RowHonest(row) /\ \A p \in Polls : PollHonest(p)
    BY DEF AllHonest
  <2>2. {row.exec, row.tx, row.chain} \subseteq Submissions \cup {NoHash}
    BY HashTypeHolds DEF TypeOK, RowSet, HashType
  <2>3. {row.exec, row.tx, row.chain} \subseteq
          {NoHash} \cup {s \in Submissions : node[s] \in {"sent", "succeeded"}}
    BY <2>1, <2>2 DEF RowHonest, HashSent, Sent
  <2> QED
    BY <2>1, <2>3 DEF RowHonest, PollHonest, HashesReal, InBlock
<1> QED
  BY <1>1, RunsTypeCorrect, AllHonestAlways, PTL

(* A run that is recorded as failed and was not given up is one of which   *)
(* the node refused or failed a submission.                                *)
THEOREM FailedIsRealAlways == Spec => []FailedIsReal
<1>1. AllHonest => FailedIsReal
  BY DEF AllHonest, StatusHonest, FailedIsReal, Refused
<1> QED
  BY <1>1, AllHonestAlways, PTL
-----------------------------------------------------------------------------
(* The workflows page. A success is final (lemma SuccessFinal), so what the*)
(* page holds of a run stays true however late it is shown; and a request  *)
(* is about the run of the panel until the route goes on.                  *)

\* Whatever is held of a run that says succeeded is true.
True(held) == \A run \in Ids : held[run] = "succeeded" => status[run] = "succeeded"
TrueOf(said) == said.status = "succeeded" => status[said.run] = "succeeded"

ListsReal == /\ rows # None => True(rows)
             /\ cache # None => True(cache)
             /\ listing.rows # None => True(listing.rows)
PanelReal == /\ chosen # None => TrueOf(chosen)
             /\ detail # None => TrueOf(detail)
AnswersReal == \A c \in Calls :
                 call[c].answer = "succeeded" => status[call[c].run] = "succeeded"
HeldIsReal == ListsReal /\ PanelReal /\ AnswersReal

AboutThePanel(run) == chosen # None /\ chosen.run = run

\* While the route has not overtaken a request, each is about the run of the panel.
PanelFollows ==
  ~overtaken => /\ \A c \in Calls : call[c].kind \notin {"idle", "orphan"} =>
                                      AboutThePanel(call[c].run)
                /\ detail # None => AboutThePanel(detail.run)

LEMMA PageStepCases ==
  ASSUME [RunsPageNext]_pageVars
  PROVE  \/ \E run \in Ids : NextRun(run) \/ EndRun(run)
         \/ \E to \in Ids \cup {None} : Mount(to)
         \/ Refresh \/ ServeList \/ ShowList \/ FailList
         \/ \E c \in Calls : \/ Poll(c) \/ Retry(c) \/ ServeDetail(c) \/ ServeRetry(c)
                             \/ ShowDetail(c) \/ ShowRetry(c) \/ FailCall(c)
         \/ UNCHANGED pageVars
  BY DEF RunsPageNext, Answer

\* The kinds of calls; that a call is one of them says what its answer may be.
LEMMA CallKinds ==
  ASSUME NEW x \in CallSet
  PROVE  /\ x.kind \in {"idle", "open", "poll", "refresh", "retry", "orphan"}
         /\ x.kind = "idle" <=> x = Idle
         /\ x.kind # "idle" => x.run \in Ids
         /\ x.kind \in {"open", "poll", "refresh"} => x.answer \in Statuses \cup {None}
         /\ x.kind = "retry" => x.answer \in {None, "ok", "refused"}
         /\ x.kind = "orphan" => x.answer = None
         /\ x = [kind |-> x.kind, run |-> x.run, answer |-> x.answer]
  BY DEF CallSet, Idle

LEMMA DroppedCall ==
  ASSUME PageTypeOK, NEW c \in Calls
  PROVE  /\ Dropped(c) \in CallSet
         /\ Dropped(c).kind \in {"idle", "orphan"}
         /\ Dropped(c).answer = None
<1>1. call[c] \in CallSet
  BY DEF PageTypeOK
<1>2. CASE call[c].kind \in {"retry", "orphan"} /\ call[c].answer = None
  <2>1. Dropped(c) = [kind |-> "orphan", run |-> call[c].run, answer |-> None]
    BY <1>1, <1>2, CallKinds DEF Dropped
  <2> QED
    BY <1>1, <1>2, <2>1, CallKinds DEF CallSet
<1>3. CASE ~(call[c].kind \in {"retry", "orphan"} /\ call[c].answer = None)
  BY <1>3 DEF Dropped, CallSet, Idle
<1> QED
  BY <1>2, <1>3

\* What opening the panel of a run does to it, and that the call is one of the page's.
LEMMA OpenType ==
  ASSUME NEW calls \in [Calls -> CallSet], NEW c \in Calls, NEW run \in Ids,
         NEW known \in Statuses \cup {None}, Open(run, known, calls, c)
  PROVE  /\ chosen' \in Selections /\ chosen' # None
         /\ chosen'.run = run /\ chosen'.status = known
         /\ detail' = None
         /\ broken' = FALSE
         /\ call' \in [Calls -> CallSet]
         /\ call'[c].run = run /\ call'[c].answer = None
         /\ \A d \in Calls \ {c} : call'[d] = calls[d]
<1>1. [kind |-> "open", run |-> run, answer |-> None] \in CallSet
  BY DEF CallSet
<1> QED
  BY <1>1, RunsPageAssumption DEF Open, Selections

LEMMA NextRunCases ==
  ASSUME PageTypeOK, NEW run \in Ids, NextRun(run)
  PROVE  \E c \in Calls, known \in Statuses \cup {None} :
           /\ known = (IF rows = None THEN None ELSE rows[run])
           /\ chosen' \in Selections /\ chosen' # None
           /\ chosen'.run = run /\ chosen'.status = known
           /\ detail' = None
           /\ broken' = FALSE
           /\ call' \in [Calls -> CallSet]
           /\ call'[c].run = run /\ call'[c].answer = None
           /\ \A d \in Calls \ {c} : call'[d] = call[d]
<1> DEFINE known == IF rows = None THEN None ELSE rows[run]
<1>1. known \in Statuses \cup {None} /\ call \in [Calls -> CallSet]
  BY DEF PageTypeOK, Listings
<1>2. PICK c \in Calls : Open(run, known, call, c)
  BY DEF NextRun
<1> HIDE DEF known
<1>3. /\ chosen' \in Selections /\ chosen' # None
      /\ chosen'.run = run /\ chosen'.status = known
      /\ detail' = None
      /\ broken' = FALSE
      /\ call' \in [Calls -> CallSet]
      /\ call'[c].run = run /\ call'[c].answer = None
      /\ \A d \in Calls \ {c} : call'[d] = call[d]
  BY <1>1, <1>2, OpenType
<1> QED
  BY <1>1, <1>3 DEF known

LEMMA MountCases ==
  ASSUME PageTypeOK, NEW to \in Ids \cup {None}, Mount(to)
  PROVE  /\ call' \in [Calls -> CallSet]
         /\ detail' = None /\ broken' = FALSE
         /\ chosen' \in Selections \cup {None}
         /\ chosen' # None => chosen'.status = None
         /\ \A c \in Calls : call'[c].answer = None
         /\ \A c \in Calls : call'[c].kind \notin {"idle", "orphan"} =>
                               chosen' # None /\ chosen'.run = call'[c].run
<1> DEFINE left == [c \in Calls |-> Dropped(c)]
<1>1. /\ left \in [Calls -> CallSet]
      /\ \A c \in Calls : left[c].kind \in {"idle", "orphan"} /\ left[c].answer = None
  BY DroppedCall
<1>2. CASE to = None
  BY <1>1, <1>2 DEF Mount
<1>3. CASE to # None
  <2>1. PICK c \in Calls : Open(to, None, left, c)
    BY <1>3 DEF Mount
  <2>2. to \in Ids
    BY <1>3
  <2> HIDE DEF left
  <2>3. /\ chosen' \in Selections /\ chosen' # None
        /\ chosen'.run = to /\ chosen'.status = None
        /\ detail' = None /\ broken' = FALSE
        /\ call' \in [Calls -> CallSet]
        /\ call'[c].run = to /\ call'[c].answer = None
        /\ \A d \in Calls \ {c} : call'[d] = left[d]
    <3>1. None \in Statuses \cup {None}
      OBVIOUS
    <3> QED
      BY <1>1, <2>1, <2>2, <3>1, OpenType
  <2> QED
    BY <1>1, <2>3
<1> QED
  BY <1>2, <1>3

(* Every piece of the page's state keeps its type.                         *)
THEOREM PageTypeCorrect == RunsPageSpec => []PageTypeOK
<1>1. RunsPageInit => PageTypeOK
  <2> SUFFICES ASSUME RunsPageInit PROVE PageTypeOK
    OBVIOUS
  <2>1. call \in [Calls -> CallSet] /\ moves \in 0..MaxMoves
    BY RunsPageAssumption DEF RunsPageInit, CallSet
  <2> QED
    BY <2>1 DEF RunsPageInit, PageTypeOK, Listings, Requested
<1>2. PageTypeOK /\ [RunsPageNext]_pageVars => PageTypeOK'
  <2> SUFFICES ASSUME PageTypeOK, [RunsPageNext]_pageVars
               PROVE  PageTypeOK'
    OBVIOUS
  <2> USE RunsPageAssumption
  <2>1. ASSUME NEW run \in Ids, NextRun(run)
        PROVE  PageTypeOK'
    <3>3. /\ chosen' \in Selections /\ detail' = None /\ broken' = FALSE
          /\ call' \in [Calls -> CallSet]
      BY <2>1, NextRunCases
    <3>4. overtaken' \in BOOLEAN
      BY <2>1, Zenon DEF NextRun
    <3>5. moves' \in 0..MaxMoves
      BY <2>1 DEF NextRun, Moves, PageTypeOK
    <3> QED
      BY <2>1, <3>3, <3>4, <3>5 DEF NextRun, list, PageTypeOK
  <2>2. ASSUME NEW run \in Ids, EndRun(run)
        PROVE  PageTypeOK'
    BY <2>2 DEF EndRun, PageTypeOK, Statuses, list, panel
  <2>3. ASSUME NEW to \in Ids \cup {None}, Mount(to)
        PROVE  PageTypeOK'
    <3>1. /\ call' \in [Calls -> CallSet] /\ chosen' \in Selections \cup {None}
          /\ detail' = None /\ broken' = FALSE
      BY <2>3, MountCases
    <3>2. moves' \in 0..MaxMoves
      BY <2>3 DEF Mount, Moves, PageTypeOK
    <3>3. listing' \in [pc : {"none", "sent", "answered"}, rows : Listings]
      BY <2>3 DEF Mount, Requested, Listings
    <3> QED
      BY <2>3, <3>1, <3>2, <3>3 DEF Mount, PageTypeOK
  <2>4. CASE Refresh \/ ServeList \/ ShowList \/ FailList
    BY <2>4 DEF Refresh, ServeList, ShowList, FailList, Moves, NoRequest, Requested,
                PageTypeOK, Listings, list, panel
  <2>5. ASSUME NEW c \in Calls, Poll(c) \/ Retry(c)
        PROVE  PageTypeOK'
    <3>1. chosen.run \in Ids
      BY <2>5 DEF Poll, Retry, Followed, CanRetry, PageTypeOK, Selections
    <3>2. call' \in [Calls -> CallSet]
      BY <2>5, <3>1 DEF Poll, Retry, Send, PageTypeOK, CallSet
    <3> QED
      BY <2>5, <3>2 DEF Poll, Retry, PageTypeOK, list, panel
  <2>6. ASSUME NEW c \in Calls, ServeDetail(c) \/ ServeRetry(c)
        PROVE  PageTypeOK'
    <3>1. call[c] \in CallSet /\ call[c].kind # "idle"
      BY <2>6 DEF ServeDetail, ServeRetry, PageTypeOK
    <3>2. call[c].run \in Ids /\ status[call[c].run] \in Statuses
      BY <3>1, CallKinds DEF PageTypeOK
    <3>3. call' \in [Calls -> CallSet]
      <4>1. CASE ServeDetail(c)
        <5>1. [call[c] EXCEPT !.answer = status[call[c].run]] \in CallSet
          BY <3>1, <3>2, <4>1, CallKinds DEF ServeDetail, CallSet
        <5> QED
          BY <4>1, <5>1 DEF ServeDetail, PageTypeOK
      <4>2. CASE ServeRetry(c)
        <5>1. call[c].kind = "retry" =>
                /\ [call[c] EXCEPT !.answer = "ok"] \in CallSet
                /\ [call[c] EXCEPT !.answer = "refused"] \in CallSet
          BY <3>1, CallKinds DEF CallSet
        <5>2. Idle \in CallSet
          BY DEF CallSet
        <5> QED
          BY <4>2, <5>1, <5>2 DEF ServeRetry, PageTypeOK
      <4> QED
        BY <2>6, <4>1, <4>2
    <3>4. status' \in [Ids -> Statuses] /\ moves' \in 0..MaxMoves
      BY <2>6, <3>2 DEF ServeDetail, ServeRetry, Moves, PageTypeOK, Statuses
    <3> QED
      BY <2>6, <3>3, <3>4 DEF ServeDetail, ServeRetry, PageTypeOK, list, panel
  <2>7. ASSUME NEW c \in Calls, ShowDetail(c)
        PROVE  PageTypeOK'
    <3>1. call[c].run \in Ids /\ call[c].answer \in Statuses
      BY <2>7, CallKinds DEF ShowDetail, PageTypeOK
    <3>2. detail' \in [run : Ids, status : Statuses]
      BY <2>7, <3>1 DEF ShowDetail
    <3>3. chosen' \in Selections \cup {None} /\ rows' \in Listings
      BY <2>7, <3>1 DEF ShowDetail, ApplyDetail, PageTypeOK, Selections, Listings
    <3>4. call' \in [Calls -> CallSet]
      BY <2>7 DEF ShowDetail, PageTypeOK, CallSet
    <3> QED
      BY <2>7, <3>2, <3>3, <3>4 DEF ShowDetail, PageTypeOK
  <2>8. ASSUME NEW c \in Calls, ShowRetry(c)
        PROVE  PageTypeOK'
    <3>1. call[c].run \in Ids
      BY <2>8, CallKinds DEF ShowRetry, PageTypeOK
    <3>2. /\ Idle \in CallSet
          /\ [kind |-> "refresh", run |-> call[c].run, answer |-> None] \in CallSet
      BY <3>1 DEF CallSet
    <3>3. call' \in [Calls -> CallSet] /\ retrying' \in BOOLEAN
      BY <2>8, <3>2 DEF ShowRetry, Send, PageTypeOK
    <3> QED
      BY <2>8, <3>3 DEF ShowRetry, PageTypeOK, list
  <2>9. ASSUME NEW c \in Calls, FailCall(c)
        PROVE  PageTypeOK'
    <3>1. Idle \in CallSet /\ Dropped(c) \in CallSet
      BY DroppedCall DEF CallSet
    <3> QED
      BY <2>9, <3>1 DEF FailCall, Moves, PageTypeOK, list
  <2>10. CASE UNCHANGED pageVars
    BY <2>10 DEF pageVars, list, panel, PageTypeOK
  <2> QED
    BY <2>1, <2>2, <2>3, <2>4, <2>5, <2>6, <2>7, <2>8, <2>9, <2>10, PageStepCases
<1> QED
  BY <1>1, <1>2, PTL DEF RunsPageSpec

\* A run that succeeded stays so: it ends only while it is pending, and only a failed
\* one is submitted again.
LEMMA SuccessFinal ==
  ASSUME PageTypeOK, [RunsPageNext]_pageVars, NEW run \in Ids, status[run] = "succeeded"
  PROVE  status'[run] = "succeeded"
<1>1. ASSUME NEW r \in Ids, NextRun(r) \/ EndRun(r)
      PROVE  status'[run] = "succeeded"
  BY <1>1 DEF NextRun, EndRun, PageTypeOK
<1>2. ASSUME NEW c \in Calls, ServeRetry(c)
      PROVE  status'[run] = "succeeded"
  BY <1>2 DEF ServeRetry, PageTypeOK
<1>3. CASE UNCHANGED status
  BY <1>3
<1> QED
  BY <1>1, <1>2, <1>3, PageStepCases
     DEF Mount, Refresh, ServeList, ShowList, FailList, Poll, Retry, ServeDetail, ShowDetail,
         ShowRetry, FailCall, pageVars

(* Whatever the page holds of a run that says succeeded is true.           *)
THEOREM HeldIsRealAlways == RunsPageSpec => []HeldIsReal
<1>1. RunsPageInit => HeldIsReal
  BY RunsPageAssumption DEF RunsPageInit, HeldIsReal, ListsReal, PanelReal, AnswersReal, Requested,
                            Idle, Statuses
<1>2. PageTypeOK /\ PageTypeOK' /\ HeldIsReal /\ [RunsPageNext]_pageVars => HeldIsReal'
  <2> SUFFICES ASSUME PageTypeOK, PageTypeOK', HeldIsReal, [RunsPageNext]_pageVars
               PROVE  HeldIsReal'
    OBVIOUS
  <2> None # "succeeded"
    BY RunsPageAssumption DEF Statuses
  <2>1. ListsReal /\ PanelReal /\ AnswersReal
    BY DEF HeldIsReal
  <2>2. SUFFICES ListsReal' /\ PanelReal' /\ AnswersReal'
    BY DEF HeldIsReal
  <2>3. \A c \in Calls : call[c].answer = "succeeded" => status'[call[c].run] = "succeeded"
    <3> SUFFICES ASSUME NEW c \in Calls, call[c].answer = "succeeded"
                 PROVE  status'[call[c].run] = "succeeded"
      OBVIOUS
    <3>1. call[c].run \in Ids
      BY CallKinds DEF PageTypeOK, Idle
    <3> QED
      BY <2>1, <3>1, SuccessFinal DEF AnswersReal
  <2>4. UNCHANGED <<rows, cache, listing>> => ListsReal'
    BY <2>1, SuccessFinal DEF ListsReal, True
  <2>5. UNCHANGED <<chosen, detail>> => PanelReal'
    BY <2>1, SuccessFinal DEF PanelReal, TrueOf, PageTypeOK, Selections
  <2>6. UNCHANGED call => AnswersReal'
    BY <2>3 DEF AnswersReal
  <2>7. ASSUME NEW run \in Ids, NextRun(run)
        PROVE  ListsReal' /\ PanelReal' /\ AnswersReal'
    <3>1. PICK c \in Calls, known \in Statuses \cup {None} :
               /\ known = (IF rows = None THEN None ELSE rows[run])
               /\ chosen' # None /\ chosen'.run = run /\ chosen'.status = known
               /\ detail' = None
               /\ call'[c].answer = None
               /\ \A d \in Calls \ {c} : call'[d] = call[d]
      BY <2>7, NextRunCases
    <3>2. known = "succeeded" => status'[run] = "succeeded"
      BY <2>1, <3>1, SuccessFinal DEF ListsReal, True
    <3>5. PanelReal'
      BY <3>1, <3>2 DEF PanelReal, TrueOf
    <3>6. AnswersReal'
      BY <2>3, <3>1 DEF AnswersReal
    <3>7. ListsReal'
      BY <2>4, <2>7 DEF NextRun, list
    <3> QED
      BY <3>5, <3>6, <3>7
  <2>8. ASSUME NEW run \in Ids, EndRun(run)
        PROVE  ListsReal' /\ PanelReal' /\ AnswersReal'
    BY <2>4, <2>5, <2>6, <2>8 DEF EndRun, list, panel
  <2>9. ASSUME NEW to \in Ids \cup {None}, Mount(to)
        PROVE  ListsReal' /\ PanelReal' /\ AnswersReal'
    <3>1. /\ detail' = None
          /\ chosen' # None => chosen'.status = None
          /\ \A c \in Calls : call'[c].answer = None
      BY <2>9, MountCases
    <3>2. ListsReal'
      BY <2>1, <2>9 DEF Mount, ListsReal, True, Requested
    <3>3. PanelReal' /\ AnswersReal'
      BY <3>1 DEF PanelReal, TrueOf, AnswersReal
    <3> QED
      BY <3>2, <3>3
  <2>10. CASE Refresh \/ ServeList \/ ShowList \/ FailList
    <3>1. ListsReal'
      BY <2>1, <2>10 DEF Refresh, ServeList, ShowList, FailList, ListsReal, True, NoRequest,
                         Requested
    <3> QED
      BY <2>5, <2>6, <2>10, <3>1 DEF Refresh, ServeList, ShowList, FailList, panel
  <2>11. ASSUME NEW c \in Calls,
                \/ Poll(c) \/ Retry(c) \/ ServeDetail(c) \/ ServeRetry(c)
                \/ ShowRetry(c) \/ FailCall(c)
         PROVE  ListsReal' /\ PanelReal' /\ AnswersReal'
    <3>1. /\ \A d \in Calls \ {c} : call'[d] = call[d]
          /\ \/ call'[c].answer \in {None, "ok", "refused"}
             \/ /\ call'[c].run = call[c].run /\ call'[c].answer = status[call[c].run]
                /\ status' = status
      <4>1. CASE Poll(c) \/ Retry(c) \/ ShowRetry(c)
        BY <4>1 DEF Poll, Retry, ShowRetry, Send, Idle, PageTypeOK
      <4>2. CASE ServeDetail(c)
        <5>1. call[c] \in CallSet /\ call[c].kind # "idle"
          BY <4>2 DEF ServeDetail, PageTypeOK
        <5> QED
          BY <4>2, <5>1, CallKinds DEF ServeDetail, PageTypeOK
      <4>3. CASE ServeRetry(c)
        <5>1. call[c] \in CallSet
          BY DEF PageTypeOK
        <5> QED
          BY <4>3, <5>1, CallKinds DEF ServeRetry, Idle, PageTypeOK
      <4>4. CASE FailCall(c)
        BY <4>4, DroppedCall DEF FailCall, Idle, PageTypeOK
      <4> QED
        BY <2>11, <4>1, <4>2, <4>3, <4>4
    <3>2. AnswersReal'
      BY <2>3, <3>1 DEF AnswersReal
    <3> QED
      BY <2>4, <2>5, <2>11, <3>2 DEF Poll, Retry, ServeDetail, ServeRetry, ShowRetry, FailCall,
                                     list, panel
  <2>12. ASSUME NEW c \in Calls, ShowDetail(c)
         PROVE  ListsReal' /\ PanelReal' /\ AnswersReal'
    <3>1. call[c].run \in Ids /\ call[c].answer \in Statuses
      BY <2>12, CallKinds DEF ShowDetail, PageTypeOK
    <3>2. status' = status /\ (call[c].answer = "succeeded" => status[call[c].run] = "succeeded")
      BY <2>1, <2>12 DEF ShowDetail, AnswersReal
    <3>3. ListsReal'
      BY <2>1, <2>12, <3>1, <3>2 DEF ShowDetail, ApplyDetail, ListsReal, True, PageTypeOK,
                                     Listings
    <3>4. PanelReal'
      BY <2>1, <2>12, <3>1, <3>2 DEF ShowDetail, ApplyDetail, PanelReal, TrueOf, PageTypeOK,
                                     Selections
    <3>5. AnswersReal'
      BY <2>1, <2>12, <3>2 DEF ShowDetail, AnswersReal, PageTypeOK, Idle
    <3> QED
      BY <3>3, <3>4, <3>5
  <2>13. CASE UNCHANGED pageVars
    BY <2>4, <2>5, <2>6, <2>13 DEF pageVars, list, panel
  <2> QED
    BY <2>7, <2>8, <2>9, <2>10, <2>11, <2>12, <2>13, PageStepCases
<1> QED
  BY <1>1, <1>2, PageTypeCorrect, PTL DEF RunsPageSpec

(* What the page calls succeeded has succeeded, for any number of runs and *)
(* of requests under way: no answer is put to a run it is not about, in    *)
(* whatever order answers come (workflows/page.tsx:137-300, 395-450).      *)
THEOREM SucceededForRealAlways == RunsPageSpec => []SucceededForReal
<1>1. PageTypeOK /\ HeldIsReal => SucceededForReal
  BY DEF HeldIsReal, ListsReal, PanelReal, True, TrueOf, SucceededForReal, SaidOf, RowSays,
         PanelSays
<1> QED
  BY <1>1, PageTypeCorrect, HeldIsRealAlways, PTL

(* Unless the route went on, every request under way is about the run the  *)
(* panel shows, and so is what it shows of one.                            *)
THEOREM PanelFollowsAlways == RunsPageSpec => []PanelFollows
<1>1. RunsPageInit => PanelFollows
  BY DEF RunsPageInit, PanelFollows, Idle
<1>2. PageTypeOK /\ PanelFollows /\ [RunsPageNext]_pageVars => PanelFollows'
  <2> SUFFICES ASSUME PageTypeOK, PanelFollows, [RunsPageNext]_pageVars
               PROVE  PanelFollows'
    OBVIOUS
  <2>1. ASSUME NEW run \in Ids, NextRun(run)
        PROVE  PanelFollows'
    <3>1. PICK c \in Calls :
               /\ chosen' # None /\ chosen'.run = run
               /\ detail' = None
               /\ call'[c].run = run
               /\ \A d \in Calls \ {c} : call'[d] = call[d]
      BY <2>1, NextRunCases
    <3>2. ~overtaken' => \A d \in Calls : call[d].kind \in {"idle", "orphan"}
      BY <2>1 DEF NextRun
    <3> QED
      BY <3>1, <3>2 DEF PanelFollows, AboutThePanel
  <2>2. ASSUME NEW run \in Ids, EndRun(run)
        PROVE  PanelFollows'
    BY <2>2 DEF EndRun, panel, PanelFollows, AboutThePanel
  <2>3. ASSUME NEW to \in Ids \cup {None}, Mount(to)
        PROVE  PanelFollows'
    <3>1. /\ detail' = None
          /\ \A c \in Calls : call'[c].kind \notin {"idle", "orphan"} =>
                                chosen' # None /\ chosen'.run = call'[c].run
      BY <2>3, MountCases
    <3> QED
      BY <3>1 DEF PanelFollows, AboutThePanel
  <2>4. CASE Refresh \/ ServeList \/ ShowList \/ FailList
    BY <2>4 DEF Refresh, ServeList, ShowList, FailList, panel, PanelFollows, AboutThePanel
  <2>5. ASSUME NEW c \in Calls,
               \/ Poll(c) \/ Retry(c) \/ ServeDetail(c) \/ ServeRetry(c)
               \/ ShowRetry(c) \/ FailCall(c)
        PROVE  PanelFollows'
    <3>1. /\ UNCHANGED <<chosen, detail, overtaken>>
          /\ \A d \in Calls \ {c} : call'[d] = call[d]
      BY <2>5 DEF Poll, Retry, ServeDetail, ServeRetry, ShowRetry, FailCall, Send, panel,
                  PageTypeOK
    <3>2. \/ call'[c].kind \in {"idle", "orphan"}
          \/ chosen # None /\ call'[c].run = chosen.run
          \/ call[c].kind \notin {"idle", "orphan"} /\ call'[c].run = call[c].run
      <4>1. CASE Poll(c) \/ Retry(c)
        BY <4>1 DEF Poll, Retry, Followed, CanRetry, Send, PageTypeOK
      <4>2. CASE ShowRetry(c)
        BY <4>2 DEF ShowRetry, Send, Idle, PageTypeOK
      <4>3. CASE ServeDetail(c)
        <5>1. call[c] \in CallSet
          BY DEF PageTypeOK
        <5> QED
          BY <4>3, <5>1, CallKinds DEF ServeDetail, PageTypeOK
      <4>4. CASE ServeRetry(c)
        <5>1. call[c] \in CallSet
          BY DEF PageTypeOK
        <5> QED
          BY <4>4, <5>1, CallKinds DEF ServeRetry, Idle, PageTypeOK
      <4>5. CASE FailCall(c)
        BY <4>5, DroppedCall DEF FailCall, Idle, PageTypeOK
      <4> QED
        BY <2>5, <4>1, <4>2, <4>3, <4>4, <4>5
    <3> QED
      BY <3>1, <3>2 DEF PanelFollows, AboutThePanel
  <2>6. ASSUME NEW c \in Calls, ShowDetail(c)
        PROVE  PanelFollows'
    <3>1. /\ overtaken' = overtaken
          /\ detail'.run = call[c].run /\ call[c].kind \notin {"idle", "orphan"}
          /\ call'[c].kind = "idle" /\ \A d \in Calls \ {c} : call'[d] = call[d]
      BY <2>6 DEF ShowDetail, PageTypeOK, Idle
    <3>2. chosen # None => chosen' # None /\ chosen'.run = chosen.run
      BY <2>6, RunsPageAssumption, CallKinds DEF ShowDetail, ApplyDetail, PageTypeOK, Selections
    <3> QED
      BY <3>1, <3>2 DEF PanelFollows, AboutThePanel
  <2>7. CASE UNCHANGED pageVars
    BY <2>7 DEF pageVars, panel, PanelFollows, AboutThePanel
  <2> QED
    BY <2>1, <2>2, <2>3, <2>4, <2>5, <2>6, <2>7, PageStepCases
<1> QED
  BY <1>1, <1>2, PageTypeCorrect, PTL DEF RunsPageSpec

(* The panel shows the run its buttons act on, for any number of runs and  *)
(* of requests under way (workflows/page.tsx:205-241, 395-450).            *)
THEOREM PanelOfOneRunAlways == RunsPageSpec => []PanelOfOneRun
<1>1. PanelFollows => PanelOfOneRun
  BY DEF PanelFollows, AboutThePanel, PanelOfOneRun
<1> QED
  BY <1>1, PanelFollowsAlways, PTL
=============================================================================
