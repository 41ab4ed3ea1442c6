------------------------- MODULE ActionQueueProofs -------------------------
(***************************************************************************)
(* What holds of the automation worker for any events, servers, attempts,  *)
(* stops and failures.                                                     *)
(***************************************************************************)
EXTENDS ActionQueue, FiniteSetTheorems, TLAPS

EventRow  == [pc : EventPc, batch : SUBSET Events, event : Events \cup {NoEvent}, token : Nat]
ActionRow == [pc : ActionPc, batch : SUBSET (Nat \X {"PENDING", "FAILED"}),
              item : Nat, wf : Nat, token : Nat, keys : Nat]

(* Replacing an element leaves a sequence.                                 *)
LEMMA SetElement ==
  ASSUME NEW S, NEW seq \in Seq(S), NEW i \in DOMAIN seq, NEW e \in S
  PROVE  /\ [seq EXCEPT ![i] = e] \in Seq(S)
         /\ DOMAIN [seq EXCEPT ![i] = e] = DOMAIN seq
         /\ [seq EXCEPT ![i] = e][i] = e
         /\ \A j \in DOMAIN seq \ {i} : [seq EXCEPT ![i] = e][j] = seq[j]
<1>1. \A j \in DOMAIN seq : seq[j] \in S
  OBVIOUS
<1>2. DOMAIN seq = 1..Len(seq) /\ Len(seq) \in Nat
  OBVIOUS
<1>3. [seq EXCEPT ![i] = e] \in [1..Len(seq) -> S]
  BY <1>1, <1>2
<1> QED
  BY <1>2, <1>3

LEMMA AddElement ==
  ASSUME NEW S, NEW seq \in Seq(S), NEW e \in S
  PROVE  /\ Append(seq, e) \in Seq(S)
         /\ Len(seq) + 1 \in Nat \ {0}
         /\ DOMAIN Append(seq, e) = DOMAIN seq \cup {Len(seq) + 1}
         /\ Append(seq, e)[Len(seq) + 1] = e
         /\ \A j \in DOMAIN seq : Append(seq, e)[j] = seq[j]
         /\ Len(seq) + 1 \notin DOMAIN seq
         /\ \A j \in DOMAIN seq : j \in Nat \ {0} /\ j < Len(seq) + 1
OBVIOUS

(* The rows and the chain: what they name is on chain.                     *)
TablesOK ==
  /\ queue \in Seq(ItemSet)
  /\ \A i \in DOMAIN queue : queue[i].token \in WorkerTokens
  /\ membership \in WorkerTokens
  /\ ownership \subseteq Minted

ChainOK ==
  /\ workflows \in Seq(WorkflowSet)
  /\ keys \in Seq(Nat)
  /\ \A w \in DOMAIN workflows :
       workflows[w].type = MintType /\ workflows[w].state = "mined" => workflows[w].token \in Minted

EventsOK ==
  /\ event \in [Events -> [status : {"none", "received", "processing", "processed", "ignored",
                                     "failed", "enqueued"}, processed : BOOLEAN]]
  /\ route \in [Events -> {"idle", "received", "done"}]
  /\ eventWorker \in [Servers -> EventRow]
  /\ \A s \in Servers : eventWorker[s].token \in WorkerTokens
  /\ \A s \in Servers : eventWorker[s].pc \notin {"idle", "round"} => eventWorker[s].event \in Events

\* Where runMintAction is at work.
MintPcs == {MintType, "own known", "wait mint", "receipt", "member", "own", "item"}

(* What the loop over items holds in memory fits the rows and the chain.   *)
Fits(row) ==
  /\ \A b \in row.batch : b[1] \in DOMAIN queue
  /\ row.item # 0 => row.item \in DOMAIN queue
  /\ row.pc \notin {"idle", "round"} => row.item # 0
  /\ row.pc \in MintPcs => queue[row.item].type = MintType
  /\ row.pc \in {"wait mint", "receipt"} =>
       row.wf \in DOMAIN workflows /\ workflows[row.wf].type = MintType
  /\ row.pc \in {"own known", "member", "own", "item", "submit reward"} => row.token \in Minted

ActionsOK ==
  /\ actionWorker \in [Servers -> ActionRow]
  /\ \A s \in Servers : Fits(actionWorker[s])

CountsOK == /\ failures \in Nat /\ cuts \in Nat /\ lost \in Nat
            /\ cuts + lost <= MaxCuts /\ Trouble <= MaxTrouble

QueueOK == TablesOK /\ ChainOK /\ EventsOK /\ ActionsOK /\ CountsOK /\ decodes \in BOOLEAN

(* Rows and workflows are only added, and keep their type and event.       *)
Grows ==
  /\ DOMAIN queue \subseteq (DOMAIN queue)'
  /\ \A i \in DOMAIN queue : queue'[i].type = queue[i].type /\ queue'[i].event = queue[i].event
  /\ DOMAIN workflows \subseteq (DOMAIN workflows)'
  /\ \A w \in DOMAIN workflows : workflows'[w].type = workflows[w].type
  /\ Minted \subseteq Minted'

LEMMA UnchangedGrows == UNCHANGED <<queue, workflows, keys>> => Grows
BY DEF Grows, Minted

(* A round that is cut off, or two with the server, loses what the loop    *)
(* held and no more.                                                       *)
LEMMA CutEffects ==
  ASSUME NEW s \in Servers, Cut(s)
  PROVE  /\ UNCHANGED <<chain, rows, route, failures>>
         /\ \/ eventWorker' = eventWorker
            \/ eventWorker' = [eventWorker EXCEPT ![s] = IdleEvents]
         /\ \/ UNCHANGED <<actionWorker, cuts>>
            \/ actionWorker' = [actionWorker EXCEPT ![s] = IdleActions] /\ cuts' = cuts + 1
BY DEF Cut, Stop, BreakItems, BreakEvents, EventSays, ActionSays

LEMMA FitsStill ==
  ASSUME NEW row, Fits(row), Grows
  PROVE  Fits(row)'
<1>1. \A b \in row.batch : b[1] \in (DOMAIN queue)'
  BY DEF Fits, Grows
<1>2. row.item # 0 => row.item \in DOMAIN queue /\ row.item \in (DOMAIN queue)'
  BY DEF Fits, Grows
<1>3. row.pc \in MintPcs => row.pc \notin {"idle", "round"}
  BY DEF MintPcs, MintType
<1>4. row.pc \in MintPcs => queue'[row.item].type = MintType
  BY <1>2, <1>3 DEF Fits, Grows
<1>5. row.pc \in {"wait mint", "receipt"} =>
        row.wf \in (DOMAIN workflows)' /\ workflows'[row.wf].type = MintType
  BY DEF Fits, Grows
<1>6. row.pc \in {"own known", "member", "own", "item", "submit reward"} => row.token \in Minted'
  BY DEF Fits, Grows
<1> QED
  BY <1>1, <1>2, <1>4, <1>5, <1>6 DEF Fits

(* A step of one server's loop leaves the loops of the others fitting.     *)
LEMMA ActionSaysOK ==
  ASSUME ActionsOK, Grows, NEW s \in Servers, NEW row \in ActionRow, ActionSays(s, row), Fits(row)'
  PROVE  ActionsOK'
<1>1. actionWorker' = [actionWorker EXCEPT ![s] = row]
  BY DEF ActionSays
<1>2. \A t \in Servers \ {s} : actionWorker'[t] = actionWorker[t]
  BY <1>1 DEF ActionsOK
<1>3. actionWorker'[s] = row /\ actionWorker' \in [Servers -> ActionRow]
  BY <1>1 DEF ActionsOK
<1>4. \A t \in Servers : Fits(actionWorker[t])'
  <2> TAKE t \in Servers
  <2>1. CASE t = s
    BY <1>3, <2>1 DEF Fits
  <2>2. CASE t # s
    <3>1. PICK old : old = actionWorker[t]
      OBVIOUS
    <3>2. actionWorker'[t] = old
      BY <1>2, <2>2, <3>1
    <3>3. Fits(old)
      BY <3>1 DEF ActionsOK
    <3>4. Fits(old)'
      BY <3>3, FitsStill
    <3> QED
      BY <3>2, <3>4 DEF Fits
  <2> QED
    BY <2>1, <2>2
<1> QED
  BY <1>3, <1>4 DEF ActionsOK

(* A loop that does nothing still fits.                                    *)
LEMMA ActionsKept ==
  ASSUME ActionsOK, Grows, actionWorker' = actionWorker
  PROVE  ActionsOK'
<1>1. \A t \in Servers : Fits(actionWorker[t])'
  <2> TAKE t \in Servers
  <2>1. PICK old : old = actionWorker[t]
    OBVIOUS
  <2>2. Fits(old)
    BY <2>1 DEF ActionsOK
  <2>3. Fits(old)'
    BY <2>2, FitsStill
  <2> QED
    BY <2>1, <2>3 DEF Fits
<1> QED
  BY <1>1 DEF ActionsOK

(* An item is changed in its columns other than type and event.            *)
LEMMA ItemSet1 ==
  ASSUME TablesOK, NEW i \in DOMAIN queue, NEW item \in ItemSet,
         item.type = queue[i].type, item.event = queue[i].event, item.token \in WorkerTokens,
         queue' = [queue EXCEPT ![i] = item], UNCHANGED <<membership, ownership, workflows, keys>>
  PROVE  /\ TablesOK' /\ Grows
         /\ DOMAIN queue' = DOMAIN queue
         /\ queue'[i] = item
         /\ \A j \in DOMAIN queue \ {i} : queue'[j] = queue[j]
<1>1. /\ queue' \in Seq(ItemSet)
      /\ DOMAIN queue' = DOMAIN queue
      /\ queue'[i] = item
      /\ \A j \in DOMAIN queue \ {i} : queue'[j] = queue[j]
  BY SetElement DEF TablesOK
<1> QED
  BY <1>1 DEF TablesOK, Grows, WorkerTokens, Minted

(* What stays when only the tables' wallet columns are written.            *)
LEMMA WalletTypes ==
  ASSUME TablesOK, UNCHANGED <<queue, workflows, keys>>,
         membership' \in WorkerTokens, ownership' \subseteq Minted
  PROVE  TablesOK' /\ Grows
BY UnchangedGrows DEF TablesOK, WorkerTokens, Minted

(* A loop between two items fits.                                          *)
LEMMA RoundFits ==
  ASSUME NEW batch \in SUBSET (Nat \X {"PENDING", "FAILED"}),
         \A b \in batch : b[1] \in DOMAIN queue
  PROVE  /\ [IdleActions EXCEPT !.pc = "round", !.batch = batch] \in ActionRow
         /\ Fits([IdleActions EXCEPT !.pc = "round", !.batch = batch])
<1>1. PICK row : row = [IdleActions EXCEPT !.pc = "round", !.batch = batch]
  OBVIOUS
<1>2. row \in ActionRow
  BY <1>1 DEF IdleActions, ActionRow, ActionPc, NoToken
<1>3. row.pc = "round" /\ row.batch = batch /\ row.item = 0
  BY <1>1 DEF IdleActions
<1> QED
  BY <1>1, <1>2, <1>3 DEF Fits, MintPcs, MintType

LEMMA IdleFits == IdleActions \in ActionRow /\ Fits(IdleActions)
<1>1. IdleActions \in ActionRow
  BY DEF IdleActions, ActionRow, ActionPc, NoToken
<1>2. IdleActions.pc = "idle" /\ IdleActions.batch = {} /\ IdleActions.item = 0
  BY DEF IdleActions
<1> QED
  BY <1>1, <1>2 DEF Fits, MintPcs, MintType

(* A workflow is added to what was submitted.                              *)
LEMMA SubmitOK ==
  ASSUME ChainOK, NEW w \in WorkflowSet, w.state = "sent", workflows' = Append(workflows, w),
         UNCHANGED <<queue, keys>>
  PROVE  /\ ChainOK' /\ Grows
         /\ Len(workflows) + 1 \in Nat
         /\ Len(workflows) + 1 \in (DOMAIN workflows)'
         /\ workflows'[Len(workflows) + 1] = w
<1>1. /\ workflows' \in Seq(WorkflowSet)
      /\ Len(workflows) + 1 \in Nat
      /\ DOMAIN workflows' = DOMAIN workflows \cup {Len(workflows) + 1}
      /\ workflows'[Len(workflows) + 1] = w
      /\ \A j \in DOMAIN workflows : workflows'[j] = workflows[j]
  BY AddElement DEF ChainOK
<1> QED
  BY <1>1 DEF ChainOK, Grows, Minted

(* The loop over items writes what is on chain, and only adds.             *)
LEMMA ActionTypes ==
  ASSUME QueueOK, NEW s \in Servers, RunActions(s)
  PROVE  /\ TablesOK' /\ ChainOK' /\ Grows
         /\ ActionsOK'
         /\ CountsOK'
         /\ UNCHANGED <<decodes, event, route, eventWorker>>
<1> USE DEF QueueOK
<1>r. /\ actionWorker[s] \in ActionRow
      /\ Fits(actionWorker[s])
  BY DEF ActionsOK
<1>o. UNCHANGED <<decodes, event, route, eventWorker>>
  BY DEF RunActions, ActionRound, SkipItem, TakeItem, ActionRoundEnd, RunMint, MintKnown,
         OwnKnown, MintSubmit, MintHash, Hash, MintReceipt, MintMember, MintOwn, MintItem,
         RunReward, RewardRead, RewardSubmit, RewardHash, Succeed, ActionThrow, ActionLocal,
         ActionOther
<1>c. CountsOK'
  <2>1. /\ UNCHANGED <<cuts, lost>>
        /\ \/ failures' = failures
           \/ Trouble < MaxTrouble /\ failures' = failures + 1
    BY DEF RunActions, ActionRound, SkipItem, TakeItem, ActionRoundEnd, RunMint, MintKnown,
           OwnKnown, MintSubmit, MintHash, Hash, MintReceipt, MintMember, MintOwn, MintItem,
           RunReward, RewardRead, RewardSubmit, RewardHash, Succeed, ActionThrow, ActionLocal,
           ActionOther
  <2> QED
    BY <2>1, QueueAssumption DEF CountsOK, Trouble
<1> DEFINE Good == TablesOK' /\ ChainOK' /\ Grows /\ ActionsOK'
<1>l. ASSUME NEW row \in ActionRow, ActionSays(s, row), Fits(row), ActionLocal
      PROVE  Good
  <2>1. UNCHANGED <<queue, membership, ownership, workflows, keys>>
    BY <1>l DEF ActionLocal
  <2>2. Grows
    BY <2>1, UnchangedGrows
  <2>3. Fits(row)'
    BY <1>l, <2>2, FitsStill
  <2>4. TablesOK' /\ ChainOK'
    BY <2>1 DEF TablesOK, ChainOK, WorkerTokens, Minted
  <2> QED
    BY <1>l, <2>2, <2>3, <2>4, ActionSaysOK
<1>1. ASSUME ActionRound(s)
      PROVE  Good
  <2> DEFINE batch == {<<i, queue[i].status>> : i \in Oldest(Due)}
  <2>1. \A i \in Oldest(Due) : i \in DOMAIN queue /\ queue[i].status \in {"PENDING", "FAILED"}
    BY DEF Oldest, Due
  <2>2. DOMAIN queue \subseteq Nat
    BY DEF TablesOK
  <2>3. batch \subseteq Nat \X {"PENDING", "FAILED"} /\ \A b \in batch : b[1] \in DOMAIN queue
    BY <2>1, <2>2
  <2> HIDE DEF batch
  <2>4. PICK row : row = [IdleActions EXCEPT !.pc = "round", !.batch = batch]
    OBVIOUS
  <2>5. row \in ActionRow /\ Fits(row)
    BY <2>3, <2>4, RoundFits
  <2>6. ActionSays(s, row) /\ ActionLocal
    BY <1>1, <2>4 DEF ActionRound, batch
  <2> QED
    BY <1>l, <2>5, <2>6
<1>2. ASSUME SkipItem(s)
      PROVE  Good
  <2>1. PICK b : ActionSays(s, [actionWorker[s] EXCEPT !.batch = @ \ {b}]) /\ ActionLocal
    BY <1>2 DEF SkipItem
  <2>2. [actionWorker[s] EXCEPT !.batch = @ \ {b}] \in ActionRow
    BY <1>r DEF ActionRow
  <2>3. Fits([actionWorker[s] EXCEPT !.batch = @ \ {b}])
    BY <1>r DEF Fits, ActionRow
  <2> QED
    BY <1>l, <2>1, <2>2, <2>3
<1>3. ASSUME TakeItem(s)
      PROVE  Good
  <2>1. PICK b \in Next1(s) :
          /\ queue' = [queue EXCEPT ![b[1]].status = "RUNNING", ![b[1]].attempts = @ + 1]
          /\ ActionSays(s, [actionWorker[s] EXCEPT !.batch = @ \ {b}, !.item = b[1],
                                                   !.pc = queue[b[1]].type])
    BY <1>3 DEF TakeItem
  <2>2. b[1] \in DOMAIN queue /\ b[1] \in Nat \ {0}
    <3>1. b \in actionWorker[s].batch
      BY DEF Next1
    <3>2. b[1] \in DOMAIN queue
      BY <1>r, <3>1 DEF Fits
    <3>3. DOMAIN queue \subseteq Nat \ {0}
      BY DEF TablesOK
    <3> QED
      BY <3>2, <3>3
  <2>3. PICK i : i = b[1]
    OBVIOUS
  <2>4. queue[i] \in ItemSet /\ queue[i].token \in WorkerTokens
    BY <2>2, <2>3 DEF TablesOK
  <2>5. PICK item : item = [queue[i] EXCEPT !.status = "RUNNING", !.attempts = @ + 1]
    OBVIOUS
  <2>6. /\ item \in ItemSet /\ item.type = queue[i].type /\ item.event = queue[i].event
        /\ item.token = queue[i].token
    <3>1. queue[i].attempts + 1 \in Nat
      BY <2>4 DEF ItemSet
    <3> QED
      BY <2>4, <2>5, <3>1 DEF ItemSet
  <2>7. queue' = [queue EXCEPT ![i] = item]
    BY <2>1, <2>3, <2>5
  <2>8. UNCHANGED <<membership, ownership, workflows, keys>>
    BY <1>3 DEF TakeItem
  <2>9. /\ TablesOK' /\ Grows /\ DOMAIN queue' = DOMAIN queue
        /\ queue'[i].type = queue[i].type
    BY <2>2, <2>3, <2>4, <2>6, <2>7, <2>8, ItemSet1
  <2>10. PICK row : row = [actionWorker[s] EXCEPT !.batch = @ \ {b}, !.item = i,
                                                  !.pc = queue[i].type]
    OBVIOUS
  <2>11. row \in ActionRow
    BY <1>r, <2>2, <2>3, <2>4, <2>10 DEF ActionRow, ActionPc, ItemSet
  <2>12. /\ row.batch \subseteq actionWorker[s].batch
         /\ row.item = i /\ row.pc = queue[i].type
    BY <1>r, <2>10 DEF ActionRow
  <2>13. Fits(row)'
    <3>1. row.pc \in {MintType, RewardType}
      BY <2>4, <2>12 DEF ItemSet
    <3>2. row.pc \in MintPcs => row.pc = MintType
      BY <3>1 DEF MintPcs, MintType, RewardType
    <3>3. \A x \in row.batch : x[1] \in (DOMAIN queue)'
      BY <1>r, <2>9, <2>12 DEF Fits
    <3>4. row.item \in (DOMAIN queue)' /\ row.item # 0
      BY <2>2, <2>3, <2>9, <2>12
    <3>5. row.pc \notin {"wait mint", "receipt", "own known", "member", "own", "item",
                          "submit reward"}
      BY <3>1 DEF MintType, RewardType
    <3> QED
      BY <2>9, <2>12, <3>2, <3>3, <3>4, <3>5 DEF Fits
  <2>14. ChainOK'
    BY <2>8 DEF ChainOK, Minted
  <2>15. ActionSays(s, row)
    BY <2>1, <2>3, <2>10
  <2> QED
    BY <2>9, <2>11, <2>13, <2>14, <2>15, ActionSaysOK
<1>4. ASSUME ActionRoundEnd(s)
      PROVE  Good
  <2>1. IdleActions \in ActionRow /\ Fits(IdleActions)
    BY IdleFits
  <2> QED
    BY <1>4, <1>l, <2>1 DEF ActionRoundEnd
<1>5. ASSUME Succeed(s) \/ ActionThrow(s)
      PROVE  Good
  <2>1. /\ ItemOf(s) \in DOMAIN queue
        /\ UNCHANGED <<membership, ownership, workflows, keys>>
        /\ ItemSettle(s, "SUCCEEDED") \/ ItemSettle(s, "FAILED")
    BY <1>5, <1>r DEF Succeed, ActionThrow, ItemOf, AtAction, Fits
  <2>2. PICK status \in {"SUCCEEDED", "FAILED"} : ItemSettle(s, status)
    BY <2>1
  <2>3. PICK i : i = ItemOf(s)
    OBVIOUS
  <2>4. queue[i] \in ItemSet /\ queue[i].token \in WorkerTokens
    BY <2>1, <2>3 DEF TablesOK
  <2>5. PICK item : item = [queue[i] EXCEPT !.status = status]
    OBVIOUS
  <2>6. /\ item \in ItemSet /\ item.type = queue[i].type /\ item.event = queue[i].event
        /\ item.token = queue[i].token
    BY <2>4, <2>5 DEF ItemSet
  <2>7. queue' = [queue EXCEPT ![i] = item]
    BY <2>2, <2>3, <2>5 DEF ItemSettle
  <2>8. TablesOK' /\ Grows
    BY <2>1, <2>3, <2>4, <2>6, <2>7, ItemSet1
  <2>9. PICK row : row = [IdleActions EXCEPT !.pc = "round", !.batch = actionWorker[s].batch]
    OBVIOUS
  <2>10. row \in ActionRow /\ Fits(row)
    <3>1. /\ actionWorker[s].batch \subseteq Nat \X {"PENDING", "FAILED"}
          /\ \A b \in actionWorker[s].batch : b[1] \in DOMAIN queue
      BY <1>r DEF ActionRow, Fits
    <3> QED
      BY <2>9, <3>1, RoundFits
  <2>12. Fits(row)'
    BY <2>8, <2>10, FitsStill
  <2>13. ChainOK'
    BY <2>1 DEF ChainOK, Minted
  <2>14. ActionSays(s, row)
    BY <2>2, <2>9 DEF ItemSettle
  <2> QED
    BY <2>8, <2>10, <2>12, <2>13, <2>14, ActionSaysOK
<1>6. ASSUME RunMint(s)
      PROVE  Good
  <2>0. /\ actionWorker[s].pc \in MintPcs
        /\ actionWorker[s].pc \notin {"idle", "round"}
    BY <1>6 DEF RunMint, MintKnown, OwnKnown, MintSubmit, MintHash, Hash, MintReceipt,
                MintMember, MintOwn, MintItem, AtAction, MintPcs, MintType
  <2>i. PICK i : i = ItemOf(s)
    OBVIOUS
  <2>q. /\ i = actionWorker[s].item /\ i # 0 /\ i \in Nat /\ i \in DOMAIN queue
        /\ queue[i].type = MintType
    BY <1>r, <2>0, <2>i DEF Fits, ItemOf, ActionRow
  <2>t. queue[i] \in ItemSet
    BY <2>q DEF TablesOK
  <2>1. ASSUME MintKnown(s)
        PROVE  Good
    <3>1. membership \in Minted /\ membership \in Nat
      BY <2>1 DEF MintKnown, NoMembership, TablesOK, WorkerTokens, Minted, ChainOK
    <3>2. PICK item : item = [queue[i] EXCEPT !.token = membership]
      OBVIOUS
    <3>3. /\ item \in ItemSet /\ item.type = queue[i].type /\ item.event = queue[i].event
          /\ item.token = membership
      BY <2>t, <3>1, <3>2 DEF ItemSet
    <3>4. /\ queue' = [queue EXCEPT ![i] = item]
          /\ UNCHANGED <<membership, ownership, workflows, keys>>
      BY <2>1, <2>i, <3>2 DEF MintKnown
    <3>5. TablesOK' /\ Grows
      BY <2>q, <3>1, <3>3, <3>4, ItemSet1 DEF WorkerTokens
    <3>6. PICK row : row = [actionWorker[s] EXCEPT !.pc = "own known", !.token = membership]
      OBVIOUS
    <3>7. /\ row \in ActionRow /\ row.batch = actionWorker[s].batch
          /\ row.item = actionWorker[s].item /\ row.pc = "own known" /\ row.token = membership
      BY <1>r, <3>1, <3>6 DEF ActionRow, ActionPc
    <3>8. Fits(row)
      BY <1>r, <2>q, <3>1, <3>7 DEF Fits
    <3>9. ChainOK'
      BY <3>4 DEF ChainOK, Minted
    <3>10. ActionSays(s, row)
      BY <2>1, <3>6 DEF MintKnown
    <3> QED
      BY <3>5, <3>7, <3>8, <3>9, <3>10, FitsStill, ActionSaysOK
  <2>2. ASSUME OwnKnown(s) \/ MintMember(s) \/ MintOwn(s)
        PROVE  Good
    <3>1. actionWorker[s].token \in Minted
      BY <1>r, <2>2 DEF OwnKnown, MintMember, MintOwn, AtAction, Fits
    <3>2. PICK pc \in {"done", "own", "item"} :
            ActionSays(s, [actionWorker[s] EXCEPT !.pc = pc])
      BY <2>2 DEF OwnKnown, MintMember, MintOwn
    <3>3. /\ UNCHANGED <<queue, workflows, keys>>
          /\ membership' \in WorkerTokens
          /\ ownership' \subseteq Minted
      BY <2>2, <3>1 DEF OwnKnown, MintMember, MintOwn, TablesOK, WorkerTokens
    <3>4. TablesOK' /\ Grows
      BY <3>3, WalletTypes
    <3>5. PICK row : row = [actionWorker[s] EXCEPT !.pc = pc]
      OBVIOUS
    <3>6. /\ row \in ActionRow /\ row.batch = actionWorker[s].batch
          /\ row.item = actionWorker[s].item /\ row.pc = pc
          /\ row.token = actionWorker[s].token
      BY <1>r, <3>5 DEF ActionRow, ActionPc
    <3>7. Fits(row)
      BY <1>r, <2>q, <3>1, <3>6 DEF Fits
    <3>8. ChainOK'
      BY <3>3 DEF ChainOK, Minted
    <3> QED
      BY <3>2, <3>4, <3>5, <3>6, <3>7, <3>8, FitsStill, ActionSaysOK
  <2>3. ASSUME MintSubmit(s)
        PROVE  Good
    <3>1. PICK w : w = [type |-> MintType, item |-> i, token |-> NoToken, keys |-> 0,
                        state |-> "sent"]
      OBVIOUS
    <3>2. w \in WorkflowSet /\ w.type = MintType /\ w.state = "sent"
      BY <2>q, <3>1 DEF WorkflowSet, NoToken
    <3>3. /\ workflows' = Append(workflows, w)
          /\ UNCHANGED <<queue, membership, ownership, keys>>
      BY <2>3, <2>i, <2>q, <3>1 DEF MintSubmit, Submit, TakenItem
    <3>4. /\ ChainOK' /\ Grows /\ Len(workflows) + 1 \in Nat
          /\ Len(workflows) + 1 \in (DOMAIN workflows)'
          /\ workflows'[Len(workflows) + 1] = w
      BY <3>2, <3>3, SubmitOK
    <3>5. PICK row : row = [actionWorker[s] EXCEPT !.pc = "wait mint", !.wf = Len(workflows) + 1]
      OBVIOUS
    <3>6. /\ row \in ActionRow /\ row.batch = actionWorker[s].batch
          /\ row.item = actionWorker[s].item /\ row.pc = "wait mint"
          /\ row.wf = Len(workflows) + 1
      BY <1>r, <3>4, <3>5 DEF ActionRow, ActionPc
    <3>7. Fits(row)'
      BY <1>r, <2>q, <3>2, <3>3, <3>4, <3>6 DEF Fits
    <3>8. TablesOK'
      BY <3>3 DEF TablesOK, WorkerTokens, Minted
    <3>9. ActionSays(s, row)
      BY <2>3, <3>5 DEF MintSubmit, Submit
    <3> QED
      BY <3>4, <3>6, <3>7, <3>8, <3>9, ActionSaysOK
  <2>4. ASSUME MintHash(s)
        PROVE  Good
    <3>1. PICK row : row = [actionWorker[s] EXCEPT !.pc = "receipt"]
      OBVIOUS
    <3>2. /\ row \in ActionRow /\ row.batch = actionWorker[s].batch
          /\ row.item = actionWorker[s].item /\ row.pc = "receipt"
          /\ row.wf = actionWorker[s].wf
      BY <1>r, <3>1 DEF ActionRow, ActionPc
    <3>3. actionWorker[s].pc = "wait mint"
      BY <2>4 DEF MintHash, Hash, AtAction
    <3>4. Fits(row)
      BY <1>r, <2>q, <3>2, <3>3 DEF Fits
    <3> QED
      BY <1>l, <2>4, <3>1, <3>2, <3>4 DEF MintHash, Hash
  <2>5. ASSUME MintReceipt(s)
        PROVE  Good
    <3>1. PICK token : token = workflows[actionWorker[s].wf].token
      OBVIOUS
    <3>2. token \in Minted /\ token \in Nat
      BY <1>r, <2>5, <3>1 DEF MintReceipt, AtAction, Fits, ChainOK, Minted
    <3>3. PICK row : row = [actionWorker[s] EXCEPT !.pc = "member", !.token = token]
      OBVIOUS
    <3>4. /\ row \in ActionRow /\ row.batch = actionWorker[s].batch
          /\ row.item = actionWorker[s].item /\ row.pc = "member" /\ row.token = token
      BY <1>r, <3>2, <3>3 DEF ActionRow, ActionPc
    <3>5. Fits(row)
      BY <1>r, <2>q, <3>2, <3>4 DEF Fits
    <3> QED
      BY <1>l, <2>5, <3>1, <3>3, <3>4, <3>5 DEF MintReceipt
  <2>6. ASSUME MintItem(s)
        PROVE  Good
    <3>1. actionWorker[s].token \in Minted /\ actionWorker[s].token \in Nat
      BY <1>r, <2>6 DEF MintItem, AtAction, Fits, ActionRow
    <3>2. PICK item : item = [queue[i] EXCEPT !.token = actionWorker[s].token]
      OBVIOUS
    <3>3. /\ item \in ItemSet /\ item.type = queue[i].type /\ item.event = queue[i].event
          /\ item.token = actionWorker[s].token
      BY <2>t, <3>1, <3>2 DEF ItemSet
    <3>4. /\ queue' = [queue EXCEPT ![i] = item]
          /\ UNCHANGED <<membership, ownership, workflows, keys>>
      BY <2>6, <2>i, <3>2 DEF MintItem
    <3>5. TablesOK' /\ Grows
      BY <2>q, <3>1, <3>3, <3>4, ItemSet1 DEF WorkerTokens
    <3>6. PICK row : row = [actionWorker[s] EXCEPT !.pc = "done"]
      OBVIOUS
    <3>7. /\ row \in ActionRow /\ row.batch = actionWorker[s].batch
          /\ row.item = actionWorker[s].item /\ row.pc = "done"
      BY <1>r, <3>6 DEF ActionRow, ActionPc
    <3>8. Fits(row)
      BY <1>r, <2>q, <3>7 DEF Fits, MintPcs, MintType
    <3>9. ChainOK'
      BY <3>4 DEF ChainOK, Minted
    <3>10. ActionSays(s, row)
      BY <2>6, <3>6 DEF MintItem
    <3> QED
      BY <3>5, <3>7, <3>8, <3>9, <3>10, FitsStill, ActionSaysOK
  <2> QED
    BY <1>6, <2>1, <2>2, <2>3, <2>4, <2>5, <2>6 DEF RunMint
<1>7. ASSUME RunReward(s)
      PROVE  Good
  <2>0. /\ actionWorker[s].pc \in {RewardType, "submit reward", "wait reward"}
        /\ actionWorker[s].pc \notin {"idle", "round"}
    BY <1>7 DEF RunReward, RewardRead, RewardSubmit, RewardHash, Hash, AtAction, RewardType
  <2>i. PICK i : i = ItemOf(s)
    OBVIOUS
  <2>q. /\ i = actionWorker[s].item /\ i # 0 /\ i \in Nat /\ i \in DOMAIN queue
    BY <1>r, <2>0, <2>i DEF Fits, ItemOf, ActionRow
  <2>t. queue[i] \in ItemSet
    BY <2>q DEF TablesOK
  <2>1. ASSUME RewardRead(s)
        PROVE  Good
    <3>1. PICK token \in Resolved(i) :
            ActionSays(s, [actionWorker[s] EXCEPT !.pc = "submit reward", !.token = token,
                                                  !.keys = OneMore(token)])
      BY <2>1, <2>i DEF RewardRead
    <3>2. token \in Minted
      BY <2>q DEF Resolved, TablesOK, WorkerTokens
    <3>3. token \in Nat /\ OneMore(token) \in Nat
      BY <3>2 DEF OneMore, Minted, ChainOK
    <3>4. PICK row : row = [actionWorker[s] EXCEPT !.pc = "submit reward", !.token = token,
                                                   !.keys = OneMore(token)]
      OBVIOUS
    <3>5. /\ row \in ActionRow /\ row.batch = actionWorker[s].batch
          /\ row.item = actionWorker[s].item /\ row.pc = "submit reward" /\ row.token = token
      BY <1>r, <3>3, <3>4 DEF ActionRow, ActionPc
    <3>6. Fits(row)
      BY <1>r, <2>q, <3>2, <3>5 DEF Fits, MintPcs, MintType
    <3> QED
      BY <1>l, <2>1, <3>1, <3>4, <3>5, <3>6 DEF RewardRead
  <2>2. ASSUME RewardSubmit(s)
        PROVE  Good
    <3>1. PICK w : w = [type |-> TakenItem(s).type, item |-> i, token |-> actionWorker[s].token,
                        keys |-> actionWorker[s].keys, state |-> "sent"]
      OBVIOUS
    <3>2. w \in WorkflowSet /\ w.state = "sent"
      BY <1>r, <2>i, <2>q, <2>t, <3>1 DEF WorkflowSet, ActionRow, ItemSet, TakenItem
    <3>3. /\ workflows' = Append(workflows, w)
          /\ UNCHANGED <<queue, membership, ownership, keys>>
      BY <2>2, <2>i, <3>1 DEF RewardSubmit, Submit
    <3>4. ChainOK' /\ Grows /\ Len(workflows) + 1 \in Nat
      BY <3>2, <3>3, SubmitOK
    <3>5. PICK row : row = [actionWorker[s] EXCEPT !.pc = "wait reward",
                                                   !.wf = Len(workflows) + 1]
      OBVIOUS
    <3>6. /\ row \in ActionRow /\ row.batch = actionWorker[s].batch
          /\ row.item = actionWorker[s].item /\ row.pc = "wait reward"
      BY <1>r, <3>4, <3>5 DEF ActionRow, ActionPc
    <3>7. Fits(row)
      BY <1>r, <2>q, <3>6 DEF Fits, MintPcs, MintType
    <3>8. TablesOK'
      BY <3>3 DEF TablesOK, WorkerTokens, Minted
    <3>9. ActionSays(s, row)
      BY <2>2, <3>5 DEF RewardSubmit, Submit
    <3> QED
      BY <3>4, <3>6, <3>7, <3>8, <3>9, FitsStill, ActionSaysOK
  <2>3. ASSUME RewardHash(s)
        PROVE  Good
    <3>1. PICK row : row = [actionWorker[s] EXCEPT !.pc = "done"]
      OBVIOUS
    <3>2. /\ row \in ActionRow /\ row.batch = actionWorker[s].batch
          /\ row.item = actionWorker[s].item /\ row.pc = "done"
      BY <1>r, <3>1 DEF ActionRow, ActionPc
    <3>3. Fits(row)
      BY <1>r, <2>q, <3>2 DEF Fits, MintPcs, MintType
    <3> QED
      BY <1>l, <2>3, <3>1, <3>2, <3>3 DEF RewardHash, Hash
  <2> QED
    BY <1>7, <2>1, <2>2, <2>3 DEF RunReward
<1> QED
  BY <1>o, <1>c, <1>1, <1>2, <1>3, <1>4, <1>5, <1>6, <1>7 DEF RunActions

(* The loop over events adds items and otherwise leaves tables and chain.  *)
LEMMA EventTypes ==
  ASSUME QueueOK, NEW s \in Servers, HandleEvents(s)
  PROVE  /\ TablesOK' /\ Grows /\ EventsOK'
         /\ UNCHANGED <<route, membership, ownership, chain, actionWorker, failures, cuts, lost>>
<1> USE DEF QueueOK
<1>r. /\ eventWorker[s] \in EventRow
      /\ eventWorker[s].token \in WorkerTokens
      /\ eventWorker[s].pc \notin {"idle", "round"} => eventWorker[s].event \in Events
  BY DEF EventsOK
<1>n. NoToken \in WorkerTokens /\ NoToken \in Nat
  BY DEF WorkerTokens, NoToken
<1>o. UNCHANGED <<route, membership, ownership, chain, actionWorker, failures, cuts, lost>>
  BY DEF HandleEvents, EventRound, EventMark, EventRoundEnd, EventReject, EventThrow,
         EventSettle, EventLook, EnsureMint, EnsureReward, EnsureFind, EnsureCreate, EventClose,
         EventLocal, EventOther
<1>k. ASSUME UNCHANGED queue
      PROVE  TablesOK' /\ Grows
  BY <1>o, <1>k, UnchangedGrows DEF chain, TablesOK, WorkerTokens, Minted
<1>s. ASSUME NEW row \in EventRow, EventSays(s, row), row.token \in WorkerTokens,
             row.pc \notin {"idle", "round"} => row.event \in Events,
             event' \in [Events -> [status : {"none", "received", "processing", "processed",
                                              "ignored", "failed", "enqueued"},
                                    processed : BOOLEAN]]
      PROVE  EventsOK'
  <2>1. /\ eventWorker' \in [Servers -> EventRow]
        /\ eventWorker'[s] = row
        /\ \A t \in Servers \ {s} : eventWorker'[t] = eventWorker[t]
    BY <1>s DEF EventSays, EventsOK
  <2>2. WorkerTokens' = WorkerTokens /\ route' = route
    BY <1>o DEF chain, WorkerTokens, Minted
  <2> QED
    BY <1>s, <2>1, <2>2 DEF EventsOK
<1>l. event' = event => event' \in [Events -> [status : {"none", "received", "processing",
                                      "processed", "ignored", "failed", "enqueued"},
                                    processed : BOOLEAN]]
  BY DEF EventsOK
<1> DEFINE Good == TablesOK' /\ Grows /\ EventsOK'
<1>t. ASSUME NEW status \in {"ignored", "failed", "enqueued"}, EventSettle(s, status),
             eventWorker[s].event \in Events
      PROVE  Good
  <2>1. PICK row : row = [IdleEvents EXCEPT !.pc = "round", !.batch = eventWorker[s].batch]
    OBVIOUS
  <2>2. row \in EventRow /\ row.token = NoToken /\ row.pc = "round"
    BY <1>r, <1>n, <2>1 DEF IdleEvents, EventRow, EventPc
  <2>3. /\ event' = [event EXCEPT ![eventWorker[s].event] = [status |-> status, processed |-> TRUE]]
        /\ EventSays(s, row) /\ UNCHANGED queue
    BY <1>t, <2>1 DEF EventSettle
  <2>4. event' \in [Events -> [status : {"none", "received", "processing", "processed",
                                         "ignored", "failed", "enqueued"},
                               processed : BOOLEAN]]
    BY <1>t, <2>3 DEF EventsOK
  <2> QED
    BY <1>k, <1>n, <1>s, <2>2, <2>3, <2>4
<1>1. ASSUME EventRound(s)
      PROVE  Good
  <2>1. PICK row : row = [IdleEvents EXCEPT !.pc = "round", !.batch = {e \in Events : Open(e)}]
    OBVIOUS
  <2>2. row \in EventRow /\ row.token = NoToken /\ row.pc = "round"
    BY <1>n, <2>1 DEF IdleEvents, EventRow, EventPc
  <2> QED
    BY <1>1, <1>k, <1>l, <1>n, <1>s, <2>1, <2>2 DEF EventRound, EventLocal
<1>2. ASSUME NEW e \in Events, EventMark(s, e)
      PROVE  Good
  <2>1. PICK row : row = [eventWorker[s] EXCEPT !.pc = "handle", !.event = e, !.batch = @ \ {e}]
    OBVIOUS
  <2>2. row \in EventRow /\ row.token = eventWorker[s].token /\ row.event = e
    BY <1>r, <2>1 DEF EventRow, EventPc
  <2>3. /\ event' = [event EXCEPT ![e].status = "processing"]
        /\ EventSays(s, row) /\ UNCHANGED queue
    BY <1>2, <2>1 DEF EventMark
  <2>4. event' \in [Events -> [status : {"none", "received", "processing", "processed",
                                         "ignored", "failed", "enqueued"},
                               processed : BOOLEAN]]
    BY <2>3 DEF EventsOK
  <2> QED
    BY <1>k, <1>r, <1>s, <2>2, <2>3, <2>4
<1>3. ASSUME EventRoundEnd(s)
      PROVE  Good
  <2>1. IdleEvents \in EventRow /\ IdleEvents.token = NoToken /\ IdleEvents.pc = "idle"
    BY <1>n DEF IdleEvents, EventRow, EventPc
  <2> QED
    BY <1>3, <1>k, <1>l, <1>n, <1>s, <2>1 DEF EventRoundEnd, EventLocal
<1>4. ASSUME EventReject(s) \/ EventThrow(s) \/ EventClose(s)
      PROVE  Good
  <2>1. eventWorker[s].event \in Events
    BY <1>4, <1>r DEF EventReject, EventThrow, EventClose, AtEvent, EventRow
  <2>2. \E status \in {"ignored", "failed", "enqueued"} : EventSettle(s, status)
    BY <1>4 DEF EventReject, EventThrow, EventClose
  <2> QED
    BY <1>t, <2>1, <2>2
<1>5. ASSUME EventLook(s)
      PROVE  Good
  <2>1. PICK token \in IF ownership = {} THEN {NoToken} ELSE ownership :
          EventSays(s, [eventWorker[s] EXCEPT !.token = token,
                                              !.pc = IF token = NoToken THEN "mint" ELSE "reward"])
    BY <1>5 DEF EventLook
  <2>2. token \in WorkerTokens /\ token \in Nat
    BY <1>n, <2>1 DEF TablesOK, WorkerTokens, Minted, ChainOK
  <2>3. PICK pc \in {"mint", "reward"} : pc = IF token = NoToken THEN "mint" ELSE "reward"
    OBVIOUS
  <2>4. PICK row : row = [eventWorker[s] EXCEPT !.token = token, !.pc = pc]
    OBVIOUS
  <2>5. row \in EventRow /\ row.token = token /\ row.event = eventWorker[s].event
    BY <1>r, <2>2, <2>4 DEF EventRow, EventPc
  <2>6. eventWorker[s].event \in Events
    BY <1>5, <1>r DEF EventLook, AtEvent
  <2> QED
    BY <1>5, <1>k, <1>l, <1>s, <2>1, <2>2, <2>3, <2>4, <2>5, <2>6 DEF EventLook, EventLocal
<1>6. ASSUME NEW to \in EventPc, eventWorker[s].event \in Events, EventLocal,
             eventWorker' = [eventWorker EXCEPT ![s] = [eventWorker[s] EXCEPT !.pc = to]]
      PROVE  Good
  <2>1. PICK row : row = [eventWorker[s] EXCEPT !.pc = to]
    OBVIOUS
  <2>2. /\ row \in EventRow /\ row.token = eventWorker[s].token
        /\ row.event = eventWorker[s].event
    BY <1>r, <2>1 DEF EventRow
  <2>3. EventSays(s, row)
    BY <1>6, <2>1 DEF EventSays
  <2> QED
    BY <1>6, <1>k, <1>l, <1>r, <1>s, <2>2, <2>3 DEF EventLocal
<1>7. ASSUME NEW item \in ItemSet, NEW next \in EventPc, item.token \in WorkerTokens,
             eventWorker[s].event \in Events,
             queue' = Append(queue, item), event' = event, EventOther,
             eventWorker' = [eventWorker EXCEPT ![s] = [eventWorker[s] EXCEPT !.pc = next]]
      PROVE  Good
  <2>1. /\ queue' \in Seq(ItemSet)
        /\ DOMAIN queue' = DOMAIN queue \cup {Len(queue) + 1}
        /\ queue'[Len(queue) + 1] = item
        /\ \A j \in DOMAIN queue : queue'[j] = queue[j]
    BY <1>7, AddElement DEF TablesOK
  <2>2. TablesOK' /\ Grows
    BY <1>7, <1>o, <2>1 DEF chain, TablesOK, Grows, WorkerTokens, Minted
  <2>3. PICK row : row = [eventWorker[s] EXCEPT !.pc = next]
    OBVIOUS
  <2>4. /\ row \in EventRow /\ row.token = eventWorker[s].token
        /\ row.event = eventWorker[s].event
    BY <1>r, <2>3 DEF EventRow
  <2>5. EventSays(s, row)
    BY <1>7, <2>3 DEF EventSays
  <2> QED
    BY <1>7, <1>l, <1>r, <1>s, <2>2, <2>4, <2>5
<1>8. ASSUME EnsureMint(s) \/ EnsureReward(s)
      PROVE  Good
  <2>1. {"mint", "create mint", "reward", "create reward", "close"} \subseteq EventPc
    BY DEF EventPc
  <2>2. eventWorker[s].event \in Events
    BY <1>8, <1>r DEF EnsureMint, EnsureReward, EnsureFind, EnsureCreate, AtEvent
  <2>3. CASE \/ EnsureFind(s, "mint", MintType, "create mint", "reward")
             \/ EnsureFind(s, "reward", RewardType, "create reward", "close")
    <3>1. PICK to \in EventPc : EventSays(s, [eventWorker[s] EXCEPT !.pc = to])
      BY <2>1, <2>3 DEF EnsureFind
    <3>2. EventLocal
      BY <2>3 DEF EnsureFind
    <3> QED
      BY <1>6, <2>2, <3>1, <3>2 DEF EventSays
  <2>4. CASE \/ EnsureCreate(s, "create mint", MintType, NoToken, "reward")
             \/ EnsureCreate(s, "create reward", RewardType, eventWorker[s].token, "close")
    <3>1. /\ NoToken \in WorkerTokens /\ NoToken \in Nat
          /\ eventWorker[s].token \in WorkerTokens /\ eventWorker[s].token \in Nat
      BY <1>n, <1>r DEF EventRow, WorkerTokens
    <3>2. PICK type \in {MintType, RewardType}, token \in WorkerTokens, next \in EventPc :
            /\ token \in Nat
            /\ queue' = Append(queue, NewItem(type, eventWorker[s].event, token))
            /\ EventSays(s, [eventWorker[s] EXCEPT !.pc = next])
      BY <2>1, <2>4, <3>1 DEF EnsureCreate
    <3>3. PICK item : item = NewItem(type, eventWorker[s].event, token)
      OBVIOUS
    <3>4. item \in ItemSet /\ item.token = token
      BY <2>2, <3>2, <3>3 DEF NewItem, ItemSet
    <3>5. event' = event /\ EventOther
      BY <2>4 DEF EnsureCreate
    <3> QED
      BY <1>7, <2>2, <3>2, <3>3, <3>4, <3>5 DEF EventSays
  <2> QED
    BY <1>8, <2>3, <2>4 DEF EnsureMint, EnsureReward
<1> QED
  BY <1>o, <1>1, <1>2, <1>3, <1>4, <1>5, <1>8 DEF HandleEvents

(* A transaction is mined: the token of a mint is on chain from then on.   *)
LEMMA MineTypes ==
  ASSUME QueueOK, NEW w \in DOMAIN workflows, Mine(w)
  PROVE  TablesOK' /\ ChainOK' /\ Grows
<1> USE DEF QueueOK
<1>1. workflows[w] \in WorkflowSet
  BY DEF ChainOK
<1>2. Len(keys) + 1 \in Nat
  BY DEF ChainOK
<1>3. PICK token \in Nat :
        /\ workflows' = [workflows EXCEPT ![w].state = "mined", ![w].token = token]
        /\ workflows[w].type = MintType => token = Len(keys) + 1
        /\ workflows[w].type = MintType => keys' = Append(keys, 0)
        /\ workflows[w].type # MintType =>
             keys' = [keys EXCEPT ![workflows[w].token] = workflows[w].keys]
  <2>1. CASE workflows[w].type = MintType
    BY <1>2, <2>1 DEF Mine
  <2>2. CASE workflows[w].type # MintType
    <3>1. workflows' = [workflows EXCEPT ![w].state = "mined"]
          /\ keys' = [keys EXCEPT ![workflows[w].token] = workflows[w].keys]
      BY <2>2 DEF Mine
    <3>2. [workflows[w] EXCEPT !.state = "mined"]
            = [workflows[w] EXCEPT !.state = "mined", !.token = workflows[w].token]
      BY <1>1 DEF WorkflowSet
    <3>3. workflows' = [workflows EXCEPT ![w].state = "mined", ![w].token = workflows[w].token]
      BY <3>1, <3>2
    <3>4. workflows[w].token \in Nat
      BY <1>1 DEF WorkflowSet
    <3> QED
      BY <2>2, <3>1, <3>3, <3>4
  <2> QED
    BY <2>1, <2>2
<1>4. PICK wf : wf = [workflows[w] EXCEPT !.state = "mined", !.token = token]
  OBVIOUS
<1>5. wf \in WorkflowSet /\ wf.type = workflows[w].type /\ wf.token = token
  <2>1. token \in Nat
    BY <1>3
  <2> QED
    BY <1>1, <1>4, <2>1 DEF WorkflowSet
<1>6. /\ workflows' \in Seq(WorkflowSet)
      /\ DOMAIN workflows' = DOMAIN workflows
      /\ workflows'[w] = wf
      /\ \A j \in DOMAIN workflows \ {w} : workflows'[j] = workflows[j]
  <2>1. workflows' = [workflows EXCEPT ![w] = wf]
    BY <1>3, <1>4
  <2> QED
    BY <1>5, <2>1, SetElement DEF ChainOK
<1>7. /\ keys' \in Seq(Nat)
      /\ Minted \subseteq Minted'
      /\ workflows[w].type = MintType => token \in Minted'
  <2>1. CASE workflows[w].type = MintType
    <3>1. keys' = Append(keys, 0) /\ token = Len(keys) + 1 /\ keys \in Seq(Nat) /\ 0 \in Nat
      BY <1>3, <2>1 DEF ChainOK
    <3>2. keys' \in Seq(Nat) /\ DOMAIN keys' = DOMAIN keys \cup {Len(keys) + 1}
      BY <3>1, AddElement
    <3> QED
      BY <3>1, <3>2 DEF Minted
  <2>2. CASE workflows[w].type # MintType
    <3>1. keys' = [keys EXCEPT ![workflows[w].token] = workflows[w].keys]
          /\ workflows[w].keys \in Nat
      BY <1>1, <1>3, <2>2 DEF WorkflowSet
    <3>2. CASE workflows[w].token \in DOMAIN keys
      BY <2>2, <3>1, <3>2, SetElement DEF ChainOK, Minted
    <3>3. CASE workflows[w].token \notin DOMAIN keys
      <4>1. keys' = keys
        BY <3>1, <3>3 DEF ChainOK
      <4> QED
        BY <2>2, <4>1 DEF ChainOK, Minted
    <3> QED
      BY <3>2, <3>3
  <2> QED
    BY <2>1, <2>2
<1>8. UNCHANGED rows
  BY DEF Mine, OutsideOther
<1>9. Grows
  BY <1>5, <1>6, <1>7, <1>8 DEF Grows, rows
<1>10. TablesOK'
  BY <1>7, <1>8 DEF TablesOK, rows, WorkerTokens
<1>11. ChainOK'
  BY <1>5, <1>6, <1>7 DEF ChainOK
<1> QED
  BY <1>9, <1>10, <1>11

LEMMA QueueInvariant == Spec => []QueueOK
<1>1. Init => QueueOK
  <2> SUFFICES ASSUME Init
               PROVE  QueueOK
    OBVIOUS
  <2>1. TablesOK /\ ChainOK
    BY DEF Init, TablesOK, ChainOK, WorkerTokens, Minted, NoToken
  <2>2. EventsOK
    <3>1. IdleEvents \in EventRow /\ IdleEvents.token = NoToken /\ IdleEvents.pc = "idle"
      BY DEF IdleEvents, EventRow, EventPc, NoToken
    <3> QED
      BY <3>1 DEF Init, EventsOK, WorkerTokens
  <2>3. ActionsOK
    BY IdleFits DEF Init, ActionsOK
  <2>4. CountsOK
    BY QueueAssumption DEF Init, CountsOK, Trouble
  <2>5. decodes \in BOOLEAN
    BY DEF Init
  <2> QED
    BY <2>1, <2>2, <2>3, <2>4, <2>5 DEF QueueOK
<1>2. QueueOK /\ [Next]_vars => QueueOK' /\ Grows
  <2> SUFFICES ASSUME QueueOK, [Next]_vars
               PROVE  QueueOK' /\ Grows
    OBVIOUS
  <2> USE DEF QueueOK
  <2>g. Grows => WorkerTokens \subseteq WorkerTokens'
    BY DEF Grows, WorkerTokens
  <2>e. Grows /\ UNCHANGED <<event, route, eventWorker>> => EventsOK'
    BY <2>g DEF EventsOK
  <2>1. CASE \E e \in Events : Deliver(e) \/ Route(e)
    <3>1. /\ UNCHANGED <<queue, membership, ownership, chain, eventWorker, actionWorker,
                         failures, cuts, lost>>
      BY <2>1 DEF Deliver, Route, RouteIgnore, RouteCredit, RouteOther
    <3>2. Grows /\ TablesOK' /\ ChainOK'
      BY <3>1, UnchangedGrows DEF chain, TablesOK, ChainOK, WorkerTokens, Minted
    <3>3. /\ event' \in [Events -> [status : {"none", "received", "processing", "processed",
                                              "ignored", "failed", "enqueued"},
                                    processed : BOOLEAN]]
          /\ route' \in [Events -> {"idle", "received", "done"}]
      <4>1. PICK e \in Events : Deliver(e) \/ RouteIgnore(e) \/ RouteCredit(e)
        BY <2>1 DEF Route
      <4>2. CASE Deliver(e)
        BY <4>2 DEF Deliver, EventsOK
      <4>3. CASE RouteIgnore(e)
        BY <4>3 DEF RouteIgnore, EventsOK
      <4>4. CASE RouteCredit(e)
        BY <4>4 DEF RouteCredit, EventsOK
      <4> QED
        BY <4>1, <4>2, <4>3, <4>4
    <3>4. EventsOK'
      BY <2>g, <3>1, <3>2, <3>3 DEF EventsOK
    <3>5. ActionsOK'
      BY <3>1, <3>2, ActionsKept
    <3> QED
      BY <3>1, <3>2, <3>4, <3>5 DEF CountsOK, Trouble, chain
  <2>2. ASSUME NEW s \in Servers, HandleEvents(s)
        PROVE  QueueOK' /\ Grows
    <3>1. /\ TablesOK' /\ Grows /\ EventsOK'
          /\ UNCHANGED <<chain, actionWorker, failures, cuts, lost>>
      BY <2>2, EventTypes
    <3> QED
      BY <3>1, ActionsKept DEF chain, ChainOK, Minted, CountsOK, Trouble
  <2>3. ASSUME NEW s \in Servers, RunActions(s)
        PROVE  QueueOK' /\ Grows
    BY <2>3, <2>e, ActionTypes
  <2>4. ASSUME NEW s \in Servers, Cut(s)
        PROVE  QueueOK' /\ Grows
    <3>1. UNCHANGED <<chain, rows, route, failures>>
      BY <2>4, CutEffects
    <3>2. Grows /\ TablesOK' /\ ChainOK'
      BY <3>1, UnchangedGrows DEF chain, rows, TablesOK, ChainOK, WorkerTokens, Minted
    <3>3. CountsOK'
      BY <2>4, QueueAssumption DEF Cut, Stop, BreakItems, BreakEvents, CountsOK, Trouble
    <3>4. EventsOK'
      <4>1. IdleEvents \in EventRow /\ IdleEvents.token = NoToken /\ IdleEvents.pc = "idle"
        BY DEF IdleEvents, EventRow, EventPc, NoToken
      <4>2. /\ eventWorker' \in [Servers -> EventRow]
            /\ \A t \in Servers : eventWorker'[t] \in {eventWorker[t], IdleEvents}
        BY <2>4, <4>1, CutEffects DEF EventsOK
      <4>3. NoToken \in WorkerTokens'
        BY DEF WorkerTokens
      <4> QED
        BY <2>g, <3>1, <3>2, <4>1, <4>2, <4>3 DEF EventsOK, rows
    <3>5. ActionsOK'
      <4>1. CASE actionWorker' = actionWorker
        BY <3>1, <3>2, <4>1, ActionsKept
      <4>2. CASE ActionSays(s, IdleActions)
        <5>1. Fits(IdleActions)'
          BY <3>2, IdleFits, FitsStill
        <5> QED
          BY <3>2, <4>2, <5>1, IdleFits, ActionSaysOK
      <4> QED
        BY <2>4, <4>1, <4>2, CutEffects DEF ActionSays
    <3> QED
      BY <3>1, <3>2, <3>3, <3>4, <3>5 DEF chain
  <2>5. ASSUME NEW w \in DOMAIN workflows, Mine(w)
        PROVE  QueueOK' /\ Grows
    <3>1. TablesOK' /\ ChainOK' /\ Grows
      BY <2>5, MineTypes
    <3>2. UNCHANGED <<decodes, rows, route, eventWorker, actionWorker, failures, cuts, lost>>
      BY <2>5 DEF Mine, OutsideOther
    <3> QED
      BY <2>e, <3>1, <3>2, ActionsKept DEF rows, CountsOK, Trouble
  <2>6. CASE UNCHANGED vars
    <3>1. UNCHANGED <<rows, chain, route, eventWorker, actionWorker, failures, cuts, lost>>
      BY <2>6 DEF vars
    <3>2. Grows /\ TablesOK' /\ ChainOK'
      BY <3>1, UnchangedGrows DEF chain, rows, TablesOK, ChainOK, WorkerTokens, Minted
    <3> QED
      BY <2>e, <3>1, <3>2, ActionsKept DEF rows, chain, CountsOK, Trouble
  <2> QED
    BY <2>1, <2>2, <2>3, <2>4, <2>5, <2>6 DEF Next
<1> QED
  BY <1>1, <1>2, PTL DEF Spec

(* The types of the rows and of what the loops hold.                       *)
THEOREM QueueTypeCorrect == Spec => []TypeOK
<1>1. QueueOK => TypeOK
  <2> SUFFICES ASSUME QueueOK
               PROVE  TypeOK
    OBVIOUS
  <2> USE DEF QueueOK
  <2>1. membership \in Nat /\ ownership \subseteq Nat
    BY DEF TablesOK, ChainOK, WorkerTokens, Minted, NoToken
  <2>2. failures \in 0..MaxTrouble /\ cuts \in 0..MaxCuts /\ lost \in 0..MaxCuts
    BY QueueAssumption DEF CountsOK, Trouble
  <2> QED
    BY <2>1, <2>2 DEF TypeOK, TablesOK, ChainOK, EventsOK, ActionsOK, EventRow, ActionRow
<1> QED
  BY <1>1, QueueInvariant, PTL

(* No table and no item names a token before the chain has it, although    *)
(* the poll that leads to it does not wait for a block.                    *)
THEOREM TokensRealAlways == Spec => []TokensReal
<1>1. QueueOK => TokensReal
  BY DEF QueueOK, TablesOK, TokensReal, WorkerTokens
<1> QED
  BY <1>1, QueueInvariant, PTL
-----------------------------------------------------------------------------
(* What an event's handler has queued when it gets to a place.             *)
Prepared(row) ==
  /\ row.pc = "close" => Queued(RewardType, row.event)
  /\ row.pc \in {"reward", "create reward"} /\ row.token = NoToken => Queued(MintType, row.event)

OrderOK == EnqueuedIsQueued /\ MintFirst /\ \A s \in Servers : Prepared(eventWorker[s])

(* Items stay, and a reward with a token keeps it.                         *)
ItemsStay ==
  \A i \in DOMAIN queue :
    /\ i \in (DOMAIN queue)'
    /\ queue'[i].type = queue[i].type
    /\ queue'[i].event = queue[i].event
    /\ queue[i].type = RewardType => queue'[i].token = queue[i].token

LEMMA ReplacedStays ==
  ASSUME queue \in Seq(ItemSet), NEW i \in DOMAIN queue, NEW item \in ItemSet,
         queue' = [queue EXCEPT ![i] = item],
         item.type = queue[i].type, item.event = queue[i].event,
         queue[i].type = RewardType => item.token = queue[i].token
  PROVE  ItemsStay /\ DOMAIN queue' = DOMAIN queue
<1>1. /\ DOMAIN queue' = DOMAIN queue
      /\ queue'[i] = item
      /\ \A j \in DOMAIN queue \ {i} : queue'[j] = queue[j]
  BY SetElement
<1> QED
  BY <1>1 DEF ItemsStay

LEMMA QueuedStays ==
  ASSUME ItemsStay, NEW type, NEW e, Queued(type, e)
  PROVE  Queued(type, e)'
BY DEF ItemsStay, Queued

LEMMA PreparedStays ==
  ASSUME ItemsStay, NEW row, Prepared(row)
  PROVE  Prepared(row)'
<1>1. row.pc = "close" => Queued(RewardType, row.event)'
  BY QueuedStays DEF Prepared
<1>2. row.pc \in {"reward", "create reward"} /\ row.token = NoToken => Queued(MintType, row.event)'
  BY QueuedStays DEF Prepared
<1> QED
  BY <1>1, <1>2 DEF Prepared

(* Steps that add no item leave mints before rewards.                      *)
LEMMA MintFirstStays ==
  ASSUME queue \in Seq(ItemSet), ItemsStay, (DOMAIN queue)' = DOMAIN queue, MintFirst
  PROVE  MintFirst'
<1> SUFFICES ASSUME NEW i \in (DOMAIN queue)', queue'[i].type = RewardType, queue'[i].token = NoToken
             PROVE  \E j \in 1..(i - 1) : queue'[j].type = MintType /\ queue'[j].event = queue'[i].event
  BY DEF MintFirst
<1>1. i \in DOMAIN queue /\ queue[i].type = RewardType /\ queue[i].token = NoToken
  BY DEF ItemsStay
<1>2. PICK j \in 1..(i - 1) : queue[j].type = MintType /\ queue[j].event = queue[i].event
  BY <1>1 DEF MintFirst
<1>3. j \in DOMAIN queue
  BY <1>1, <1>2
<1> QED
  BY <1>1, <1>2, <1>3 DEF ItemsStay

(* The loop over items adds none, and gives tokens to mints only.          *)
LEMMA ActionsKeepItems ==
  ASSUME QueueOK, NEW s \in Servers, RunActions(s)
  PROVE  ItemsStay /\ (DOMAIN queue)' = DOMAIN queue
<1> DEFINE Good == ItemsStay /\ (DOMAIN queue)' = DOMAIN queue
<1>r. Fits(actionWorker[s]) /\ actionWorker[s] \in ActionRow
  BY DEF QueueOK, ActionsOK
<1>q. queue \in Seq(ItemSet) /\ membership \in Nat
  BY DEF QueueOK, TablesOK, ChainOK, WorkerTokens, Minted, NoToken
<1>u. queue' = queue => Good
  BY DEF ItemsStay
<1>1. CASE TakeItem(s)
  <2>1. PICK b \in Next1(s) :
          queue' = [queue EXCEPT ![b[1]].status = "RUNNING", ![b[1]].attempts = @ + 1]
    BY <1>1 DEF TakeItem
  <2>2. PICK i : i = b[1]
    OBVIOUS
  <2>3. i \in DOMAIN queue
    BY <1>r, <2>2 DEF Next1, Fits
  <2>4. PICK item : item = [queue[i] EXCEPT !.status = "RUNNING", !.attempts = @ + 1]
    OBVIOUS
  <2>5. queue[i] \in ItemSet
    BY <1>q, <2>3
  <2>6. queue[i].attempts + 1 \in Nat
    BY <2>5 DEF ItemSet
  <2>7. /\ item \in ItemSet /\ item.type = queue[i].type /\ item.event = queue[i].event
        /\ item.token = queue[i].token
    BY <2>4, <2>5, <2>6 DEF ItemSet
  <2>8. queue' = [queue EXCEPT ![i] = item]
    BY <2>1, <2>2, <2>4
  <2> QED
    BY <1>q, <2>3, <2>7, <2>8, ReplacedStays
<1>2. CASE Succeed(s) \/ ActionThrow(s)
  <2>1. PICK i : i = ItemOf(s)
    OBVIOUS
  <2>2. i \in DOMAIN queue
    BY <1>2, <1>r, <2>1 DEF Succeed, ActionThrow, ItemOf, AtAction, Fits
  <2>3. PICK status \in {"SUCCEEDED", "FAILED"} : queue' = [queue EXCEPT ![i].status = status]
    BY <1>2, <2>1 DEF Succeed, ActionThrow, ItemSettle
  <2>4. PICK item : item = [queue[i] EXCEPT !.status = status]
    OBVIOUS
  <2>5. queue[i] \in ItemSet
    BY <1>q, <2>2
  <2>6. /\ item \in ItemSet /\ item.type = queue[i].type /\ item.event = queue[i].event
        /\ item.token = queue[i].token
    BY <2>4, <2>5 DEF ItemSet
  <2>7. queue' = [queue EXCEPT ![i] = item]
    BY <2>3, <2>4
  <2> QED
    BY <1>q, <2>2, <2>6, <2>7, ReplacedStays
<1>3. CASE MintKnown(s) \/ MintItem(s)
  <2>1. PICK i : i = ItemOf(s)
    OBVIOUS
  <2>2. i \in DOMAIN queue /\ queue[i].type = MintType
    BY <1>3, <1>r, <2>1 DEF MintKnown, MintItem, ItemOf, AtAction, Fits, MintPcs, MintType
  <2>3. PICK token \in Nat : queue' = [queue EXCEPT ![i].token = token]
    BY <1>3, <1>q, <1>r, <2>1 DEF MintKnown, MintItem, ActionRow
  <2>4. PICK item : item = [queue[i] EXCEPT !.token = token]
    OBVIOUS
  <2>5. queue[i] \in ItemSet
    BY <1>q, <2>2
  <2>6. item \in ItemSet /\ item.type = queue[i].type /\ item.event = queue[i].event
    BY <2>3, <2>4, <2>5 DEF ItemSet
  <2>7. queue' = [queue EXCEPT ![i] = item]
    BY <2>3, <2>4
  <2>8. queue[i].type # RewardType
    BY <2>2 DEF MintType, RewardType
  <2> QED
    BY <1>q, <2>2, <2>6, <2>7, <2>8, ReplacedStays
<1>4. CASE \/ ActionRound(s) \/ SkipItem(s) \/ ActionRoundEnd(s) \/ RunReward(s)
           \/ OwnKnown(s) \/ MintSubmit(s) \/ MintHash(s) \/ MintReceipt(s)
           \/ MintMember(s) \/ MintOwn(s)
  BY <1>4, <1>u DEF ActionRound, SkipItem, ActionRoundEnd, RunReward, RewardRead, RewardSubmit,
                    RewardHash, OwnKnown, MintSubmit, MintHash, MintReceipt, MintMember, MintOwn,
                    Hash, ActionLocal
<1> QED
  BY <1>1, <1>2, <1>3, <1>4 DEF RunActions, RunMint

(* Between two steps of the loop over events.                              *)
LEMMA EventsKeepOrder ==
  ASSUME QueueOK, OrderOK, NEW s \in Servers, HandleEvents(s)
  PROVE  OrderOK'
<1>q. queue \in Seq(ItemSet)
  BY DEF QueueOK, TablesOK
<1>r. /\ eventWorker \in [Servers -> EventRow] /\ eventWorker[s] \in EventRow
      /\ eventWorker[s].pc \notin {"idle", "round"} => eventWorker[s].event \in Events
  BY DEF QueueOK, EventsOK
<1>p. \A t \in Servers : Prepared(eventWorker[t])
  BY DEF OrderOK
<1>u. queue' = queue => ItemsStay /\ MintFirst'
  BY DEF ItemsStay, OrderOK, MintFirst
\* Only the row of s changes, and what it says was prepared.
<1>s. ASSUME NEW row, EventSays(s, row), ItemsStay, Prepared(row)'
      PROVE  \A t \in Servers : Prepared(eventWorker[t])'
  <2> TAKE t \in Servers
  <2>1. PICK now : now = eventWorker'[t]
    OBVIOUS
  <2>2. PICK old : old = eventWorker[t]
    OBVIOUS
  <2>3. now = row \/ now = old
    BY <1>r, <1>s, <2>1, <2>2 DEF EventSays
  <2>4. Prepared(old)
    BY <1>p, <2>2
  <2>5. Prepared(now)'
    BY <1>s, <2>3, <2>4, PreparedStays
  <2> QED
    BY <2>1, <2>5 DEF Prepared, Queued
<1>t. ASSUME NEW row, EventSays(s, row), UNCHANGED queue, Prepared(row),
             \A e \in Events : event'[e].status = "enqueued" =>
               event[e].status = "enqueued" \/ Queued(RewardType, e)
      PROVE  OrderOK'
  <2>1. Prepared(row)'
    BY <1>t, <1>u, PreparedStays
  <2>2. EnqueuedIsQueued'
    BY <1>t DEF OrderOK, EnqueuedIsQueued, Queued
  <2> QED
    BY <1>s, <1>t, <1>u, <2>1, <2>2 DEF OrderOK
<1>i. \A batch : /\ Prepared([IdleEvents EXCEPT !.pc = "round", !.batch = batch])
                 /\ Prepared(IdleEvents)
  BY DEF IdleEvents, Prepared
<1>1. CASE EventRound(s) \/ EventRoundEnd(s)
  <2>1. PICK row : EventSays(s, row) /\ Prepared(row)
    BY <1>1, <1>i DEF EventRound, EventRoundEnd
  <2>2. UNCHANGED <<queue, event>>
    BY <1>1 DEF EventRound, EventRoundEnd, EventLocal
  <2> QED
    BY <1>t, <2>1, <2>2
<1>2. CASE \E e \in Events : EventMark(s, e)
  <2>1. PICK e \in Events : EventMark(s, e)
    BY <1>2
  <2>2. PICK row : row = [eventWorker[s] EXCEPT !.pc = "handle", !.event = e, !.batch = @ \ {e}]
    OBVIOUS
  <2>3. Prepared(row)
    BY <1>r, <2>2 DEF Prepared, EventRow
  <2>4. \A x \in Events : event'[x].status = "enqueued" => event[x].status = "enqueued"
    BY <2>1 DEF EventMark, QueueOK, EventsOK
  <2> QED
    BY <1>t, <2>1, <2>2, <2>3, <2>4 DEF EventMark
<1>3. CASE EventReject(s) \/ EventThrow(s) \/ EventClose(s)
  <2>1. PICK status \in {"ignored", "failed", "enqueued"} :
          /\ EventSettle(s, status)
          /\ status = "enqueued" => AtEvent(s, "close")
    BY <1>3 DEF EventReject, EventThrow, EventClose
  <2>2. PICK e : e = eventWorker[s].event
    OBVIOUS
  <2>3. event' = [event EXCEPT ![e] = [status |-> status, processed |-> TRUE]]
    BY <2>1, <2>2 DEF EventSettle
  <2>4. status = "enqueued" => Queued(RewardType, e)
    BY <1>p, <2>1, <2>2 DEF AtEvent, Prepared
  <2>5. \A x \in Events : event'[x].status = "enqueued" =>
          event[x].status = "enqueued" \/ Queued(RewardType, x)
    <3> TAKE x \in Events
    <3>1. event \in [Events -> [status : {"none", "received", "processing", "processed", "ignored",
                                          "failed", "enqueued"}, processed : BOOLEAN]]
      BY DEF QueueOK, EventsOK
    <3>2. CASE x = e
      BY <2>3, <2>4, <3>1, <3>2
    <3>3. CASE x # e
      BY <2>3, <3>1, <3>3
    <3> QED
      BY <3>2, <3>3
  <2>6. /\ EventSays(s, [IdleEvents EXCEPT !.pc = "round", !.batch = eventWorker[s].batch])
        /\ UNCHANGED queue
    BY <2>1 DEF EventSettle
  <2> QED
    BY <1>i, <1>t, <2>5, <2>6
<1>4. CASE EventLook(s)
  <2>1. PICK token :
          EventSays(s, [eventWorker[s] EXCEPT !.token = token,
                                              !.pc = IF token = NoToken THEN "mint" ELSE "reward"])
    BY <1>4 DEF EventLook
  <2>2. PICK pc : pc = IF token = NoToken THEN "mint" ELSE "reward"
    OBVIOUS
  <2>3. PICK row : row = [eventWorker[s] EXCEPT !.token = token, !.pc = pc]
    OBVIOUS
  <2>4. Prepared(row)
    BY <1>r, <2>2, <2>3 DEF Prepared, EventRow
  <2>5. EventSays(s, row)
    BY <2>1, <2>2, <2>3
  <2>6. UNCHANGED <<queue, event>>
    BY <1>4 DEF EventLook, EventLocal
  <2> QED
    BY <1>t, <2>4, <2>5, <2>6
<1>5. CASE \/ EnsureFind(s, "mint", MintType, "create mint", "reward")
           \/ EnsureFind(s, "reward", RewardType, "create reward", "close")
  <2>1. PICK e : e = eventWorker[s].event
    OBVIOUS
  <2>2. PICK to :
          /\ EventSays(s, [eventWorker[s] EXCEPT !.pc = to])
          /\ to = "close" => Queued(RewardType, e)
          /\ to = "reward" => Queued(MintType, e)
          /\ to = "create reward" => AtEvent(s, "reward")
    <3>1. CASE EnsureFind(s, "mint", MintType, "create mint", "reward")
      <4>1. PICK to : to = IF Queued(MintType, e) THEN "reward" ELSE "create mint"
        OBVIOUS
      <4>2. EventSays(s, [eventWorker[s] EXCEPT !.pc = to])
        BY <2>1, <3>1, <4>1 DEF EnsureFind
      <4>3. AtEvent(s, "mint")
        BY <3>1 DEF EnsureFind
      <4>4. /\ to = "close" => Queued(RewardType, e)
            /\ to = "reward" => Queued(MintType, e)
            /\ to = "create reward" => AtEvent(s, "reward")
        BY <4>1, <4>3
      <4> QED
        BY <4>2, <4>4
    <3>2. CASE EnsureFind(s, "reward", RewardType, "create reward", "close")
      <4>1. PICK to : to = IF Queued(RewardType, e) THEN "close" ELSE "create reward"
        OBVIOUS
      <4>2. EventSays(s, [eventWorker[s] EXCEPT !.pc = to])
        BY <2>1, <3>2, <4>1 DEF EnsureFind
      <4>3. AtEvent(s, "reward")
        BY <3>2 DEF EnsureFind
      <4>4. /\ to = "close" => Queued(RewardType, e)
            /\ to = "reward" => Queued(MintType, e)
            /\ to = "create reward" => AtEvent(s, "reward")
        BY <4>1, <4>3
      <4> QED
        BY <4>2, <4>4
    <3> QED
      BY <1>5, <3>1, <3>2
  <2>3. PICK row : row = [eventWorker[s] EXCEPT !.pc = to]
    OBVIOUS
  <2>4. row.pc = to /\ row.event = e /\ row.token = eventWorker[s].token
    BY <1>r, <2>1, <2>3 DEF EventRow
  <2>5. AtEvent(s, "reward") /\ eventWorker[s].token = NoToken => Queued(MintType, e)
    BY <1>p, <2>1 DEF AtEvent, Prepared
  <2>6. Prepared(row)
    BY <2>2, <2>4, <2>5 DEF Prepared
  <2>7. UNCHANGED <<queue, event>>
    BY <1>5 DEF EnsureFind, EventLocal
  <2> QED
    BY <1>t, <2>2, <2>3, <2>6, <2>7
<1>6. CASE \/ EnsureCreate(s, "create mint", MintType, NoToken, "reward")
           \/ EnsureCreate(s, "create reward", RewardType, eventWorker[s].token, "close")
  <2>1. PICK e : e = eventWorker[s].event
    OBVIOUS
  <2>2. e \in Events /\ eventWorker[s].token \in Nat
    BY <1>6, <1>r, <2>1 DEF EnsureCreate, AtEvent, EventRow
  <2>3. PICK item, next :
          /\ item \in ItemSet /\ item.event = e
          /\ queue' = Append(queue, item)
          /\ EventSays(s, [eventWorker[s] EXCEPT !.pc = next])
          /\ \/ item.type = MintType /\ next = "reward"
             \/ /\ item.type = RewardType /\ next = "close"
                /\ item.token = NoToken => Queued(MintType, e)
    <3>1. CASE EnsureCreate(s, "create mint", MintType, NoToken, "reward")
      <4>1. PICK item : item = NewItem(MintType, e, NoToken)
        OBVIOUS
      <4>2. item \in ItemSet /\ item.event = e /\ item.type = MintType
        BY <2>2, <4>1 DEF NewItem, ItemSet, NoToken
      <4>3. /\ queue' = Append(queue, item)
            /\ EventSays(s, [eventWorker[s] EXCEPT !.pc = "reward"])
        BY <2>1, <3>1, <4>1 DEF EnsureCreate
      <4> QED
        BY <4>2, <4>3
    <3>2. CASE EnsureCreate(s, "create reward", RewardType, eventWorker[s].token, "close")
      <4>1. PICK token : token = eventWorker[s].token
        OBVIOUS
      <4>2. PICK item : item = NewItem(RewardType, e, token)
        OBVIOUS
      <4>3. item \in ItemSet /\ item.event = e /\ item.type = RewardType /\ item.token = token
        BY <2>2, <4>1, <4>2 DEF NewItem, ItemSet
      <4>4. token = NoToken => Queued(MintType, e)
        BY <1>p, <2>1, <3>2, <4>1 DEF EnsureCreate, AtEvent, Prepared
      <4>5. /\ queue' = Append(queue, item)
            /\ EventSays(s, [eventWorker[s] EXCEPT !.pc = "close"])
        BY <2>1, <3>2, <4>1, <4>2 DEF EnsureCreate
      <4> QED
        BY <4>3, <4>4, <4>5
    <3> QED
      BY <1>6, <3>1, <3>2
  <2>4. /\ DOMAIN queue' = DOMAIN queue \cup {Len(queue) + 1}
        /\ queue'[Len(queue) + 1] = item
        /\ \A j \in DOMAIN queue : queue'[j] = queue[j] /\ j \in 1..Len(queue)
        /\ Len(queue) \in Nat
    BY <1>q, <2>3, AddElement
  <2>5. ItemsStay
    BY <2>4 DEF ItemsStay
  <2>6. Queued(item.type, e)'
    BY <2>3, <2>4 DEF Queued
  <2>7. PICK row : row = [eventWorker[s] EXCEPT !.pc = next]
    OBVIOUS
  <2>8. row.pc = next /\ row.event = e
    BY <1>r, <2>1, <2>7 DEF EventRow
  <2>9. Prepared(row)'
    <3>1. CASE item.type = MintType /\ next = "reward"
      BY <2>6, <2>8, <3>1 DEF Prepared
    <3>2. CASE item.type = RewardType /\ next = "close"
      BY <2>6, <2>8, <3>2 DEF Prepared
    <3> QED
      BY <2>3, <3>1, <3>2
  <2>10. MintFirst'
    <3> SUFFICES ASSUME NEW i \in (DOMAIN queue)', queue'[i].type = RewardType,
                        queue'[i].token = NoToken
                 PROVE  \E j \in 1..(i - 1) :
                          queue'[j].type = MintType /\ queue'[j].event = queue'[i].event
      BY DEF MintFirst
    <3>1. CASE i \in DOMAIN queue
      <4>1. queue[i].type = RewardType /\ queue[i].token = NoToken
        BY <2>4, <3>1
      <4>2. PICK j \in 1..(i - 1) : queue[j].type = MintType /\ queue[j].event = queue[i].event
        BY <3>1, <4>1 DEF OrderOK, MintFirst
      <4>3. j \in DOMAIN queue
        BY <1>q, <3>1, <4>2
      <4> QED
        BY <2>4, <3>1, <4>2, <4>3
    <3>2. CASE i = Len(queue) + 1
      <4>1. Queued(MintType, e)
        BY <2>3, <2>4, <3>2 DEF MintType, RewardType
      <4>2. PICK j \in DOMAIN queue : queue[j].type = MintType /\ queue[j].event = e
        BY <4>1 DEF Queued
      <4>3. j \in 1..(i - 1)
        BY <2>4, <3>2, <4>2
      <4> QED
        BY <2>3, <2>4, <3>2, <4>2, <4>3
    <3> QED
      BY <2>4, <3>1, <3>2
  <2>11. EnqueuedIsQueued'
    <3>1. event' = event
      BY <1>6 DEF EnsureCreate
    <3> SUFFICES ASSUME NEW x \in Events, event'[x].status = "enqueued"
                 PROVE  Queued(RewardType, x)'
      BY DEF EnqueuedIsQueued
    <3>2. Queued(RewardType, x)
      BY <3>1 DEF OrderOK, EnqueuedIsQueued
    <3> QED
      BY <2>5, <3>2, QueuedStays
  <2>12. EventSays(s, row)
    BY <2>3, <2>7
  <2> QED
    BY <1>s, <2>5, <2>9, <2>10, <2>11, <2>12 DEF OrderOK
<1> QED
  BY <1>1, <1>2, <1>3, <1>4, <1>5, <1>6 DEF HandleEvents, EnsureMint, EnsureReward

(* When an event counts as enqueued, its reward is in the queue, and a      *)
(* reward queued without a token comes after a mint for the same event.     *)
THEOREM EnqueuedInOrderAlways == Spec => []EnqueuedInOrder
<1>1. Init => OrderOK
  <2> SUFFICES ASSUME Init
               PROVE  OrderOK
    OBVIOUS
  <2>1. EnqueuedIsQueued
    BY DEF Init, EnqueuedIsQueued
  <2>2. MintFirst
    BY DEF Init, MintFirst
  <2>3. \A s \in Servers : eventWorker[s].pc = "idle"
    BY DEF Init, IdleEvents
  <2> QED
    BY <2>1, <2>2, <2>3 DEF OrderOK, Prepared
<1>2. QueueOK /\ OrderOK /\ [Next]_vars => OrderOK'
  <2> SUFFICES ASSUME QueueOK, OrderOK, [Next]_vars
               PROVE  OrderOK'
    OBVIOUS
  <2>q. queue \in Seq(ItemSet)
    BY DEF QueueOK, TablesOK
  <2>k. ASSUME ItemsStay, (DOMAIN queue)' = DOMAIN queue, eventWorker' = eventWorker,
               \A e \in Events : event'[e].status = "enqueued" => event[e].status = "enqueued"
        PROVE  OrderOK'
    <3>1. MintFirst'
      BY <2>k, <2>q, MintFirstStays DEF OrderOK
    <3>2. EnqueuedIsQueued'
      <4> SUFFICES ASSUME NEW x \in Events, event'[x].status = "enqueued"
                   PROVE  Queued(RewardType, x)'
        BY DEF EnqueuedIsQueued
      <4>1. Queued(RewardType, x)
        BY <2>k DEF OrderOK, EnqueuedIsQueued
      <4> QED
        BY <2>k, <4>1, QueuedStays
    <3>3. \A t \in Servers : Prepared(eventWorker[t])'
      <4> TAKE t \in Servers
      <4>1. PICK old : old = eventWorker[t]
        OBVIOUS
      <4>2. Prepared(old)'
        BY <2>k, <4>1, PreparedStays DEF OrderOK
      <4> QED
        BY <2>k, <4>1, <4>2 DEF Prepared, Queued
    <3> QED
      BY <3>1, <3>2, <3>3 DEF OrderOK
  <2>u. queue' = queue => ItemsStay /\ (DOMAIN queue)' = DOMAIN queue
    BY DEF ItemsStay
  <2>1. CASE \E e \in Events : Deliver(e) \/ Route(e)
    <3>1. UNCHANGED <<queue, eventWorker>>
      BY <2>1 DEF Deliver, Route, RouteIgnore, RouteCredit, RouteOther
    <3>2. PICK e \in Events, status \in {"received", "ignored", "processed"} :
            event' = [event EXCEPT ![e] = [status |-> status, processed |-> status # "received"]]
      BY <2>1 DEF Deliver, Route, RouteIgnore, RouteCredit
    <3>3. \A x \in Events : event'[x].status = "enqueued" => event[x].status = "enqueued"
      BY <3>2 DEF QueueOK, EventsOK
    <3> QED
      BY <2>k, <2>u, <3>1, <3>3
  <2>2. ASSUME NEW s \in Servers, HandleEvents(s)
        PROVE  OrderOK'
    BY <2>2, EventsKeepOrder
  <2>3. ASSUME NEW s \in Servers, RunActions(s)
        PROVE  OrderOK'
    BY <2>3, <2>k, ActionsKeepItems, ActionTypes
  <2>4. ASSUME NEW s \in Servers, Cut(s)
        PROVE  OrderOK'
    <3>1. UNCHANGED rows
      BY <2>4, CutEffects
    <3>2. \A t \in Servers : Prepared(eventWorker[t])'
      <4> TAKE t \in Servers
      <4>1. PICK now : now = eventWorker'[t]
        OBVIOUS
      <4>2. now = IdleEvents \/ now = eventWorker[t]
        BY <2>4, <4>1, CutEffects DEF QueueOK, EventsOK
      <4>3. Prepared(now)
        <5>1. Prepared(IdleEvents)
          BY DEF Prepared, IdleEvents
        <5>2. PICK old : old = eventWorker[t]
          OBVIOUS
        <5>3. Prepared(old)
          BY <5>2 DEF OrderOK
        <5> QED
          BY <4>2, <5>1, <5>2, <5>3
      <4>4. Prepared(now)'
        BY <2>u, <3>1, <4>3, PreparedStays DEF rows
      <4> QED
        BY <4>1, <4>4 DEF Prepared, Queued
    <3> QED
      BY <3>1, <3>2 DEF rows, OrderOK, EnqueuedIsQueued, MintFirst, Queued
  <2>5. ASSUME NEW w \in DOMAIN workflows, Mine(w)
        PROVE  OrderOK'
    BY <2>5, <2>k, <2>u DEF Mine, OutsideOther, rows
  <2>6. CASE UNCHANGED vars
    BY <2>6, <2>k, <2>u DEF vars, rows
  <2> QED
    BY <2>1, <2>2, <2>3, <2>4, <2>5, <2>6 DEF Next
<1>3. OrderOK => EnqueuedInOrder
  BY DEF OrderOK, EnqueuedInOrder
<1>4. Spec => []OrderOK
  BY <1>1, <1>2, QueueInvariant, PTL DEF Spec
<1> QED
  BY <1>3, <1>4, PTL
-----------------------------------------------------------------------------
(* One item for each event and type, with one server: between the look for *)
(* an item and its creation nobody else creates it.                        *)
CreatesNew(row) ==
  /\ row.pc = "create mint"   => ~Queued(MintType, row.event)
  /\ row.pc = "create reward" => ~Queued(RewardType, row.event)

Unique ==
  \A i, j \in DOMAIN queue :
    queue[i].type = queue[j].type /\ queue[i].event = queue[j].event => i = j

QueuedOnceInv == OneServer => Unique /\ \A s \in Servers : CreatesNew(eventWorker[s])

(* Steps that add no item.                                                 *)
LEMMA SameItems ==
  ASSUME ItemsStay, (DOMAIN queue)' = DOMAIN queue
  PROVE  /\ Unique => Unique'
         /\ \A row : CreatesNew(row) => CreatesNew(row)'
<1>1. \A type, e : Queued(type, e)' => Queued(type, e)
  BY DEF ItemsStay, Queued
<1>2. Unique => Unique'
  BY DEF ItemsStay, Unique
<1>3. ASSUME NEW row, CreatesNew(row)
      PROVE  CreatesNew(row)'
  <2>1. row.pc = "create mint" => ~Queued(MintType, row.event)'
    BY <1>1, <1>3 DEF CreatesNew
  <2>2. row.pc = "create reward" => ~Queued(RewardType, row.event)'
    BY <1>1, <1>3 DEF CreatesNew
  <2> QED
    BY <2>1, <2>2 DEF CreatesNew
<1> QED
  BY <1>2, <1>3

(* Where nothing is about to be created.                                   *)
LEMMA CreatesNothing ==
  ASSUME NEW row, row.pc \notin {"create mint", "create reward"}
  PROVE  CreatesNew(row)'
BY DEF CreatesNew

LEMMA EventsQueueOnce ==
  ASSUME QueueOK, Unique, NEW s \in Servers, HandleEvents(s), CreatesNew(eventWorker[s])
  PROVE  Unique' /\ \E row : eventWorker'[s] = row /\ CreatesNew(row)'
<1> DEFINE Good == Unique' /\ \E row : eventWorker'[s] = row /\ CreatesNew(row)'
<1>q. queue \in Seq(ItemSet)
  BY DEF QueueOK, TablesOK
<1>r. /\ eventWorker \in [Servers -> EventRow] /\ eventWorker[s] \in EventRow
      /\ eventWorker[s].pc \notin {"idle", "round"} => eventWorker[s].event \in Events
  BY DEF QueueOK, EventsOK
<1>s. ASSUME NEW row, EventSays(s, row)
      PROVE  eventWorker'[s] = row
  BY <1>r, <1>s DEF EventSays
<1>n. ASSUME NEW row, EventSays(s, row), UNCHANGED queue,
             row.pc \notin {"create mint", "create reward"}
      PROVE  Good
  BY <1>n, <1>s, CreatesNothing DEF Unique
<1>1. CASE EventRound(s) \/ EventRoundEnd(s)
  <2>1. PICK row : /\ EventSays(s, row) /\ row.pc \in {"idle", "round"}
    <3>1. CASE EventRound(s)
      <4>1. PICK batch : EventSays(s, [IdleEvents EXCEPT !.pc = "round", !.batch = batch])
        BY <3>1 DEF EventRound
      <4>2. [IdleEvents EXCEPT !.pc = "round", !.batch = batch].pc = "round"
        BY DEF IdleEvents
      <4> QED
        BY <4>1, <4>2
    <3>2. CASE EventRoundEnd(s)
      BY <3>2 DEF EventRoundEnd, IdleEvents
    <3> QED
      BY <1>1, <3>1, <3>2
  <2>2. UNCHANGED queue
    BY <1>1 DEF EventRound, EventRoundEnd, EventLocal
  <2> QED
    BY <1>n, <2>1, <2>2
<1>2. CASE \E e \in Events : EventMark(s, e)
  <2>1. PICK e \in Events : EventMark(s, e)
    BY <1>2
  <2>2. PICK row : row = [eventWorker[s] EXCEPT !.pc = "handle", !.event = e, !.batch = @ \ {e}]
    OBVIOUS
  <2>3. row.pc = "handle"
    BY <1>r, <2>2 DEF EventRow
  <2> QED
    BY <1>n, <2>1, <2>2, <2>3 DEF EventMark
<1>3. CASE EventReject(s) \/ EventThrow(s) \/ EventClose(s)
  <2>1. PICK row : row = [IdleEvents EXCEPT !.pc = "round", !.batch = eventWorker[s].batch]
    OBVIOUS
  <2>2. EventSays(s, row) /\ UNCHANGED queue
    BY <1>3, <2>1 DEF EventReject, EventThrow, EventClose, EventSettle
  <2>3. row.pc = "round"
    BY <2>1 DEF IdleEvents
  <2> QED
    BY <1>n, <2>2, <2>3
<1>4. CASE EventLook(s)
  <2>1. PICK token :
          EventSays(s, [eventWorker[s] EXCEPT !.token = token,
                                              !.pc = IF token = NoToken THEN "mint" ELSE "reward"])
    BY <1>4 DEF EventLook
  <2>2. PICK pc : pc = IF token = NoToken THEN "mint" ELSE "reward"
    OBVIOUS
  <2>3. PICK row : row = [eventWorker[s] EXCEPT !.token = token, !.pc = pc]
    OBVIOUS
  <2>4. row.pc \notin {"create mint", "create reward"}
    BY <1>r, <2>2, <2>3 DEF EventRow
  <2>5. EventSays(s, row)
    BY <2>1, <2>2, <2>3
  <2>6. UNCHANGED queue
    BY <1>4 DEF EventLook, EventLocal
  <2> QED
    BY <1>n, <2>4, <2>5, <2>6
<1>5. ASSUME NEW type, NEW from, NEW create, NEW next, EnsureFind(s, from, type, create, next),
             <<type, create>> \in {<<MintType, "create mint">>, <<RewardType, "create reward">>},
             next \in {"reward", "close"}
      PROVE  Good
  <2>1. PICK e : e = eventWorker[s].event
    OBVIOUS
  <2>2. PICK to : to = IF Queued(type, e) THEN next ELSE create
    OBVIOUS
  <2>3. PICK row : row = [eventWorker[s] EXCEPT !.pc = to]
    OBVIOUS
  <2>4. row.pc = to /\ row.event = e
    BY <1>r, <2>1, <2>3 DEF EventRow
  <2>5. EventSays(s, row) /\ UNCHANGED queue
    BY <1>5, <2>1, <2>2, <2>3 DEF EnsureFind, EventLocal
  <2>6. CreatesNew(row)
    BY <1>5, <2>2, <2>4 DEF CreatesNew, MintType, RewardType
  <2>7. ItemsStay /\ (DOMAIN queue)' = DOMAIN queue
    BY <2>5 DEF ItemsStay
  <2>8. Unique' /\ CreatesNew(row)'
    BY <2>6, <2>7, SameItems
  <2> QED
    BY <1>s, <2>5, <2>8
<1>6. ASSUME NEW create, NEW type, NEW token \in Nat, NEW next,
             EnsureCreate(s, create, type, token, next),
             <<type, create>> \in {<<MintType, "create mint">>, <<RewardType, "create reward">>},
             next \in {"reward", "close"}
      PROVE  Good
  <2>1. PICK e : e = eventWorker[s].event
    OBVIOUS
  <2>2. PICK item : item = NewItem(type, e, token)
    OBVIOUS
  <2>3. e \in Events /\ AtEvent(s, create)
    BY <1>6, <1>r, <2>1 DEF EnsureCreate, AtEvent
  <2>4. item \in ItemSet /\ item.type = type /\ item.event = e
    <3>1. type \in {MintType, RewardType}
      BY <1>6
    <3> QED
      BY <2>2, <2>3, <3>1 DEF NewItem, ItemSet
  <2>5. queue' = Append(queue, item)
    BY <1>6, <2>1, <2>2 DEF EnsureCreate
  <2>6. /\ DOMAIN queue' = DOMAIN queue \cup {Len(queue) + 1}
        /\ queue'[Len(queue) + 1] = item
        /\ \A j \in DOMAIN queue : queue'[j] = queue[j]
    BY <1>q, <2>4, <2>5, AddElement
  <2>7. ~Queued(type, e)
    <3>1. eventWorker[s].pc = create
      BY <2>3 DEF AtEvent
    <3>2. CASE type = MintType /\ create = "create mint"
      BY <2>1, <3>1, <3>2 DEF CreatesNew
    <3>3. CASE type = RewardType /\ create = "create reward"
      BY <2>1, <3>1, <3>3 DEF CreatesNew
    <3> QED
      BY <1>6, <3>2, <3>3
  <2>8. Unique'
    BY <2>4, <2>6, <2>7 DEF Unique, Queued
  <2>9. PICK row : row = [eventWorker[s] EXCEPT !.pc = next]
    OBVIOUS
  <2>10. row.pc = next
    BY <1>r, <2>9 DEF EventRow
  <2>11. CreatesNew(row)'
    BY <1>6, <2>10, CreatesNothing
  <2>12. eventWorker'[s] = row
    BY <1>6, <1>s, <2>9 DEF EnsureCreate
  <2> QED
    BY <2>8, <2>11, <2>12
<1>7. CASE EnsureMint(s) \/ EnsureReward(s)
  <2>1. PICK token : token = eventWorker[s].token
    OBVIOUS
  <2>2. token \in Nat /\ NoToken \in Nat
    BY <1>r, <2>1 DEF EventRow, NoToken
  <2> QED
    BY <1>5, <1>6, <1>7, <2>1, <2>2 DEF EnsureMint, EnsureReward
<1> QED
  BY <1>1, <1>2, <1>3, <1>4, <1>7 DEF HandleEvents

(* A single server queues an item of a type for an event once, wherever    *)
(* its stops cut the handling of the event off.                            *)
THEOREM QueuedOnceAlways == Spec => []QueuedOnce
<1>1. Init => QueuedOnceInv
  <2> SUFFICES ASSUME Init
               PROVE  QueuedOnceInv
    OBVIOUS
  <2>1. Unique
    BY DEF Init, Unique
  <2>2. \A s \in Servers : eventWorker[s].pc = "idle"
    BY DEF Init, IdleEvents
  <2> QED
    BY <2>1, <2>2 DEF QueuedOnceInv, CreatesNew
<1>2. QueueOK /\ QueuedOnceInv /\ [Next]_vars => QueuedOnceInv'
  <2> SUFFICES ASSUME QueueOK, OneServer, Unique, \A s \in Servers : CreatesNew(eventWorker[s]),
                      [Next]_vars
               PROVE  Unique' /\ \A s \in Servers : CreatesNew(eventWorker[s])'
    BY DEF QueuedOnceInv
  <2> DEFINE Good == Unique' /\ \A s \in Servers : CreatesNew(eventWorker[s])'
  <2>k. ASSUME ItemsStay, (DOMAIN queue)' = DOMAIN queue,
               \A t \in Servers : eventWorker'[t] \in {eventWorker[t], IdleEvents}
        PROVE  Good
    <3>1. Unique'
      BY <2>k, SameItems
    <3>2. ASSUME NEW t \in Servers
          PROVE  CreatesNew(eventWorker[t])'
      <4>1. PICK old : old = eventWorker[t]
        OBVIOUS
      <4>2. CreatesNew(old)
        BY <4>1
      <4>3. PICK now : now = eventWorker'[t]
        OBVIOUS
      <4>4. CreatesNew(IdleEvents)
        BY DEF CreatesNew, IdleEvents
      <4>5. CreatesNew(now)
        BY <2>k, <4>1, <4>2, <4>3, <4>4
      <4>6. CreatesNew(now)'
        BY <2>k, <4>5, SameItems
      <4> QED
        BY <4>3, <4>6 DEF CreatesNew, Queued
    <3> QED
      BY <3>1, <3>2
  <2>u. queue' = queue => ItemsStay /\ (DOMAIN queue)' = DOMAIN queue
    BY DEF ItemsStay
  <2>1. CASE \E e \in Events : Deliver(e) \/ Route(e)
    BY <2>1, <2>k, <2>u DEF Deliver, Route, RouteIgnore, RouteCredit, RouteOther
  <2>2. ASSUME NEW s \in Servers, HandleEvents(s)
        PROVE  Good
    <3>1. Unique' /\ \E row : eventWorker'[s] = row /\ CreatesNew(row)'
      BY <2>2, EventsQueueOnce
    <3>2. CreatesNew(eventWorker[s])'
      BY <3>1 DEF CreatesNew, Queued
    <3>3. \A t \in Servers : t = s
      BY DEF OneServer
    <3>4. \A t \in Servers : CreatesNew(eventWorker[t])'
      BY <3>2, <3>3
    <3> QED
      BY <3>1, <3>4
  <2>3. ASSUME NEW s \in Servers, RunActions(s)
        PROVE  Good
    BY <2>3, <2>k, ActionsKeepItems, ActionTypes
  <2>4. ASSUME NEW s \in Servers, Cut(s)
        PROVE  Good
    BY <2>4, <2>k, <2>u, CutEffects DEF rows, QueueOK, EventsOK
  <2>5. ASSUME NEW w \in DOMAIN workflows, Mine(w)
        PROVE  Good
    BY <2>5, <2>k, <2>u DEF Mine, OutsideOther, rows
  <2>6. CASE UNCHANGED vars
    BY <2>6, <2>k, <2>u DEF vars, rows
  <2> QED
    BY <2>1, <2>2, <2>3, <2>4, <2>5, <2>6 DEF Next
<1>3. QueuedOnceInv => QueuedOnce
  BY DEF QueuedOnceInv, Unique, QueuedOnce
<1>4. Spec => []QueuedOnceInv
  BY <1>1, <1>2, QueueInvariant, PTL DEF Spec
<1> QED
  BY <1>3, <1>4, PTL

-----------------------------------------------------------------------------
(* A value that was computed for a token is at most one above its rewards. *)
Backed(row) == row.keys <= Cardinality(Rewarded(row.token)) + 1

(* The reads may be stale, by any number of rewards of other attempts; but *)
(* a reward that was mined meanwhile counts for its token, so the value    *)
(* stays backed, and it counts itself when it is mined.                    *)
KeysBacked ==
  /\ KeysNotInvented
  /\ \A w \in DOMAIN workflows : workflows[w].type = RewardType => Backed(workflows[w])
  /\ \A s \in Servers : AtAction(s, "submit reward") => Backed(actionWorker[s])

LEMMA RewardedFinite ==
  ASSUME workflows \in Seq(WorkflowSet), NEW t
  PROVE  IsFiniteSet(Rewarded(t)) /\ Cardinality(Rewarded(t)) \in Nat
<1>1. DOMAIN workflows = 1..Len(workflows) /\ Len(workflows) \in Nat
  OBVIOUS
<1>2. IsFiniteSet(1..Len(workflows))
  BY <1>1, FS_Interval
<1>3. Rewarded(t) \subseteq 1..Len(workflows)
  BY <1>1 DEF Rewarded
<1>4. IsFiniteSet(Rewarded(t))
  BY <1>2, <1>3, FS_Subset
<1> QED
  BY <1>4, FS_CardinalityType

(* What was mined stays as it is.                                          *)
MinedStay ==
  \A w \in DOMAIN workflows :
    /\ w \in (DOMAIN workflows)'
    /\ workflows[w].state = "mined" => workflows'[w] = workflows[w]

LEMMA RewardedGrow ==
  ASSUME workflows \in Seq(WorkflowSet), workflows' \in Seq(WorkflowSet), MinedStay, NEW t
  PROVE  /\ Cardinality(Rewarded(t)) \in Nat
         /\ Cardinality(Rewarded(t))' \in Nat
         /\ Cardinality(Rewarded(t)) <= Cardinality(Rewarded(t))'
<1>1. IsFiniteSet(Rewarded(t)) /\ Cardinality(Rewarded(t)) \in Nat
  BY RewardedFinite
<1>2. \A S : IsFiniteSet(S) => Cardinality(S) \in Nat
  BY FS_CardinalityType
<1>3. IsFiniteSet(Rewarded(t)')
  <2>1. (DOMAIN workflows)' = 1..Len(workflows') /\ Len(workflows') \in Nat
    OBVIOUS
  <2>2. IsFiniteSet(1..Len(workflows'))
    BY <2>1, FS_Interval
  <2>3. Rewarded(t)' \subseteq 1..Len(workflows')
    BY <2>1 DEF Rewarded
  <2> QED
    BY <2>2, <2>3, FS_Subset
<1>4. Rewarded(t) \subseteq Rewarded(t)'
  BY DEF Rewarded, MinedStay
<1>5. PICK before, after : before = Rewarded(t) /\ after = Rewarded(t)'
  OBVIOUS
<1>6. Cardinality(before) <= Cardinality(after)
  BY <1>3, <1>4, <1>5, FS_Subset
<1>7. Cardinality(after) \in Nat
  BY <1>2, <1>3, <1>5
<1> QED
  BY <1>1, <1>5, <1>6, <1>7

LEMMA BackedStays ==
  ASSUME workflows \in Seq(WorkflowSet), workflows' \in Seq(WorkflowSet), MinedStay,
         NEW row, row.keys \in Nat, Backed(row)
  PROVE  Backed(row)'
<1>1. PICK t : t = row.token
  OBVIOUS
<1>2. /\ Cardinality(Rewarded(t)) \in Nat
      /\ Cardinality(Rewarded(t))' \in Nat
      /\ Cardinality(Rewarded(t)) <= Cardinality(Rewarded(t))'
  BY RewardedGrow
<1>3. row.keys <= Cardinality(Rewarded(t)) + 1
  BY <1>1 DEF Backed
<1>4. row.keys <= Cardinality(Rewarded(t))' + 1
  BY <1>2, <1>3
<1> QED
  BY <1>1, <1>4 DEF Backed

(* The tokens that are on chain are backed if their keys did not change.   *)
LEMMA TokensBacked ==
  ASSUME QueueOK, KeysNotInvented, workflows' \in Seq(WorkflowSet), MinedStay,
         NEW t \in Minted, keys'[t] = keys[t]
  PROVE  keys'[t] <= Cardinality(Rewarded(t))'
<1>1. keys[t] <= Cardinality(Rewarded(t)) /\ keys[t] \in Nat
  BY DEF KeysNotInvented, QueueOK, ChainOK, Minted
<1>2. /\ Cardinality(Rewarded(t)) \in Nat
      /\ Cardinality(Rewarded(t))' \in Nat
      /\ Cardinality(Rewarded(t)) <= Cardinality(Rewarded(t))'
  BY RewardedGrow DEF QueueOK, ChainOK
<1> QED
  BY <1>1, <1>2

(* A loop over items writes its own row.                                   *)
LEMMA OthersAct ==
  ASSUME QueueOK, NEW s \in Servers, RunActions(s)
  PROVE  \A t \in Servers \ {s} : actionWorker'[t] = actionWorker[t]
<1>1. \A row : ActionSays(s, row) =>
        \A t \in Servers \ {s} : actionWorker'[t] = actionWorker[t]
  BY DEF ActionSays, QueueOK, ActionsOK
<1>2. CASE ActionRound(s) \/ SkipItem(s) \/ TakeItem(s) \/ ActionRoundEnd(s)
  BY <1>1, <1>2 DEF ActionRound, SkipItem, TakeItem, ActionRoundEnd
<1>3. CASE MintKnown(s) \/ OwnKnown(s) \/ MintSubmit(s) \/ MintHash(s)
  BY <1>1, <1>3 DEF MintKnown, OwnKnown, MintSubmit, MintHash, Submit, Hash
<1>4. CASE MintReceipt(s) \/ MintMember(s) \/ MintOwn(s) \/ MintItem(s)
  BY <1>1, <1>4 DEF MintReceipt, MintMember, MintOwn, MintItem
<1>5. CASE RewardRead(s) \/ RewardSubmit(s) \/ RewardHash(s)
  BY <1>1, <1>5 DEF RewardRead, RewardSubmit, RewardHash, Submit, Hash
<1>6. CASE Succeed(s) \/ ActionThrow(s)
  BY <1>1, <1>6 DEF Succeed, ActionThrow, ItemSettle
<1> QED
  BY <1>2, <1>3, <1>4, <1>5, <1>6 DEF RunActions, RunMint, RunReward

(* What is submitted is for the item that was taken.                       *)
LEMMA Submitted ==
  ASSUME QueueOK, NEW s \in Servers, NEW token \in Nat, NEW value \in Nat, NEW pc,
         Submit(s, token, value, pc), ItemOf(s) \in DOMAIN queue
  PROVE  \E w \in WorkflowSet :
           /\ workflows' = Append(workflows, w)
           /\ w.state = "sent" /\ w.type = TakenItem(s).type /\ w.item = ItemOf(s)
           /\ w.keys = value /\ w.token = token
<1>1. PICK i : i = ItemOf(s)
  OBVIOUS
<1>2. i \in Nat \ {0} /\ queue[i] \in ItemSet
  <2>1. queue \in Seq(ItemSet) /\ i \in DOMAIN queue
    BY <1>1 DEF QueueOK, TablesOK
  <2> QED
    BY <2>1
<1>3. queue[i].type \in {MintType, RewardType}
  BY <1>2 DEF ItemSet
<1>4. PICK w : w = [type |-> queue[i].type, item |-> i, token |-> token, keys |-> value,
                    state |-> "sent"]
  OBVIOUS
<1>5. /\ w \in WorkflowSet /\ w.state = "sent" /\ w.item = ItemOf(s)
      /\ w.type = TakenItem(s).type /\ w.keys = value /\ w.token = token
  BY <1>1, <1>2, <1>3, <1>4 DEF WorkflowSet, TakenItem
<1>6. workflows' = Append(workflows, w)
  BY <1>1, <1>4 DEF Submit, TakenItem
<1> QED
  BY <1>5, <1>6

(* What one step of a loop over items does to the chain.                   *)
LEMMA ActionsOnChain ==
  ASSUME QueueOK, NEW s \in Servers, RunActions(s)
  PROVE  \/ /\ UNCHANGED workflows
            /\ actionWorker'[s].pc # "submit reward"
         \/ /\ UNCHANGED workflows
            /\ \E token \in Minted, row \in ActionRow :
                 actionWorker'[s] = row /\ row.token = token /\ row.keys = keys[token] + 1
         \/ \E w \in WorkflowSet :
              /\ workflows' = Append(workflows, w)
              /\ w.state = "sent"
              /\ w.type = RewardType =>
                   /\ AtAction(s, "submit reward")
                   /\ w.keys = actionWorker[s].keys /\ w.token = actionWorker[s].token
              /\ actionWorker'[s].pc # "submit reward"
<1> DEFINE Quiet == UNCHANGED workflows /\ actionWorker'[s].pc # "submit reward"
<1>r. /\ actionWorker \in [Servers -> ActionRow] /\ actionWorker[s] \in ActionRow
      /\ Fits(actionWorker[s])
  BY DEF QueueOK, ActionsOK
<1>t. queue \in Seq(ItemSet) /\ \A i \in DOMAIN queue : queue[i].token \in WorkerTokens
  BY DEF QueueOK, TablesOK
<1>i. \A i \in DOMAIN queue : i \in Nat \ {0} /\ queue[i].type \in {MintType, RewardType}
  <2>1. \A i \in DOMAIN queue : i \in Nat \ {0} /\ queue[i] \in ItemSet
    BY <1>t
  <2> QED
    BY <2>1 DEF ItemSet
<1>s. ASSUME NEW row, ActionSays(s, row)
      PROVE  actionWorker'[s] = row
  BY <1>r, <1>s DEF ActionSays
<1>p. ASSUME NEW pc, pc # "submit reward", ActionSays(s, [actionWorker[s] EXCEPT !.pc = pc])
      PROVE  actionWorker'[s].pc # "submit reward"
  BY <1>p, <1>r, <1>s DEF ActionRow
<1>k. ASSUME NEW pc, pc # "submit reward", NEW token,
             ActionSays(s, [actionWorker[s] EXCEPT !.pc = pc, !.token = token])
      PROVE  actionWorker'[s].pc # "submit reward"
  BY <1>k, <1>r, <1>s DEF ActionRow
<1>b. ASSUME NEW batch, ActionSays(s, [IdleActions EXCEPT !.pc = "round", !.batch = batch])
      PROVE  actionWorker'[s].pc # "submit reward"
  BY <1>b, <1>s DEF IdleActions
<1>1. CASE ActionRound(s) \/ SkipItem(s) \/ ActionRoundEnd(s) \/ Succeed(s) \/ ActionThrow(s)
  <2>1. UNCHANGED workflows
    BY <1>1 DEF ActionRound, SkipItem, ActionRoundEnd, Succeed, ActionThrow, ActionLocal
  <2>2. CASE ActionRound(s)
    BY <1>b, <2>1, <2>2 DEF ActionRound
  <2>3. CASE SkipItem(s)
    <3>1. PICK b : ActionSays(s, [actionWorker[s] EXCEPT !.batch = @ \ {b}])
      BY <2>3 DEF SkipItem
    <3>2. actionWorker[s].pc = "round"
      BY <2>3 DEF SkipItem, AtAction
    <3> QED
      BY <1>r, <1>s, <2>1, <3>1, <3>2 DEF ActionRow
  <2>4. CASE ActionRoundEnd(s)
    <3>1. actionWorker'[s] = IdleActions
      BY <1>s, <2>4 DEF ActionRoundEnd
    <3>2. IdleActions.pc # "submit reward"
      BY DEF IdleActions
    <3> QED
      BY <2>1, <3>1, <3>2
  <2>5. CASE Succeed(s) \/ ActionThrow(s)
    <3>1. ActionSays(s, [IdleActions EXCEPT !.pc = "round", !.batch = actionWorker[s].batch])
      BY <2>5 DEF Succeed, ActionThrow, ItemSettle
    <3> QED
      BY <1>b, <2>1, <3>1
  <2> QED
    BY <1>1, <2>2, <2>3, <2>4, <2>5
<1>2. CASE TakeItem(s)
  <2>1. PICK b \in Next1(s) :
          ActionSays(s, [actionWorker[s] EXCEPT !.batch = @ \ {b}, !.item = b[1],
                                                !.pc = queue[b[1]].type])
    BY <1>2 DEF TakeItem
  <2>2. b[1] \in DOMAIN queue
    BY <1>r DEF Next1, Fits
  <2>3. queue[b[1]].type \in {MintType, RewardType}
    BY <1>i, <2>2
  <2>4. actionWorker'[s].pc = queue[b[1]].type
    BY <1>r, <1>s, <2>1 DEF ActionRow
  <2> QED
    BY <1>2, <2>3, <2>4 DEF TakeItem, MintType, RewardType
<1>3. CASE \/ MintKnown(s) \/ OwnKnown(s) \/ MintHash(s) \/ MintReceipt(s) \/ MintMember(s)
           \/ MintOwn(s) \/ MintItem(s) \/ RewardHash(s)
  <2>1. UNCHANGED workflows
    BY <1>3 DEF MintKnown, OwnKnown, MintHash, MintReceipt, MintMember, MintOwn, MintItem,
                RewardHash, Hash, ActionLocal
  <2>2. CASE OwnKnown(s) \/ MintHash(s) \/ MintMember(s)
    BY <1>p, <2>1, <2>2 DEF OwnKnown, MintHash, Hash, MintMember
  <2>3. CASE MintOwn(s) \/ MintItem(s) \/ RewardHash(s)
    BY <1>p, <2>1, <2>3 DEF MintOwn, MintItem, RewardHash, Hash
  <2>4. CASE MintKnown(s)
    BY <1>k, <2>1, <2>4 DEF MintKnown
  <2>5. CASE MintReceipt(s)
    BY <1>k, <2>1, <2>5 DEF MintReceipt
  <2> QED
    BY <1>3, <2>2, <2>3, <2>4, <2>5
<1>4. CASE RewardRead(s)
  <2>1. ItemOf(s) \in DOMAIN queue
    <3>1. actionWorker[s].pc = RewardType
      BY <1>4 DEF RewardRead, AtAction
    <3> QED
      BY <1>r, <3>1 DEF Fits, ItemOf, RewardType
  <2>2. PICK token \in Resolved(ItemOf(s)) :
          ActionSays(s, [actionWorker[s] EXCEPT !.pc = "submit reward", !.token = token,
                                                !.keys = OneMore(token)])
    BY <1>4 DEF RewardRead
  <2>3. token \in Minted
    BY <1>t, <2>1, <2>2 DEF Resolved, QueueOK, TablesOK, WorkerTokens, NoToken
  <2>4. token \in Nat /\ OneMore(token) \in Nat
    BY <2>3 DEF QueueOK, ChainOK, Minted, OneMore
  <2>5. PICK row : row = [actionWorker[s] EXCEPT !.pc = "submit reward", !.token = token,
                                                 !.keys = OneMore(token)]
    OBVIOUS
  <2>6. row \in ActionRow /\ row.token = token /\ row.keys = keys[token] + 1
    BY <1>r, <2>4, <2>5 DEF ActionRow, ActionPc, OneMore
  <2>7. actionWorker'[s] = row /\ UNCHANGED workflows
    BY <1>4, <1>s, <2>2, <2>5 DEF RewardRead, ActionLocal
  <2> QED
    BY <2>3, <2>6, <2>7
<1>5. ASSUME NEW token \in Nat, NEW value \in Nat, NEW pc, pc \in {"wait mint", "wait reward"},
             Submit(s, token, value, pc), ItemOf(s) \in DOMAIN queue,
             TakenItem(s).type = RewardType =>
               /\ AtAction(s, "submit reward")
               /\ value = actionWorker[s].keys /\ token = actionWorker[s].token
      PROVE  \E w \in WorkflowSet :
               /\ workflows' = Append(workflows, w)
               /\ w.state = "sent"
               /\ w.type = RewardType =>
                    /\ AtAction(s, "submit reward")
                    /\ w.keys = actionWorker[s].keys /\ w.token = actionWorker[s].token
               /\ actionWorker'[s].pc # "submit reward"
  <2>1. PICK w \in WorkflowSet :
          /\ workflows' = Append(workflows, w)
          /\ w.state = "sent" /\ w.type = TakenItem(s).type /\ w.item = ItemOf(s)
          /\ w.keys = value /\ w.token = token
    <3>1. Submit(s, token, value, pc) /\ ItemOf(s) \in DOMAIN queue
      BY <1>5
    <3> QED
      BY <3>1, Submitted
  <2>2. actionWorker'[s].pc = pc
    BY <1>5, <1>r, <1>s DEF Submit, ActionRow
  <2> QED
    BY <1>5, <2>1, <2>2
<1>6. CASE MintSubmit(s)
  <2>1. ItemOf(s) \in DOMAIN queue /\ TakenItem(s).type = MintType
    BY <1>6, <1>r DEF MintSubmit, AtAction, Fits, MintPcs, MintType, ItemOf, TakenItem
  <2>2. TakenItem(s).type # RewardType
    BY <2>1 DEF MintType, RewardType
  <2>3. NoToken \in Nat /\ 0 \in Nat
    BY DEF NoToken
  <2>4. Submit(s, NoToken, 0, "wait mint")
    BY <1>6 DEF MintSubmit
  <2> QED
    BY <1>5, <2>1, <2>2, <2>3, <2>4
<1>7. CASE RewardSubmit(s)
  <2>1. AtAction(s, "submit reward")
    BY <1>7 DEF RewardSubmit
  <2>2. ItemOf(s) \in DOMAIN queue
    BY <1>r, <2>1 DEF AtAction, Fits, ItemOf
  <2>3. PICK token, value : token = actionWorker[s].token /\ value = actionWorker[s].keys
    OBVIOUS
  <2>4. token \in Nat /\ value \in Nat
    BY <1>r, <2>3 DEF ActionRow
  <2>5. Submit(s, token, value, "wait reward")
    BY <1>7, <2>3 DEF RewardSubmit
  <2> QED
    BY <1>5, <2>1, <2>2, <2>3, <2>4, <2>5
<1> QED
  BY <1>1, <1>2, <1>3, <1>4, <1>6, <1>7 DEF RunActions, RunMint, RunReward

(* What a reward asks for does not change.                                 *)
Same(new, old) ==
  new = old \/ (old.type = RewardType /\ new.keys = old.keys /\ new.token = old.token)

(* A transaction that enters a block counts for its token.                 *)
LEMMA MineBacked ==
  ASSUME QueueOK, KeysBacked, NEW w \in DOMAIN workflows, Mine(w)
  PROVE  /\ workflows' \in Seq(WorkflowSet) /\ MinedStay
         /\ (DOMAIN workflows)' = DOMAIN workflows
         /\ \A x \in DOMAIN workflows :
              workflows'[x].type = RewardType => Same(workflows'[x], workflows[x])
         /\ KeysNotInvented'
<1>1. /\ workflows \in Seq(WorkflowSet) /\ workflows[w] \in WorkflowSet
      /\ keys \in Seq(Nat)
  BY DEF QueueOK, ChainOK
<1>2. /\ workflows[w].token \in Nat /\ workflows[w].keys \in Nat
      /\ workflows[w].type \in {MintType, RewardType}
  BY <1>1 DEF WorkflowSet
<1>c. \A t : Cardinality(Rewarded(t))' \in Nat => 0 <= Cardinality(Rewarded(t))'
  OBVIOUS
<1>m. CASE workflows[w].type = MintType
  <2>1. /\ keys' = Append(keys, 0)
        /\ workflows' = [workflows EXCEPT ![w].state = "mined", ![w].token = Len(keys) + 1]
        /\ workflows[w].state = "sent"
    BY <1>m DEF Mine
  <2>2. Len(keys) + 1 \in Nat /\ 0 \in Nat
    BY <1>1
  <2>3. PICK n : n = Len(keys) + 1
    OBVIOUS
  <2>4. PICK wf : wf = [workflows[w] EXCEPT !.state = "mined", !.token = n]
    OBVIOUS
  <2>5. wf \in WorkflowSet /\ wf.type = MintType
    BY <1>1, <1>m, <2>2, <2>3, <2>4 DEF WorkflowSet
  <2>6. /\ workflows' \in Seq(WorkflowSet)
        /\ DOMAIN workflows' = DOMAIN workflows
        /\ workflows'[w] = wf
        /\ \A j \in DOMAIN workflows \ {w} : workflows'[j] = workflows[j]
    <3>1. workflows' = [workflows EXCEPT ![w] = wf]
      BY <2>1, <2>3, <2>4
    <3> QED
      BY <1>1, <2>5, <3>1, SetElement
  <2>7. MinedStay
    BY <2>1, <2>6 DEF MinedStay
  <2>8. \A x \in DOMAIN workflows :
          workflows'[x].type = RewardType => Same(workflows'[x], workflows[x])
    BY <2>5, <2>6 DEF Same, MintType, RewardType
  <2>9. /\ DOMAIN keys' = DOMAIN keys \cup {n}
        /\ keys'[n] = 0
        /\ \A t \in DOMAIN keys : keys'[t] = keys[t]
    BY <1>1, <2>1, <2>2, <2>3, AddElement
  <2>10. KeysNotInvented'
    <3> SUFFICES ASSUME NEW t \in Minted'
                 PROVE  keys'[t] <= Cardinality(Rewarded(t))'
      BY DEF KeysNotInvented
    <3>1. CASE t \in Minted
      BY <2>6, <2>7, <2>9, <3>1, TokensBacked DEF KeysBacked, Minted
    <3>2. CASE t = n
      <4>1. Cardinality(Rewarded(t))' \in Nat
        BY <1>1, <2>6, <2>7, RewardedGrow
      <4> QED
        BY <2>9, <3>2, <4>1
    <3> QED
      BY <2>9, <3>1, <3>2 DEF Minted
  <2> QED
    BY <2>6, <2>7, <2>8, <2>10
<1>r. CASE workflows[w].type = RewardType
  <2>0. workflows[w].type # MintType
    BY <1>r DEF MintType, RewardType
  <2>1. /\ keys' = [keys EXCEPT ![workflows[w].token] = workflows[w].keys]
        /\ workflows' = [workflows EXCEPT ![w].state = "mined"]
        /\ workflows[w].state = "sent"
    BY <2>0 DEF Mine
  <2>2. PICK token \in Nat, value \in Nat : token = workflows[w].token /\ value = workflows[w].keys
    BY <1>2
  <2>3. PICK wf : wf = [workflows[w] EXCEPT !.state = "mined"]
    OBVIOUS
  <2>4. /\ wf \in WorkflowSet /\ wf.type = RewardType /\ wf.state = "mined"
        /\ wf.token = token /\ wf.keys = value
    BY <1>1, <1>r, <2>2, <2>3 DEF WorkflowSet
  <2>5. /\ workflows' \in Seq(WorkflowSet)
        /\ DOMAIN workflows' = DOMAIN workflows
        /\ workflows'[w] = wf
        /\ \A j \in DOMAIN workflows \ {w} : workflows'[j] = workflows[j]
    <3>1. workflows' = [workflows EXCEPT ![w] = wf]
      BY <2>1, <2>3
    <3> QED
      BY <1>1, <2>4, <3>1, SetElement
  <2>6. MinedStay
    BY <2>1, <2>5 DEF MinedStay
  <2>7. \A x \in DOMAIN workflows :
          workflows'[x].type = RewardType => Same(workflows'[x], workflows[x])
    BY <1>r, <2>2, <2>4, <2>5 DEF Same
  <2>8. value <= Cardinality(Rewarded(token))'
    <3>1. PICK before, after : before = Rewarded(token) /\ after = Rewarded(token)'
      OBVIOUS
    <3>2. w \notin before /\ before \cup {w} \subseteq after
      BY <2>1, <2>4, <2>5, <2>6, <3>1 DEF Rewarded, MinedStay
    <3>3. IsFiniteSet(before)
      BY <1>1, <3>1, RewardedFinite
    <3>4. IsFiniteSet(after)
      <4>1. (DOMAIN workflows)' = 1..Len(workflows') /\ Len(workflows') \in Nat
        BY <2>5
      <4>2. IsFiniteSet(1..Len(workflows'))
        BY <4>1, FS_Interval
      <4>3. after \subseteq 1..Len(workflows')
        BY <3>1, <4>1 DEF Rewarded
      <4> QED
        BY <4>2, <4>3, FS_Subset
    <3>5. Cardinality(before \cup {w}) = Cardinality(before) + 1
      BY <3>2, <3>3, FS_AddElement
    <3>6. Cardinality(before \cup {w}) <= Cardinality(after)
      BY <3>2, <3>4, FS_Subset
    <3>7. value <= Cardinality(before) + 1
      BY <1>r, <2>2, <3>1 DEF KeysBacked, Backed
    <3>8. Cardinality(before) \in Nat /\ Cardinality(after) \in Nat
      BY <3>3, <3>4, FS_CardinalityType
    <3>9. value <= Cardinality(after)
      BY <3>5, <3>6, <3>7, <3>8
    <3> QED
      BY <3>1, <3>9
  <2>9. KeysNotInvented'
    <3>1. keys' = [keys EXCEPT ![token] = value]
      BY <2>1, <2>2
    <3> SUFFICES ASSUME NEW t \in Minted'
                 PROVE  keys'[t] <= Cardinality(Rewarded(t))'
      BY DEF KeysNotInvented
    <3>2. t \in Minted
      BY <1>1, <3>1 DEF Minted
    <3>3. CASE t = token
      BY <1>1, <2>8, <3>1, <3>2, <3>3 DEF Minted
    <3>4. CASE t # token
      <4>1. keys'[t] = keys[t]
        BY <1>1, <3>1, <3>2, <3>4 DEF Minted
      <4> QED
        BY <2>5, <2>6, <3>2, <4>1, TokensBacked DEF KeysBacked
    <3> QED
      BY <3>3, <3>4
  <2> QED
    BY <2>5, <2>6, <2>7, <2>9
<1> QED
  BY <1>2, <1>m, <1>r

(* The signed values are absolute, and may be based on reads that are      *)
(* stale when they are mined: no token has more keys than rewards for it.  *)
THEOREM KeysNotInventedAlways == Spec => []KeysNotInvented
<1>1. Init => KeysBacked
  <2> SUFFICES ASSUME Init
               PROVE  KeysBacked
    OBVIOUS
  <2>1. KeysNotInvented
    BY DEF Init, KeysNotInvented, Minted
  <2>2. \A s \in Servers : ~AtAction(s, "submit reward")
    BY DEF Init, IdleActions, AtAction
  <2>3. DOMAIN workflows = {}
    BY DEF Init
  <2> QED
    BY <2>1, <2>2, <2>3 DEF KeysBacked
<1>2. QueueOK /\ KeysBacked /\ [Next]_vars => KeysBacked'
  <2> SUFFICES ASSUME QueueOK, KeysBacked, [Next]_vars
               PROVE  KeysBacked'
    OBVIOUS
  <2>w. /\ workflows \in Seq(WorkflowSet) /\ keys \in Seq(Nat)
        /\ \A x \in DOMAIN workflows : workflows[x].keys \in Nat
        /\ \A t \in Servers : actionWorker[t].keys \in Nat
    <3>1. workflows \in Seq(WorkflowSet) /\ keys \in Seq(Nat)
      BY DEF QueueOK, ChainOK
    <3>2. \A x \in DOMAIN workflows : workflows[x] \in WorkflowSet
      BY <3>1
    <3>3. \A t \in Servers : actionWorker[t] \in ActionRow
      BY DEF QueueOK, ActionsOK
    <3> QED
      BY <3>1, <3>2, <3>3 DEF WorkflowSet, ActionRow
  \* What is at work keeps its row, but for one server that is not submitting.
  <2>k. ASSUME UNCHANGED keys, workflows' \in Seq(WorkflowSet), MinedStay,
               \A x \in (DOMAIN workflows)' : workflows'[x].type = RewardType =>
                 \E row : /\ Backed(row) /\ row.keys \in Nat
                          /\ workflows'[x].keys = row.keys /\ workflows'[x].token = row.token,
               \A t \in Servers : actionWorker'[t].pc = "submit reward" =>
                 \E row : /\ Backed(row) /\ row.keys \in Nat
                          /\ actionWorker'[t].keys = row.keys /\ actionWorker'[t].token = row.token
        PROVE  KeysBacked'
    <3>1. KeysNotInvented'
      <4> SUFFICES ASSUME NEW t \in Minted'
                   PROVE  keys'[t] <= Cardinality(Rewarded(t))'
        BY DEF KeysNotInvented
      <4> QED
        BY <2>k, TokensBacked DEF KeysBacked, Minted
    <3>2. ASSUME NEW x \in (DOMAIN workflows)', workflows'[x].type = RewardType
          PROVE  Backed(workflows[x])'
      <4>1. PICK row : /\ Backed(row) /\ row.keys \in Nat
                       /\ workflows'[x].keys = row.keys /\ workflows'[x].token = row.token
        BY <2>k, <3>2
      <4>2. Backed(row)'
        BY <2>k, <2>w, <4>1, BackedStays
      <4> QED
        BY <4>1, <4>2 DEF Backed, Rewarded
    <3>3. ASSUME NEW t \in Servers, actionWorker'[t].pc = "submit reward"
          PROVE  Backed(actionWorker[t])'
      <4>1. PICK row : /\ Backed(row) /\ row.keys \in Nat
                       /\ actionWorker'[t].keys = row.keys /\ actionWorker'[t].token = row.token
        BY <2>k, <3>3
      <4>2. Backed(row)'
        BY <2>k, <2>w, <4>1, BackedStays
      <4> QED
        BY <4>1, <4>2 DEF Backed, Rewarded
    <3> QED
      BY <3>1, <3>2, <3>3 DEF KeysBacked, AtAction
  <2>r. \A t \in Servers : AtAction(t, "submit reward") =>
          \E row : /\ Backed(row) /\ row.keys \in Nat
                   /\ actionWorker[t].keys = row.keys /\ actionWorker[t].token = row.token
    BY <2>w DEF KeysBacked
  <2>x. \A x \in DOMAIN workflows : workflows[x].type = RewardType =>
          Backed(workflows[x]) /\ workflows[x].keys \in Nat
    BY <2>w DEF KeysBacked
  <2>u. UNCHANGED <<workflows, keys>> /\ (\A t \in Servers :
          actionWorker'[t].pc = "submit reward" => actionWorker'[t] = actionWorker[t])
          => KeysBacked'
    <3> SUFFICES ASSUME UNCHANGED <<workflows, keys>>,
                        \A t \in Servers :
                          actionWorker'[t].pc = "submit reward" => actionWorker'[t] = actionWorker[t]
                 PROVE  KeysBacked'
      OBVIOUS
    <3>1. workflows' \in Seq(WorkflowSet) /\ MinedStay
      BY <2>w DEF MinedStay
    <3>2. \A x \in (DOMAIN workflows)' : workflows'[x].type = RewardType =>
            \E row : /\ Backed(row) /\ row.keys \in Nat
                     /\ workflows'[x].keys = row.keys /\ workflows'[x].token = row.token
      BY <2>x
    <3>3. \A t \in Servers : actionWorker'[t].pc = "submit reward" =>
            \E row : /\ Backed(row) /\ row.keys \in Nat
                     /\ actionWorker'[t].keys = row.keys /\ actionWorker'[t].token = row.token
      BY <2>r DEF AtAction
    <3> QED
      BY <2>k, <3>1, <3>2, <3>3
  <2>1. CASE \E e \in Events : Deliver(e) \/ Route(e)
    BY <2>1, <2>u DEF Deliver, Route, RouteIgnore, RouteCredit, RouteOther, chain
  <2>2. ASSUME NEW s \in Servers, HandleEvents(s)
        PROVE  KeysBacked'
    BY <2>2, <2>u, EventTypes DEF chain
  <2>3. ASSUME NEW s \in Servers, RunActions(s)
        PROVE  KeysBacked'
    <3>1. UNCHANGED keys
      BY <2>3 DEF RunActions, ActionRound, SkipItem, TakeItem, ActionRoundEnd, RunMint, MintKnown,
                  OwnKnown, MintSubmit, MintHash, Hash, MintReceipt, MintMember, MintOwn, MintItem,
                  RunReward, RewardRead, RewardSubmit, RewardHash, Succeed, ActionThrow, ActionLocal
    <3>2. \A t \in Servers \ {s} : actionWorker'[t] = actionWorker[t]
      BY <2>3, OthersAct
    <3>3. CASE UNCHANGED workflows /\ actionWorker'[s].pc # "submit reward"
      BY <2>u, <3>1, <3>2, <3>3
    <3>4. ASSUME UNCHANGED workflows, NEW token \in Minted, NEW row \in ActionRow,
                 actionWorker'[s] = row, row.token = token, row.keys = keys[token] + 1
          PROVE  KeysBacked'
      <4>1. Backed(row) /\ row.keys \in Nat
        <5>1. keys[token] <= Cardinality(Rewarded(token)) /\ keys[token] \in Nat
          <6>1. KeysNotInvented
            BY DEF KeysBacked
          <6> QED
            BY <2>w, <6>1 DEF KeysNotInvented, Minted
        <5>2. Cardinality(Rewarded(token)) \in Nat
          BY <2>w, RewardedFinite
        <5>3. keys[token] + 1 <= Cardinality(Rewarded(token)) + 1 /\ keys[token] + 1 \in Nat
          BY <5>1, <5>2
        <5> QED
          BY <3>4, <5>3 DEF Backed
      <4>2. workflows' \in Seq(WorkflowSet) /\ MinedStay
        BY <2>w, <3>4 DEF MinedStay
      <4>3. \A x \in (DOMAIN workflows)' : workflows'[x].type = RewardType =>
              \E r : /\ Backed(r) /\ r.keys \in Nat
                     /\ workflows'[x].keys = r.keys /\ workflows'[x].token = r.token
        BY <2>x, <3>4
      <4>4. \A t \in Servers : actionWorker'[t].pc = "submit reward" =>
              \E r : /\ Backed(r) /\ r.keys \in Nat
                     /\ actionWorker'[t].keys = r.keys /\ actionWorker'[t].token = r.token
        <5> TAKE t \in Servers
        <5>1. CASE t = s
          BY <3>4, <4>1, <5>1
        <5>2. CASE t # s
          BY <2>r, <3>2, <5>2 DEF AtAction
        <5> QED
          BY <5>1, <5>2
      <4> QED
        BY <2>k, <3>1, <4>2, <4>3, <4>4
    <3>5. ASSUME NEW w \in WorkflowSet, workflows' = Append(workflows, w),
                 w.type = RewardType =>
                   /\ AtAction(s, "submit reward")
                   /\ w.keys = actionWorker[s].keys /\ w.token = actionWorker[s].token,
                 actionWorker'[s].pc # "submit reward"
          PROVE  KeysBacked'
      <4>1. /\ workflows' \in Seq(WorkflowSet)
            /\ DOMAIN workflows' = DOMAIN workflows \cup {Len(workflows) + 1}
            /\ workflows'[Len(workflows) + 1] = w
            /\ \A j \in DOMAIN workflows : workflows'[j] = workflows[j]
        <5>1. workflows \in Seq(WorkflowSet) /\ workflows' = Append(workflows, w)
          BY <2>w, <3>5
        <5> QED
          BY <5>1, AddElement
      <4>2. MinedStay
        BY <4>1 DEF MinedStay
      <4>3. \A x \in (DOMAIN workflows)' : workflows'[x].type = RewardType =>
              \E r : /\ Backed(r) /\ r.keys \in Nat
                     /\ workflows'[x].keys = r.keys /\ workflows'[x].token = r.token
        <5> TAKE x \in (DOMAIN workflows)'
        <5>1. CASE x \in DOMAIN workflows
          BY <2>x, <4>1, <5>1
        <5>2. CASE x = Len(workflows) + 1
          <6>1. w.type = RewardType =>
                  \E r : /\ Backed(r) /\ r.keys \in Nat /\ w.keys = r.keys /\ w.token = r.token
            BY <2>r, <3>5
          <6> QED
            BY <4>1, <5>2, <6>1
        <5> QED
          BY <4>1, <5>1, <5>2
      <4>4. \A t \in Servers : actionWorker'[t].pc = "submit reward" =>
              \E r : /\ Backed(r) /\ r.keys \in Nat
                     /\ actionWorker'[t].keys = r.keys /\ actionWorker'[t].token = r.token
        BY <2>r, <3>2, <3>5 DEF AtAction
      <4> QED
        BY <2>k, <3>1, <4>1, <4>2, <4>3, <4>4
    <3> QED
      BY <2>3, <3>3, <3>4, <3>5, ActionsOnChain
  <2>4. ASSUME NEW s \in Servers, Cut(s)
        PROVE  KeysBacked'
    <3>1. UNCHANGED <<workflows, keys>>
      BY <2>4, CutEffects DEF chain
    <3>2. \A t \in Servers : actionWorker'[t] \in {actionWorker[t], IdleActions}
      BY <2>4, CutEffects DEF QueueOK, ActionsOK
    <3>3. IdleActions.pc # "submit reward"
      BY DEF IdleActions
    <3> QED
      BY <2>u, <3>1, <3>2, <3>3
  <2>5. ASSUME NEW w \in DOMAIN workflows, Mine(w)
        PROVE  KeysBacked'
    <3>1. /\ workflows' \in Seq(WorkflowSet) /\ MinedStay
          /\ (DOMAIN workflows)' = DOMAIN workflows
          /\ \A x \in DOMAIN workflows :
               workflows'[x].type = RewardType => Same(workflows'[x], workflows[x])
          /\ KeysNotInvented'
      BY <2>5, MineBacked
    <3>2. ASSUME NEW x \in (DOMAIN workflows)', workflows'[x].type = RewardType
          PROVE  Backed(workflows[x])'
      <4>1. PICK row : row = workflows[x]
        OBVIOUS
      <4>2. /\ row.type = RewardType /\ Backed(row) /\ row.keys \in Nat
            /\ workflows'[x].keys = row.keys /\ workflows'[x].token = row.token
        BY <2>x, <3>1, <3>2, <4>1 DEF Same
      <4>3. Backed(row)'
        BY <2>w, <3>1, <4>2, BackedStays
      <4> QED
        BY <4>2, <4>3 DEF Backed, Rewarded
    <3>3. ASSUME NEW t \in Servers, actionWorker'[t].pc = "submit reward"
          PROVE  Backed(actionWorker[t])'
      <4>1. actionWorker' = actionWorker
        BY <2>5 DEF Mine, OutsideOther
      <4>2. PICK row : /\ Backed(row) /\ row.keys \in Nat
                       /\ actionWorker[t].keys = row.keys /\ actionWorker[t].token = row.token
        BY <2>r, <3>3, <4>1 DEF AtAction
      <4>3. Backed(row)'
        BY <2>w, <3>1, <4>2, BackedStays
      <4> QED
        BY <4>1, <4>2, <4>3 DEF Backed, Rewarded
    <3> QED
      BY <3>1, <3>2, <3>3 DEF KeysBacked, AtAction
  <2>6. CASE UNCHANGED vars
    BY <2>6, <2>u DEF vars, chain
  <2> QED
    BY <2>1, <2>2, <2>3, <2>4, <2>5, <2>6 DEF Next
<1>3. KeysBacked => KeysNotInvented
  BY DEF KeysBacked
<1>4. Spec => []KeysBacked
  BY <1>1, <1>2, QueueInvariant, PTL DEF Spec
<1> QED
  BY <1>3, <1>4, PTL

-----------------------------------------------------------------------------
(* What became of every item.  A row of the loop over items holds an item  *)
(* from the moment it is taken to the moment it is settled.                *)
BetweenItems == \A s \in Servers : actionWorker[s].pc \in {"idle", "round"} => ItemOf(s) = 0

CutOffInv == BetweenItems /\ Cardinality(Running \ Held) <= cuts

LEMMA SettleStatus ==
  ASSUME queue \in Seq(ItemSet), NEW i \in DOMAIN queue,
         NEW status \in {"SUCCEEDED", "FAILED", "RUNNING"}, NEW attempts \in Nat,
         queue' = [queue EXCEPT ![i].status = status, ![i].attempts = attempts]
  PROVE  /\ DOMAIN queue' = DOMAIN queue
         /\ queue'[i].status = status
         /\ queue'[i].type = queue[i].type /\ queue'[i].token = queue[i].token
         /\ \A j \in DOMAIN queue \ {i} : queue'[j] = queue[j]
<1>1. queue[i] \in ItemSet
  OBVIOUS
<1>2. PICK item : item = [queue[i] EXCEPT !.status = status, !.attempts = attempts]
  OBVIOUS
<1>3. /\ item \in ItemSet /\ item.status = status
      /\ item.type = queue[i].type /\ item.token = queue[i].token
  BY <1>1, <1>2 DEF ItemSet
<1>4. queue' = [queue EXCEPT ![i] = item]
  BY <1>2
<1> QED
  BY <1>3, <1>4, SetElement

LEMMA SettleToken ==
  ASSUME queue \in Seq(ItemSet), NEW i \in DOMAIN queue, NEW token \in Nat,
         queue' = [queue EXCEPT ![i].token = token]
  PROVE  /\ DOMAIN queue' = DOMAIN queue
         /\ queue'[i].status = queue[i].status
         /\ queue'[i].type = queue[i].type /\ queue'[i].token = token
         /\ \A j \in DOMAIN queue \ {i} : queue'[j] = queue[j]
<1>1. queue[i] \in ItemSet
  OBVIOUS
<1>2. PICK item : item = [queue[i] EXCEPT !.token = token]
  OBVIOUS
<1>3. /\ item \in ItemSet /\ item.status = queue[i].status
      /\ item.type = queue[i].type /\ item.token = token
  BY <1>1, <1>2 DEF ItemSet
<1>4. queue' = [queue EXCEPT ![i] = item]
  BY <1>2
<1> QED
  BY <1>3, <1>4, SetElement

(* An item is taken, settled, or stays with who holds it.                  *)
Keeps(s) ==
  /\ ItemOf(s)' = ItemOf(s)
  /\ \A j \in DOMAIN queue : queue'[j].status = queue[j].status
Takes(s, i) ==
  /\ ItemOf(s) = 0 /\ ItemOf(s)' = i
  /\ queue'[i].status = "RUNNING"
  /\ \A j \in DOMAIN queue \ {i} : queue'[j].status = queue[j].status
Settles(s) ==
  /\ ItemOf(s)' = 0
  /\ queue'[ItemOf(s)].status # "RUNNING"
  /\ \A j \in DOMAIN queue \ {ItemOf(s)} : queue'[j].status = queue[j].status

LEMMA ActionsHold ==
  ASSUME QueueOK, BetweenItems, NEW s \in Servers, RunActions(s)
  PROVE  /\ actionWorker'[s].pc \in {"idle", "round"} => ItemOf(s)' = 0
         /\ (DOMAIN queue)' = DOMAIN queue
         /\ \/ Keeps(s)
            \/ \E i \in DOMAIN queue : Takes(s, i)
            \/ Settles(s)
<1> DEFINE Good == /\ actionWorker'[s].pc \in {"idle", "round"} => ItemOf(s)' = 0
                   /\ \/ Keeps(s)
                      \/ \E i \in DOMAIN queue : Takes(s, i)
                      \/ Settles(s)
<1>d. (DOMAIN queue)' = DOMAIN queue
  BY ActionsKeepItems
<1>r. /\ actionWorker \in [Servers -> ActionRow] /\ actionWorker[s] \in ActionRow
      /\ Fits(actionWorker[s])
  BY DEF QueueOK, ActionsOK
<1>q. queue \in Seq(ItemSet)
  BY DEF QueueOK, TablesOK
<1>z. \A i \in DOMAIN queue : i # 0
  BY <1>q
<1>s. ASSUME NEW row, ActionSays(s, row)
      PROVE  actionWorker'[s] = row
  BY <1>r, <1>s DEF ActionSays
<1>k. ASSUME NEW row, ActionSays(s, row), row.item = ItemOf(s),
             row.pc \notin {"idle", "round"} \/ ItemOf(s) = 0,
             \A j \in DOMAIN queue : queue'[j].status = queue[j].status
      PROVE  Good
  BY <1>k, <1>s DEF Keeps, ItemOf, Good
\* The row goes on with its item, and with another place in the code.
<1> HIDE DEF Good
\* The row goes on with its item, and with another place in the code.
<1> DEFINE Kept == \A j \in DOMAIN queue : queue'[j].status = queue[j].status
<1> HIDE DEF Kept
<1>u. queue' = queue => Kept
  BY DEF Kept
<1>p1. ASSUME NEW pc, pc \notin {"idle", "round"}, Kept,
              ActionSays(s, [actionWorker[s] EXCEPT !.pc = pc])
      PROVE  Good
  <2>1. PICK row : row = [actionWorker[s] EXCEPT !.pc = pc]
    OBVIOUS
  <2>2. row.pc = pc /\ row.item = ItemOf(s)
    BY <1>r, <2>1 DEF ActionRow, ItemOf
  <2> QED
    BY <1>k, <1>p1, <2>1, <2>2 DEF Kept
<1>p2. ASSUME NEW pc, pc \notin {"idle", "round"}, NEW token, Kept,
              ActionSays(s, [actionWorker[s] EXCEPT !.pc = pc, !.token = token])
      PROVE  Good
  <2>1. PICK row : row = [actionWorker[s] EXCEPT !.pc = pc, !.token = token]
    OBVIOUS
  <2>2. row.pc = pc /\ row.item = ItemOf(s)
    BY <1>r, <2>1 DEF ActionRow, ItemOf
  <2> QED
    BY <1>k, <1>p2, <2>1, <2>2 DEF Kept
<1>p3. ASSUME NEW pc, pc \notin {"idle", "round"}, NEW token, NEW value, Kept,
              ActionSays(s, [actionWorker[s] EXCEPT !.pc = pc, !.token = token, !.keys = value])
      PROVE  Good
  <2>1. PICK row : row = [actionWorker[s] EXCEPT !.pc = pc, !.token = token, !.keys = value]
    OBVIOUS
  <2>2. row.pc = pc /\ row.item = ItemOf(s)
    BY <1>r, <2>1 DEF ActionRow, ItemOf
  <2> QED
    BY <1>k, <1>p3, <2>1, <2>2 DEF Kept
<1>p4. ASSUME NEW pc, pc \notin {"idle", "round"}, NEW wf, Kept,
              ActionSays(s, [actionWorker[s] EXCEPT !.pc = pc, !.wf = wf])
      PROVE  Good
  <2>1. PICK row : row = [actionWorker[s] EXCEPT !.pc = pc, !.wf = wf]
    OBVIOUS
  <2>2. row.pc = pc /\ row.item = ItemOf(s)
    BY <1>r, <2>1 DEF ActionRow, ItemOf
  <2> QED
    BY <1>k, <1>p4, <2>1, <2>2 DEF Kept
<1>1. ASSUME ActionRound(s)
      PROVE  Good
  <2>1. PICK batch : ActionSays(s, [IdleActions EXCEPT !.pc = "round", !.batch = batch])
    BY <1>1 DEF ActionRound
  <2>2. [IdleActions EXCEPT !.pc = "round", !.batch = batch].item = 0
    BY DEF IdleActions
  <2>3. ItemOf(s) = 0 /\ queue' = queue
    BY <1>1 DEF ActionRound, AtAction, BetweenItems, ActionLocal
  <2> QED
    BY <1>k, <2>1, <2>2, <2>3
<1>2. ASSUME SkipItem(s)
      PROVE  Good
  <2>1. PICK b : ActionSays(s, [actionWorker[s] EXCEPT !.batch = @ \ {b}])
    BY <1>2 DEF SkipItem
  <2>2. [actionWorker[s] EXCEPT !.batch = @ \ {b}].item = ItemOf(s)
    BY <1>r DEF ActionRow, ItemOf
  <2>3. ItemOf(s) = 0 /\ queue' = queue
    BY <1>2 DEF SkipItem, AtAction, BetweenItems, ActionLocal
  <2> QED
    BY <1>k, <2>1, <2>2, <2>3
<1>3. ASSUME ActionRoundEnd(s)
      PROVE  Good
  <2>1. ActionSays(s, IdleActions)
    BY <1>3 DEF ActionRoundEnd
  <2>2. IdleActions.item = 0
    BY DEF IdleActions
  <2>3. ItemOf(s) = 0 /\ queue' = queue
    BY <1>3 DEF ActionRoundEnd, AtAction, BetweenItems, ActionLocal
  <2> QED
    BY <1>k, <2>1, <2>2, <2>3
<1>4. ASSUME TakeItem(s)
      PROVE  Good
  <2>1. PICK b \in Next1(s) :
          /\ queue' = [queue EXCEPT ![b[1]].status = "RUNNING", ![b[1]].attempts = @ + 1]
          /\ ActionSays(s, [actionWorker[s] EXCEPT !.batch = @ \ {b}, !.item = b[1],
                                                   !.pc = queue[b[1]].type])
    BY <1>4 DEF TakeItem
  <2>2. PICK i : i = b[1]
    OBVIOUS
  <2>3. i \in DOMAIN queue
    BY <1>r, <2>2 DEF Next1, Fits
  <2>4. queue[i] \in ItemSet
    BY <1>q, <2>3
  <2>5. queue[i].attempts + 1 \in Nat /\ queue[i].type \in {MintType, RewardType}
    BY <2>4 DEF ItemSet
  <2>6. PICK n \in Nat : n = queue[i].attempts + 1
    BY <2>5
  <2>7. queue' = [queue EXCEPT ![i].status = "RUNNING", ![i].attempts = n]
    BY <2>1, <2>2, <2>6
  <2>8. /\ queue'[i].status = "RUNNING"
        /\ \A j \in DOMAIN queue \ {i} : queue'[j] = queue[j]
    BY <1>q, <2>3, <2>7, SettleStatus
  <2>9. actionWorker'[s].item = i /\ actionWorker'[s].pc \in {MintType, RewardType}
    BY <1>r, <1>s, <2>1, <2>2, <2>5 DEF ActionRow
  <2>10. ItemOf(s) = 0
    BY <1>4 DEF TakeItem, AtAction, BetweenItems
  <2>11. Takes(s, i)
    BY <2>8, <2>9, <2>10 DEF Takes, ItemOf
  <2> QED
    BY <2>3, <2>9, <2>11 DEF Good, MintType, RewardType
<1>5. ASSUME Succeed(s) \/ ActionThrow(s)
      PROVE  Good
  <2>1. PICK status \in {"SUCCEEDED", "FAILED"} : ItemSettle(s, status)
    BY <1>5 DEF Succeed, ActionThrow
  <2>2. PICK i : i = ItemOf(s)
    OBVIOUS
  <2>3. i \in DOMAIN queue
    BY <1>5, <1>r, <2>2 DEF Succeed, ActionThrow, ItemOf, AtAction, Fits
  <2>4. queue[i].attempts \in Nat /\ queue[i] \in ItemSet
    <3>1. queue[i] \in ItemSet
      BY <1>q, <2>3
    <3> QED
      BY <3>1 DEF ItemSet
  <2>5. PICK n \in Nat : n = queue[i].attempts
    BY <2>4
  <2>6. queue' = [queue EXCEPT ![i].status = status, ![i].attempts = n]
    <3>1. [queue[i] EXCEPT !.status = status] = [queue[i] EXCEPT !.status = status, !.attempts = n]
      BY <2>4, <2>5 DEF ItemSet
    <3> QED
      BY <2>1, <2>2, <3>1 DEF ItemSettle
  <2>7. /\ queue'[i].status = status
        /\ \A j \in DOMAIN queue \ {i} : queue'[j] = queue[j]
    BY <1>q, <2>3, <2>6, SettleStatus
  <2>8. actionWorker'[s].item = 0
    <3>1. PICK batch : ActionSays(s, [IdleActions EXCEPT !.pc = "round", !.batch = batch])
      BY <2>1 DEF ItemSettle
    <3>2. [IdleActions EXCEPT !.pc = "round", !.batch = batch].item = 0
      BY DEF IdleActions
    <3> QED
      BY <1>s, <3>1, <3>2
  <2>9. Settles(s)
    BY <2>2, <2>7, <2>8 DEF Settles, ItemOf
  <2> QED
    BY <2>8, <2>9 DEF Good, ItemOf
<1>6. ASSUME OwnKnown(s) \/ MintHash(s) \/ MintMember(s) \/ MintOwn(s) \/ RewardHash(s)
      PROVE  Good
  <2>1. queue' = queue
    BY <1>6 DEF OwnKnown, MintHash, Hash, MintMember, MintOwn, RewardHash, ActionLocal
  <2>2. \/ ActionSays(s, [actionWorker[s] EXCEPT !.pc = "done"])
        \/ ActionSays(s, [actionWorker[s] EXCEPT !.pc = "receipt"])
        \/ ActionSays(s, [actionWorker[s] EXCEPT !.pc = "own"])
        \/ ActionSays(s, [actionWorker[s] EXCEPT !.pc = "item"])
    BY <1>6 DEF OwnKnown, MintHash, Hash, MintMember, MintOwn, RewardHash
  <2>3. \A pc \in {"done", "receipt", "own", "item"} :
          ActionSays(s, [actionWorker[s] EXCEPT !.pc = pc]) => Good
    <3> TAKE pc \in {"done", "receipt", "own", "item"}
    <3>1. pc \notin {"idle", "round"}
      OBVIOUS
    <3> QED
      BY <1>p1, <1>u, <2>1, <3>1
  <2> QED
    BY <2>2, <2>3
<1>7. ASSUME MintReceipt(s) \/ RewardRead(s)
      PROVE  Good
  <2>1. queue' = queue
    BY <1>7 DEF MintReceipt, RewardRead, ActionLocal
  <2>2. CASE MintReceipt(s)
    BY <1>p2, <1>u, <2>1, <2>2 DEF MintReceipt
  <2>3. CASE RewardRead(s)
    <3>1. PICK token, value :
            ActionSays(s, [actionWorker[s] EXCEPT !.pc = "submit reward", !.token = token,
                                                  !.keys = value])
      BY <2>3 DEF RewardRead
    <3> QED
      BY <1>p3, <1>u, <2>1, <3>1
  <2> QED
    BY <1>7, <2>2, <2>3
<1>8. ASSUME MintSubmit(s) \/ RewardSubmit(s)
      PROVE  Good
  <2>1. queue' = queue
    BY <1>8 DEF MintSubmit, RewardSubmit
  <2>2. CASE MintSubmit(s)
    BY <1>p4, <1>u, <2>1, <2>2 DEF MintSubmit, Submit
  <2>3. CASE RewardSubmit(s)
    BY <1>p4, <1>u, <2>1, <2>3 DEF RewardSubmit, Submit
  <2> QED
    BY <1>8, <2>2, <2>3
<1>9. ASSUME MintKnown(s) \/ MintItem(s)
      PROVE  Good
  <2>1. PICK i : i = ItemOf(s)
    OBVIOUS
  <2>2. i \in DOMAIN queue
    BY <1>9, <1>r, <2>1 DEF MintKnown, MintItem, ItemOf, AtAction, Fits, MintPcs, MintType
  <2>3. membership \in Nat /\ actionWorker[s].token \in Nat
    BY <1>r DEF QueueOK, TablesOK, WorkerTokens, NoToken, Minted, ChainOK, ActionRow
  <2>4. PICK token \in Nat : queue' = [queue EXCEPT ![i].token = token]
    BY <1>9, <2>1, <2>3 DEF MintKnown, MintItem
  <2>5. Kept
    BY <1>q, <2>2, <2>4, SettleToken DEF Kept
  <2>6. CASE MintKnown(s)
    BY <1>p2, <2>5, <2>6 DEF MintKnown
  <2>7. CASE MintItem(s)
    BY <1>p1, <2>5, <2>7 DEF MintItem
  <2> QED
    BY <1>9, <2>6, <2>7
<1>10. Good
  BY <1>1, <1>2, <1>3, <1>4, <1>5, <1>6, <1>7, <1>8, <1>9 DEF RunActions, RunMint, RunReward
<1> QED
  BY <1>10, <1>d DEF Good

(* What runs and is held by nobody is only added to by a stop.             *)
LEMMA RunningFinite ==
  ASSUME queue \in Seq(ItemSet)
  PROVE  IsFiniteSet(Running \ Held) /\ Cardinality(Running \ Held) \in Nat
<1>1. IsFiniteSet(1..Len(queue)) /\ DOMAIN queue = 1..Len(queue)
  BY FS_Interval
<1>2. Running \ Held \subseteq 1..Len(queue)
  BY <1>1 DEF Running
<1>3. IsFiniteSet(Running \ Held)
  BY <1>1, <1>2, FS_Subset
<1> QED
  BY <1>3, FS_CardinalityType

LEMMA ActionsCutNothing ==
  ASSUME QueueOK, BetweenItems, NEW s \in Servers, RunActions(s)
  PROVE  Running' \ Held' \subseteq Running \ Held
<1>1. /\ (DOMAIN queue)' = DOMAIN queue
      /\ \/ Keeps(s)
         \/ \E i \in DOMAIN queue : Takes(s, i)
         \/ Settles(s)
  BY ActionsHold
<1>2. \A t \in Servers \ {s} : actionWorker'[t] = actionWorker[t]
  BY OthersAct
<1>3. \A i \in DOMAIN queue : i # 0
  BY DEF QueueOK, TablesOK
<1> SUFFICES ASSUME NEW i \in Running', i \notin Held'
             PROVE  i \in Running /\ i \notin Held
  OBVIOUS
<1>4. i \in DOMAIN queue /\ queue'[i].status = "RUNNING"
  BY <1>1 DEF Running
<1>5. \A t \in Servers : actionWorker'[t].item # i
  BY DEF Held, ItemOf
<1>6. \A t \in Servers \ {s} : actionWorker[t].item # i
  BY <1>2, <1>5
<1>7. CASE Keeps(s)
  BY <1>4, <1>5, <1>6, <1>7 DEF Keeps, Running, Held, ItemOf
<1>8. ASSUME NEW j \in DOMAIN queue, Takes(s, j)
      PROVE  i \in Running /\ i \notin Held
  <2>1. i # j
    BY <1>5, <1>8 DEF Takes, ItemOf
  <2>2. actionWorker[s].item # i
    BY <1>3, <1>4, <1>8 DEF Takes, ItemOf
  <2> QED
    BY <1>4, <1>6, <1>8, <2>1, <2>2 DEF Takes, Running, Held, ItemOf
<1>9. CASE Settles(s)
  <2>1. i # ItemOf(s)
    BY <1>4, <1>9 DEF Settles
  <2> QED
    BY <1>4, <1>6, <1>9, <2>1 DEF Settles, Running, Held, ItemOf
<1> QED
  BY <1>1, <1>7, <1>8, <1>9

(* The loop over events adds items that are pending.                       *)
LEMMA EventsOnlyAdd ==
  ASSUME QueueOK, NEW s \in Servers, HandleEvents(s)
  PROVE  /\ \A j \in DOMAIN queue : queue'[j] = queue[j]
         /\ \A j \in (DOMAIN queue)' : j \in DOMAIN queue \/ queue'[j].status = "PENDING"
         /\ \A j \in (DOMAIN queue)' : queue'[j].status = "SUCCEEDED" => j \in DOMAIN queue
<1>1. queue' = queue \/ \E type, e, token : queue' = Append(queue, NewItem(type, e, token))
  BY DEF HandleEvents, EventRound, EventMark, EventRoundEnd, EventReject, EventThrow,
         EventSettle, EventLook, EnsureMint, EnsureReward, EnsureFind, EnsureCreate,
         EventClose, EventLocal
<1>2. ASSUME NEW type, NEW e, NEW token, queue' = Append(queue, NewItem(type, e, token))
      PROVE  /\ \A j \in DOMAIN queue : queue'[j] = queue[j]
             /\ \A j \in (DOMAIN queue)' : j \in DOMAIN queue \/ queue'[j].status = "PENDING"
  <2>1. PICK item : item = NewItem(type, e, token)
    OBVIOUS
  <2>2. item.status = "PENDING"
    BY <2>1 DEF NewItem
  <2>3. queue' = Append(queue, item) /\ queue \in Seq(ItemSet)
    BY <1>2, <2>1 DEF QueueOK, TablesOK
  <2>4. /\ DOMAIN queue' = DOMAIN queue \cup {Len(queue) + 1}
        /\ queue'[Len(queue) + 1] = item
        /\ \A j \in DOMAIN queue : queue'[j] = queue[j]
    BY <2>3
  <2> QED
    BY <2>2, <2>4
<1>3. /\ \A j \in DOMAIN queue : queue'[j] = queue[j]
      /\ \A j \in (DOMAIN queue)' : j \in DOMAIN queue \/ queue'[j].status = "PENDING"
  BY <1>1, <1>2
<1> QED
  BY <1>3

(* One item is left running at each stop.                                 *)
LEMMA CutOffInvariant == Spec => []CutOffInv
<1>1. Init => CutOffInv
  <2> SUFFICES ASSUME Init
               PROVE  CutOffInv
    OBVIOUS
  <2>1. \A s \in Servers : ItemOf(s) = 0
    BY DEF Init, IdleActions, ItemOf
  <2>2. Running \ Held = {}
    BY DEF Init, Running
  <2>3. cuts = 0 /\ Cardinality({}) = 0
    BY FS_EmptySet DEF Init
  <2> QED
    BY <2>1, <2>2, <2>3 DEF CutOffInv, BetweenItems
<1>2. QueueOK /\ QueueOK' /\ CutOffInv /\ [Next]_vars => CutOffInv'
  <2> SUFFICES ASSUME QueueOK, QueueOK', BetweenItems, Cardinality(Running \ Held) <= cuts,
                      [Next]_vars
               PROVE  BetweenItems' /\ Cardinality(Running \ Held)' <= cuts'
    BY DEF CutOffInv
  <2> DEFINE Good == BetweenItems' /\ Cardinality(Running \ Held)' <= cuts'
  <2>n. cuts \in Nat /\ cuts' \in Nat
    BY QueueAssumption DEF QueueOK, CountsOK
  <2>f. /\ IsFiniteSet(Running \ Held) /\ Cardinality(Running \ Held) \in Nat
        /\ IsFiniteSet(Running \ Held)' /\ Cardinality(Running \ Held)' \in Nat
    <3>1. IsFiniteSet(Running \ Held) /\ Cardinality(Running \ Held) \in Nat
      BY RunningFinite DEF QueueOK, TablesOK
    <3>2. queue' \in Seq(ItemSet)
      BY DEF QueueOK, TablesOK
    <3>3. IsFiniteSet(1..Len(queue')) /\ DOMAIN queue' = 1..Len(queue')
      BY <3>2, FS_Interval
    <3>4. Running' \ Held' \subseteq 1..Len(queue')
      BY <3>3 DEF Running
    <3>5. IsFiniteSet(Running' \ Held')
      BY <3>3, <3>4, FS_Subset
    <3>6. Cardinality(Running' \ Held') \in Nat
      BY <3>5, FS_CardinalityType
    <3> QED
      BY <3>1, <3>5, <3>6
  <2>c. ASSUME Running' \ Held' \subseteq Running \ Held, cuts' = cuts
        PROVE  Cardinality(Running \ Held)' <= cuts'
    <3>1. Cardinality(Running' \ Held') <= Cardinality(Running \ Held)
      BY <2>c, <2>f, FS_Subset
    <3> QED
      BY <2>c, <2>f, <2>n, <3>1
  <2>u. ASSUME actionWorker' = actionWorker, cuts' = cuts,
               \A i \in (DOMAIN queue)' : queue'[i].status = "RUNNING" =>
                 i \in DOMAIN queue /\ queue[i].status = "RUNNING"
        PROVE  Good
    <3>1. Running' \ Held' \subseteq Running \ Held
      BY <2>u DEF Running, Held, ItemOf
    <3> QED
      BY <2>c, <2>u, <3>1 DEF BetweenItems, ItemOf
  <2>q. queue' = queue => \A i \in (DOMAIN queue)' : queue'[i].status = "RUNNING" =>
                             i \in DOMAIN queue /\ queue[i].status = "RUNNING"
    OBVIOUS
  <2>1. CASE \E e \in Events : Deliver(e) \/ Route(e)
    BY <2>1, <2>q, <2>u DEF Deliver, Route, RouteIgnore, RouteCredit, RouteOther
  <2>2. ASSUME NEW s \in Servers, HandleEvents(s)
        PROVE  Good
    <3>1. UNCHANGED <<actionWorker, cuts>>
      BY <2>2, EventTypes
    <3>3. \A i \in (DOMAIN queue)' : queue'[i].status = "RUNNING" =>
            i \in DOMAIN queue /\ queue[i].status = "RUNNING"
      BY <2>2, EventsOnlyAdd
    <3> QED
      BY <2>u, <3>1, <3>3
  <2>3. ASSUME NEW s \in Servers, RunActions(s)
        PROVE  Good
    <3>1. Running' \ Held' \subseteq Running \ Held
      BY <2>3, ActionsCutNothing
    <3>2. cuts' = cuts
      BY <2>3 DEF RunActions, ActionRound, SkipItem, TakeItem, ActionRoundEnd, RunMint, MintKnown,
                  OwnKnown, MintSubmit, MintHash, Hash, MintReceipt, MintMember, MintOwn, MintItem,
                  RunReward, RewardRead, RewardSubmit, RewardHash, Succeed, ActionThrow,
                  ActionLocal, ActionOther
    <3>3. \A t \in Servers : actionWorker'[t].pc \in {"idle", "round"} => ItemOf(t)' = 0
      <4>1. \A t \in Servers \ {s} : actionWorker'[t] = actionWorker[t]
        BY <2>3, OthersAct
      <4>2. actionWorker'[s].pc \in {"idle", "round"} => ItemOf(s)' = 0
        BY <2>3, ActionsHold
      <4> TAKE t \in Servers
      <4>3. CASE t = s
        BY <4>2, <4>3
      <4>4. CASE t # s
        BY <4>1, <4>4 DEF BetweenItems, ItemOf
      <4> QED
        BY <4>3, <4>4
    <3>4. BetweenItems'
      BY <3>3 DEF BetweenItems
    <3> QED
      BY <2>c, <3>1, <3>2, <3>4
  <2>4. ASSUME NEW s \in Servers, Cut(s)
        PROVE  Good
    <3>1. CASE UNCHANGED <<actionWorker, cuts>>
      BY <2>4, <2>q, <2>u, <3>1, CutEffects DEF rows
    <3>2. CASE actionWorker' = [actionWorker EXCEPT ![s] = IdleActions] /\ cuts' = cuts + 1
      <4>1. /\ cuts' = cuts + 1 /\ queue' = queue
            /\ actionWorker' = [actionWorker EXCEPT ![s] = IdleActions]
        BY <2>4, <3>2, CutEffects DEF rows
      <4>2. \A t \in Servers \ {s} : actionWorker'[t] = actionWorker[t]
        BY <4>1 DEF QueueOK, ActionsOK
      <4>3. ItemOf(s)' = 0
        <5>1. actionWorker'[s] = IdleActions
          BY <4>1 DEF QueueOK, ActionsOK
        <5>2. IdleActions.item = 0
          BY DEF IdleActions
        <5> QED
          BY <5>1, <5>2 DEF ItemOf
      <4>4. BetweenItems'
        BY <4>2, <4>3 DEF BetweenItems, ItemOf
      <4>5. PICK i : i = ItemOf(s)
        OBVIOUS
      <4>6. Running' \ Held' \subseteq (Running \ Held) \cup {i}
        BY <4>1, <4>2, <4>5 DEF Running, Held, ItemOf
      <4>7. /\ IsFiniteSet((Running \ Held) \cup {i})
            /\ Cardinality((Running \ Held) \cup {i}) <= Cardinality(Running \ Held) + 1
        BY <2>f, FS_AddElement
      <4>8. Cardinality(Running' \ Held') <= Cardinality((Running \ Held) \cup {i})
        BY <4>6, <4>7, FS_Subset
      <4>9. Cardinality((Running \ Held) \cup {i}) \in Nat
        BY <4>7, FS_CardinalityType
      <4>10. Cardinality(Running \ Held)' <= cuts'
        BY <2>f, <2>n, <4>1, <4>7, <4>8, <4>9
      <4> QED
        BY <4>4, <4>10
    <3> QED
      BY <2>4, <3>1, <3>2, CutEffects
  <2>5. ASSUME NEW w \in DOMAIN workflows, Mine(w)
        PROVE  Good
    BY <2>5, <2>q, <2>u DEF Mine, OutsideOther, rows
  <2>6. CASE UNCHANGED vars
    BY <2>6, <2>q, <2>u DEF vars, rows
  <2> QED
    BY <2>1, <2>2, <2>3, <2>4, <2>5, <2>6 DEF Next
<1> QED
  BY <1>1, <1>2, QueueInvariant, PTL DEF Spec

-----------------------------------------------------------------------------
(* With one server an item that is worked on is running, so what succeeded *)
(* is not touched again, and the row says how far the work has come.       *)
Done(i) ==
  /\ queue[i].type = MintType => queue[i].token \in ownership
  /\ queue[i].type = RewardType => \E w \in DOMAIN workflows : workflows[w].item = i

Worked(row) ==
  /\ row.item # 0 => queue[row.item].status = "RUNNING"
  /\ row.pc \in {RewardType, "submit reward", "wait reward"} => queue[row.item].type = RewardType
  /\ row.pc = "own known" => queue[row.item].token = row.token
  /\ row.pc = "item" => row.token \in ownership
  /\ row.pc = "wait reward" => \E w \in DOMAIN workflows : workflows[w].item = row.item
  /\ row.pc = "done" => Done(row.item)

AllDone == \A i \in DOMAIN queue : queue[i].status = "SUCCEEDED" => Done(i)
WorkInv == OneServer => AllDone /\ \A s \in Servers : Worked(actionWorker[s])

(* Workflows are for the item they were submitted for.                     *)
WorkflowsStay ==
  \A w \in DOMAIN workflows :
    w \in (DOMAIN workflows)' /\ workflows'[w].item = workflows[w].item

LEMMA DoneStays ==
  ASSUME NEW i, queue'[i].type = queue[i].type, queue'[i].token = queue[i].token,
         ownership \subseteq ownership', WorkflowsStay, Done(i)
  PROVE  Done(i)'
BY DEF Done, WorkflowsStay

LEMMA WorkedStays ==
  ASSUME \A j \in DOMAIN queue : queue'[j] = queue[j], ownership' = ownership, WorkflowsStay,
         NEW row, Fits(row), Worked(row)
  PROVE  Worked(row)'
<1>1. row.item # 0 => queue'[row.item] = queue[row.item]
  BY DEF Fits
<1>2. row.pc \in {RewardType, "submit reward", "wait reward", "own known", "done"} => row.item # 0
  BY DEF Fits, RewardType
<1>3. row.pc = "done" => Done(row.item)'
  <2>1. PICK i : i = row.item
    OBVIOUS
  <2>2. row.pc = "done" => Done(i)'
    BY <1>1, <1>2, <2>1, DoneStays DEF Worked
  <2> QED
    BY <2>1, <2>2
<1>4. row.pc = "wait reward" => \E w \in (DOMAIN workflows)' : workflows'[w].item = row.item
  BY DEF Worked, WorkflowsStay
<1>5. row.item # 0 => queue'[row.item].status = "RUNNING"
  BY <1>1 DEF Worked
<1>6. row.pc \in {RewardType, "submit reward", "wait reward"} => queue'[row.item].type = RewardType
  BY <1>1, <1>2 DEF Worked
<1>7. row.pc = "own known" => queue'[row.item].token = row.token
  BY <1>1, <1>2 DEF Worked
<1>8. row.pc = "item" => row.token \in ownership'
  BY DEF Worked
<1> QED
  BY <1>3, <1>4, <1>5, <1>6, <1>7, <1>8 DEF Worked

(* Where the row says nothing but that its item runs.                      *)
LEMMA WorkedBegins ==
  ASSUME NEW row, row.item # 0 => queue'[row.item].status = "RUNNING",
         row.pc \in {"idle", "round", MintType, "wait mint", "receipt", "member", "own"}
  PROVE  Worked(row)'
<1>1. row.pc \notin {RewardType, "submit reward", "wait reward", "own known", "item", "done"}
  BY DEF MintType, RewardType
<1> QED
  BY <1>1 DEF Worked

(* An item is settled or given a token only by who holds it.               *)
LEMMA ActionsWork ==
  ASSUME QueueOK, BetweenItems, AllDone, NEW s \in Servers, Worked(actionWorker[s]), RunActions(s)
  PROVE  AllDone' /\ \E row : actionWorker'[s] = row /\ Worked(row)'
<1> DEFINE Good == AllDone' /\ \E row : actionWorker'[s] = row /\ Worked(row)'
<1>d. (DOMAIN queue)' = DOMAIN queue
  BY ActionsKeepItems
<1>r. /\ actionWorker \in [Servers -> ActionRow] /\ actionWorker[s] \in ActionRow
      /\ Fits(actionWorker[s])
  BY DEF QueueOK, ActionsOK
<1>q. queue \in Seq(ItemSet)
  BY DEF QueueOK, TablesOK
<1>y. /\ workflows \in Seq(WorkflowSet)
      /\ membership \in Nat
  BY DEF QueueOK, ChainOK, TablesOK, WorkerTokens, Minted, NoToken
<1>i. \A i \in DOMAIN queue : queue[i] \in ItemSet /\ i # 0
  BY <1>q
<1>s. ASSUME NEW row, ActionSays(s, row)
      PROVE  actionWorker'[s] = row
  BY <1>r, <1>s DEF ActionSays
<1>h. PICK h : h = ItemOf(s)
  OBVIOUS
<1>g. /\ actionWorker[s].pc \notin {"idle", "round"} =>
           h \in DOMAIN queue /\ h # 0 /\ queue[h].status = "RUNNING" /\ queue[h] \in ItemSet
      /\ actionWorker[s].item = h
  BY <1>h, <1>i, <1>r DEF Fits, Worked, ItemOf
<1>w. workflows' = workflows => WorkflowsStay
  BY DEF WorkflowsStay
<1>x. ASSUME NEW row, ActionSays(s, row), Worked(row)', WorkflowsStay,
             ownership \subseteq ownership',
             \A j \in DOMAIN queue : queue'[j].status = "SUCCEEDED" =>
               queue'[j] = queue[j] \/ Done(j)'
      PROVE  Good
  <2>1. ASSUME NEW j \in DOMAIN queue, queue'[j].status = "SUCCEEDED"
        PROVE  Done(j)'
    <3>1. CASE queue'[j] = queue[j]
      <4>1. Done(j)
        BY <2>1, <3>1 DEF AllDone
      <4> QED
        BY <1>x, <3>1, <4>1, DoneStays
    <3> QED
      BY <1>x, <2>1, <3>1
  <2>2. AllDone'
    BY <1>d, <2>1 DEF AllDone
  <2> QED
    BY <1>s, <1>x, <2>2
<1> HIDE DEF Good
\* The queue stays.
<1>k. ASSUME NEW row, ActionSays(s, row), Worked(row)', WorkflowsStay,
             ownership \subseteq ownership', queue' = queue
      PROVE  Good
  BY <1>k, <1>x
\* The item that is held gets a token, and goes on running.
<1>t. ASSUME NEW row, ActionSays(s, row), Worked(row)', workflows' = workflows,
             ownership' = ownership, NEW token \in Nat, queue' = [queue EXCEPT ![h].token = token],
             h \in DOMAIN queue, queue[h].status = "RUNNING"
      PROVE  Good
  <2>1. /\ queue'[h].status = queue[h].status
        /\ \A j \in DOMAIN queue \ {h} : queue'[j] = queue[j]
    BY <1>q, <1>t, SettleToken
  <2>2. \A j \in DOMAIN queue : queue'[j].status = "SUCCEEDED" => queue'[j] = queue[j]
    BY <1>t, <2>1
  <2> QED
    BY <1>t, <1>w, <1>x, <2>2
<1>1. ASSUME ActionRound(s) \/ SkipItem(s) \/ ActionRoundEnd(s)
      PROVE  Good
  <2>1. /\ UNCHANGED <<queue, workflows, ownership>>
        /\ actionWorker'[s].pc \in {"idle", "round"}
    <3>1. UNCHANGED <<queue, workflows, ownership>>
      BY <1>1 DEF ActionRound, SkipItem, ActionRoundEnd, ActionLocal
    <3>2. CASE ActionRound(s)
      <4>1. PICK batch : ActionSays(s, [IdleActions EXCEPT !.pc = "round", !.batch = batch])
        BY <3>2 DEF ActionRound
      <4>2. [IdleActions EXCEPT !.pc = "round", !.batch = batch].pc = "round"
        BY DEF IdleActions
      <4> QED
        BY <1>s, <3>1, <4>1, <4>2
    <3>3. CASE SkipItem(s)
      <4>1. PICK b : ActionSays(s, [actionWorker[s] EXCEPT !.batch = @ \ {b}])
        BY <3>3 DEF SkipItem
      <4>2. [actionWorker[s] EXCEPT !.batch = @ \ {b}].pc = "round"
        BY <1>r, <3>3 DEF SkipItem, AtAction, ActionRow
      <4> QED
        BY <1>s, <3>1, <4>1, <4>2
    <3>4. CASE ActionRoundEnd(s)
      <4>1. IdleActions.pc = "idle"
        BY DEF IdleActions
      <4> QED
        BY <1>s, <3>1, <3>4, <4>1 DEF ActionRoundEnd
    <3> QED
      BY <1>1, <3>2, <3>3, <3>4
  <2>2. PICK row : row = actionWorker'[s]
    OBVIOUS
  <2>3. row.item = 0
    BY <2>1, <2>2, ActionsHold DEF ItemOf
  <2>4. Worked(row)'
    BY <2>1, <2>2, <2>3, WorkedBegins
  <2>5. AllDone'
    <3> SUFFICES ASSUME NEW j \in DOMAIN queue, queue'[j].status = "SUCCEEDED"
                 PROVE  Done(j)'
      BY <1>d DEF AllDone
    <3> QED
      BY <1>w, <2>1, DoneStays DEF AllDone
  <2> QED
    BY <2>2, <2>4, <2>5 DEF Good
<1>2. ASSUME TakeItem(s)
      PROVE  Good
  <2>1. PICK b \in Next1(s) :
          /\ queue' = [queue EXCEPT ![b[1]].status = "RUNNING", ![b[1]].attempts = @ + 1]
          /\ ActionSays(s, [actionWorker[s] EXCEPT !.batch = @ \ {b}, !.item = b[1],
                                                   !.pc = queue[b[1]].type])
    BY <1>2 DEF TakeItem
  <2>2. PICK i : i = b[1]
    OBVIOUS
  <2>3. i \in DOMAIN queue
    BY <1>r, <2>2 DEF Next1, Fits
  <2>4. queue[i].attempts + 1 \in Nat /\ queue[i].type \in {MintType, RewardType}
    BY <1>i, <2>3 DEF ItemSet
  <2>5. PICK n \in Nat : n = queue[i].attempts + 1
    BY <2>4
  <2>6. queue' = [queue EXCEPT ![i].status = "RUNNING", ![i].attempts = n]
    BY <2>1, <2>2, <2>5
  <2>7. /\ queue'[i].status = "RUNNING" /\ queue'[i].type = queue[i].type
        /\ \A j \in DOMAIN queue \ {i} : queue'[j] = queue[j]
    BY <1>q, <2>3, <2>6, SettleStatus
  <2>8. PICK row : row = [actionWorker[s] EXCEPT !.batch = @ \ {b}, !.item = i,
                                                 !.pc = queue[i].type]
    OBVIOUS
  <2>9. row.item = i /\ row.pc = queue[i].type
    BY <1>r, <2>8 DEF ActionRow
  <2>10. Worked(row)'
    <3>1. row.pc \notin {"wait reward", "submit reward", "own known", "item", "done"}
      BY <2>4, <2>9 DEF MintType, RewardType
    <3>2. row.pc = RewardType => queue'[row.item].type = RewardType
      BY <2>7, <2>9
    <3>3. queue'[row.item].status = "RUNNING"
      BY <2>7, <2>9
    <3> QED
      BY <3>1, <3>2, <3>3 DEF Worked
  <2>11. ActionSays(s, row) /\ UNCHANGED <<ownership, workflows>>
    BY <1>2, <2>1, <2>2, <2>8 DEF TakeItem
  <2>12. \A j \in DOMAIN queue : queue'[j].status = "SUCCEEDED" => queue'[j] = queue[j]
    BY <2>7
  <2> QED
    BY <1>w, <1>x, <2>10, <2>11, <2>12
<1>3. ASSUME Succeed(s) \/ ActionThrow(s)
      PROVE  Good
  <2>1. PICK status \in {"SUCCEEDED", "FAILED"} :
          ItemSettle(s, status) /\ (status = "SUCCEEDED" => AtAction(s, "done"))
    BY <1>3 DEF Succeed, ActionThrow
  <2>2. h \in DOMAIN queue
    BY <1>3, <1>g, <1>h, <1>r DEF Succeed, ActionThrow, AtAction, Fits
  <2>3. queue[h].attempts \in Nat
    BY <1>i, <2>2 DEF ItemSet
  <2>4. PICK n \in Nat : n = queue[h].attempts
    BY <2>3
  <2>5. queue' = [queue EXCEPT ![h].status = status, ![h].attempts = n]
    <3>1. [queue[h] EXCEPT !.status = status] = [queue[h] EXCEPT !.status = status, !.attempts = n]
      BY <1>i, <2>2, <2>4 DEF ItemSet
    <3> QED
      BY <1>h, <2>1, <3>1 DEF ItemSettle
  <2>6. /\ queue'[h].status = status
        /\ queue'[h].type = queue[h].type /\ queue'[h].token = queue[h].token
        /\ \A j \in DOMAIN queue \ {h} : queue'[j] = queue[j]
    BY <1>q, <2>2, <2>5, SettleStatus
  <2>7. UNCHANGED <<ownership, workflows>>
    BY <1>3 DEF Succeed, ActionThrow
  <2>8. status = "SUCCEEDED" => Done(h)'
    <3>1. status = "SUCCEEDED" => Done(h)
      BY <1>g, <2>1 DEF Worked, AtAction
    <3> QED
      BY <1>w, <2>6, <2>7, <3>1, DoneStays
  <2>9. PICK row : row = [IdleActions EXCEPT !.pc = "round", !.batch = actionWorker[s].batch]
    OBVIOUS
  <2>10. row.pc = "round" /\ row.item = 0
    BY <2>9 DEF IdleActions
  <2>11. Worked(row)'
    BY <2>10, WorkedBegins
  <2>12. ActionSays(s, row)
    BY <2>1, <2>9 DEF ItemSettle
  <2>13. \A j \in DOMAIN queue : queue'[j].status = "SUCCEEDED" => queue'[j] = queue[j] \/ Done(j)'
    BY <2>6, <2>8
  <2> QED
    BY <1>w, <1>x, <2>7, <2>11, <2>12, <2>13
<1>4. ASSUME MintKnown(s)
      PROVE  Good
  <2>1. PICK token \in Nat : token = membership
    BY <1>y
  <2>2. PICK row : row = [actionWorker[s] EXCEPT !.pc = "own known", !.token = token]
    OBVIOUS
  <2>3. row.pc = "own known" /\ row.token = token /\ row.item = h
    BY <1>g, <1>r, <2>2 DEF ActionRow
  <2>4. h \in DOMAIN queue /\ queue[h].status = "RUNNING"
    BY <1>4, <1>g DEF MintKnown, AtAction, MintType
  <2>5. queue' = [queue EXCEPT ![h].token = token]
    BY <1>4, <1>h, <2>1 DEF MintKnown
  <2>6. queue'[h].status = "RUNNING" /\ queue'[h].token = token
    BY <1>q, <2>4, <2>5, SettleToken
  <2>7. Worked(row)'
    BY <2>3, <2>6 DEF Worked, RewardType
  <2>8. ActionSays(s, row) /\ UNCHANGED <<ownership, workflows>>
    BY <1>4, <2>1, <2>2 DEF MintKnown
  <2> QED
    BY <1>t, <2>4, <2>5, <2>7, <2>8
<1>5. ASSUME MintItem(s)
      PROVE  Good
  <2>1. PICK token \in Nat : token = actionWorker[s].token
    BY <1>r DEF ActionRow
  <2>2. PICK row : row = [actionWorker[s] EXCEPT !.pc = "done"]
    OBVIOUS
  <2>3. row.pc = "done" /\ row.item = h
    BY <1>g, <1>r, <2>2 DEF ActionRow
  <2>4. actionWorker[s].pc = "item"
    BY <1>5 DEF MintItem, AtAction
  <2>5. /\ h \in DOMAIN queue /\ queue[h].status = "RUNNING" /\ queue[h].type = MintType
        /\ token \in ownership
    <3>1. h \in DOMAIN queue /\ queue[h].status = "RUNNING"
      BY <1>g, <2>4
    <3>2. queue[h].type = MintType
      BY <1>g, <1>r, <2>4 DEF Fits, MintPcs
    <3>3. token \in ownership
      BY <2>1, <2>4 DEF Worked
    <3> QED
      BY <3>1, <3>2, <3>3
  <2>6. queue' = [queue EXCEPT ![h].token = token]
    BY <1>5, <1>h, <2>1 DEF MintItem
  <2>7. /\ queue'[h].status = "RUNNING" /\ queue'[h].token = token
        /\ queue'[h].type = queue[h].type
    BY <1>q, <2>5, <2>6, SettleToken
  <2>8. ActionSays(s, row) /\ UNCHANGED <<ownership, workflows>>
    BY <1>5, <2>2 DEF MintItem
  <2>9. Done(h)'
    BY <2>5, <2>7, <2>8 DEF Done, MintType, RewardType
  <2>10. Worked(row)'
    BY <2>3, <2>7, <2>9 DEF Worked, RewardType
  <2> QED
    BY <1>t, <2>5, <2>6, <2>8, <2>10
<1>6. ASSUME OwnKnown(s)
      PROVE  Good
  <2>1. PICK row : row = [actionWorker[s] EXCEPT !.pc = "done"]
    OBVIOUS
  <2>2. row.pc = "done" /\ row.item = h
    BY <1>g, <1>r, <2>1 DEF ActionRow
  <2>3. actionWorker[s].pc = "own known"
    BY <1>6 DEF OwnKnown, AtAction
  <2>4. queue[h].status = "RUNNING" /\ queue[h].type = MintType
    BY <1>g, <1>r, <2>3 DEF Fits, MintPcs
  <2>5. queue[h].token = actionWorker[s].token
    BY <1>g, <2>3 DEF Worked
  <2>6. /\ ActionSays(s, row) /\ UNCHANGED <<queue, workflows>>
        /\ ownership' = ownership \cup {actionWorker[s].token}
    BY <1>6, <2>1 DEF OwnKnown
  <2>7. Done(h)'
    BY <2>4, <2>5, <2>6 DEF Done, MintType, RewardType
  <2>8. Worked(row)'
    BY <2>2, <2>4, <2>6, <2>7 DEF Worked, RewardType
  <2> QED
    BY <1>k, <1>w, <2>6, <2>8
<1>7. ASSUME MintHash(s) \/ MintReceipt(s) \/ MintMember(s)
      PROVE  Good
  <2>1. /\ UNCHANGED <<queue, workflows, ownership>>
        /\ actionWorker[s].pc \in {"wait mint", "receipt", "member"}
    BY <1>7 DEF MintHash, Hash, MintReceipt, MintMember, ActionLocal, AtAction
  <2>2. PICK row : ActionSays(s, row) /\ row.item = h /\ row.pc \in {"receipt", "member", "own"}
    <3>1. ASSUME NEW pc \in {"receipt", "own"}, ActionSays(s, [actionWorker[s] EXCEPT !.pc = pc])
          PROVE  \E row : ActionSays(s, row) /\ row.item = h /\ row.pc \in {"receipt", "member", "own"}
      <4>1. PICK row : row = [actionWorker[s] EXCEPT !.pc = pc]
        OBVIOUS
      <4>2. row.pc = pc /\ row.item = h
        BY <1>g, <1>r, <4>1 DEF ActionRow
      <4> QED
        BY <3>1, <4>1, <4>2
    <3>2. ASSUME NEW token, ActionSays(s, [actionWorker[s] EXCEPT !.pc = "member", !.token = token])
          PROVE  \E row : ActionSays(s, row) /\ row.item = h /\ row.pc \in {"receipt", "member", "own"}
      <4>1. PICK row : row = [actionWorker[s] EXCEPT !.pc = "member", !.token = token]
        OBVIOUS
      <4>2. row.pc = "member" /\ row.item = h
        BY <1>g, <1>r, <4>1 DEF ActionRow
      <4> QED
        BY <3>2, <4>1, <4>2
    <3>3. \/ ActionSays(s, [actionWorker[s] EXCEPT !.pc = "receipt"])
          \/ ActionSays(s, [actionWorker[s] EXCEPT !.pc = "own"])
          \/ \E token : ActionSays(s, [actionWorker[s] EXCEPT !.pc = "member", !.token = token])
      <4>1. CASE MintHash(s)
        BY <4>1 DEF MintHash, Hash
      <4>2. CASE MintReceipt(s)
        BY <4>2 DEF MintReceipt
      <4>3. CASE MintMember(s)
        BY <4>3 DEF MintMember
      <4> QED
        BY <1>7, <4>1, <4>2, <4>3
    <3> QED
      BY <3>1, <3>2, <3>3
  <2>3. queue'[h].status = "RUNNING"
    BY <1>g, <2>1
  <2>4. Worked(row)'
    BY <2>2, <2>3, WorkedBegins
  <2> QED
    BY <1>k, <1>w, <2>1, <2>2, <2>4
<1>8. ASSUME MintOwn(s)
      PROVE  Good
  <2>1. PICK row : row = [actionWorker[s] EXCEPT !.pc = "item"]
    OBVIOUS
  <2>2. row.pc = "item" /\ row.item = h /\ row.token = actionWorker[s].token
    BY <1>g, <1>r, <2>1 DEF ActionRow
  <2>3. queue[h].status = "RUNNING"
    BY <1>8, <1>g DEF MintOwn, AtAction
  <2>4. /\ ActionSays(s, row) /\ UNCHANGED <<queue, workflows>>
        /\ ownership' = ownership \cup {actionWorker[s].token}
    BY <1>8, <2>1 DEF MintOwn
  <2>5. Worked(row)'
    BY <2>2, <2>3, <2>4 DEF Worked, RewardType
  <2> QED
    BY <1>k, <1>w, <2>4, <2>5
<1>9. ASSUME RewardRead(s)
      PROVE  Good
  <2>1. PICK token, value :
          ActionSays(s, [actionWorker[s] EXCEPT !.pc = "submit reward", !.token = token,
                                                !.keys = value])
    BY <1>9 DEF RewardRead
  <2>2. PICK row : row = [actionWorker[s] EXCEPT !.pc = "submit reward", !.token = token,
                                                 !.keys = value]
    OBVIOUS
  <2>3. row.pc = "submit reward" /\ row.item = h
    BY <1>g, <1>r, <2>2 DEF ActionRow
  <2>4. actionWorker[s].pc = RewardType
    BY <1>9 DEF RewardRead, AtAction
  <2>5. queue[h].status = "RUNNING" /\ queue[h].type = RewardType
    <3>1. queue[h].status = "RUNNING"
      BY <1>g, <2>4 DEF RewardType
    <3>2. queue[h].type = RewardType
      BY <1>g, <2>4 DEF Worked
    <3> QED
      BY <3>1, <3>2
  <2>6. UNCHANGED <<queue, workflows, ownership>>
    BY <1>9 DEF RewardRead, ActionLocal
  <2>7. Worked(row)'
    BY <2>3, <2>5, <2>6 DEF Worked, RewardType
  <2> QED
    BY <1>k, <1>w, <2>1, <2>2, <2>6, <2>7
<1>10. ASSUME RewardHash(s)
       PROVE  Good
  <2>1. PICK row : row = [actionWorker[s] EXCEPT !.pc = "done"]
    OBVIOUS
  <2>2. row.pc = "done" /\ row.item = h
    BY <1>g, <1>r, <2>1 DEF ActionRow
  <2>3. actionWorker[s].pc = "wait reward"
    BY <1>10 DEF RewardHash, Hash, AtAction
  <2>4. queue[h].status = "RUNNING" /\ queue[h].type = RewardType
    BY <1>g, <2>3 DEF Worked
  <2>5. \E w \in DOMAIN workflows : workflows[w].item = h
    BY <1>g, <2>3 DEF Worked
  <2>6. ActionSays(s, row) /\ UNCHANGED <<queue, workflows, ownership>>
    BY <1>10, <2>1 DEF RewardHash, Hash, ActionLocal
  <2>7. Done(h)'
    BY <2>4, <2>5, <2>6 DEF Done, MintType, RewardType
  <2>8. Worked(row)'
    BY <2>2, <2>4, <2>6, <2>7 DEF Worked, RewardType
  <2> QED
    BY <1>k, <1>w, <2>6, <2>8
<1>11. ASSUME NEW token \in Nat, NEW value \in Nat, NEW pc, pc \in {"wait mint", "wait reward"},
              Submit(s, token, value, pc), UNCHANGED <<queue, ownership>>,
              actionWorker[s].pc \in {MintType, "submit reward"},
              pc = "wait reward" => actionWorker[s].pc = "submit reward"
       PROVE  Good
  <2>1. h \in DOMAIN queue /\ queue[h].status = "RUNNING" /\ h = ItemOf(s)
    <3>1. actionWorker[s].pc \notin {"idle", "round"}
      BY <1>11 DEF MintType
    <3> QED
      BY <1>g, <1>h, <3>1
  <2>2. PICK w \in WorkflowSet :
          /\ workflows' = Append(workflows, w)
          /\ w.state = "sent" /\ w.type = TakenItem(s).type /\ w.item = ItemOf(s)
          /\ w.keys = value /\ w.token = token
    <3>1. Submit(s, token, value, pc) /\ ItemOf(s) \in DOMAIN queue
      BY <1>11, <2>1
    <3> QED
      BY <3>1, Submitted
  <2>3. /\ DOMAIN workflows' = DOMAIN workflows \cup {Len(workflows) + 1}
        /\ workflows'[Len(workflows) + 1] = w
        /\ \A j \in DOMAIN workflows : workflows'[j] = workflows[j]
    <3>1. workflows \in Seq(WorkflowSet) /\ workflows' = Append(workflows, w)
      BY <1>y, <2>2
    <3> QED
      BY <3>1, AddElement
  <2>4. WorkflowsStay /\ \E x \in (DOMAIN workflows)' : workflows'[x].item = h
    BY <2>1, <2>2, <2>3 DEF WorkflowsStay
  <2>5. PICK row : row = [actionWorker[s] EXCEPT !.pc = pc, !.wf = Len(workflows) + 1]
    OBVIOUS
  <2>6. row.pc = pc /\ row.item = h
    BY <1>g, <1>r, <2>5 DEF ActionRow
  <2>7. ActionSays(s, row)
    BY <1>11, <2>5 DEF Submit
  <2>8. pc = "wait reward" => queue[h].type = RewardType
    BY <1>11, <1>g DEF Worked
  <2>9. Worked(row)'
    <3>1. CASE pc = "wait mint"
      BY <1>11, <2>1, <2>6, <3>1, WorkedBegins
    <3>2. CASE pc = "wait reward"
      <4>1. row.pc = "wait reward" /\ row.item = h
        BY <2>6, <3>2
      <4>2. queue'[h].status = "RUNNING" /\ queue'[h].type = RewardType
        BY <1>11, <2>1, <2>8, <3>2
      <4>3. \E x \in (DOMAIN workflows)' : workflows'[x].item = h
        BY <2>4
      <4>4. row.pc \notin {"own known", "item", "done"}
        BY <4>1
      <4>5. queue'[row.item].status = "RUNNING" /\ queue'[row.item].type = RewardType
        BY <4>1, <4>2
      <4>6. \E x \in (DOMAIN workflows)' : workflows'[x].item = row.item
        BY <4>1, <4>3
      <4> QED
        BY <4>4, <4>5, <4>6 DEF Worked
    <3> QED
      BY <1>11, <3>1, <3>2
  <2> QED
    BY <1>11, <1>k, <2>4, <2>7, <2>9
<1>12. ASSUME MintSubmit(s) \/ RewardSubmit(s)
       PROVE  Good
  <2>1. CASE MintSubmit(s)
    <3>1. /\ Submit(s, NoToken, 0, "wait mint") /\ UNCHANGED <<queue, ownership>>
          /\ actionWorker[s].pc = MintType
      BY <2>1 DEF MintSubmit, AtAction
    <3>2. NoToken \in Nat
      BY DEF NoToken
    <3> QED
      BY <1>11, <3>1, <3>2
  <2>2. CASE RewardSubmit(s)
    <3>1. PICK token \in Nat, value \in Nat :
            token = actionWorker[s].token /\ value = actionWorker[s].keys
      BY <1>r DEF ActionRow
    <3>2. /\ Submit(s, token, value, "wait reward") /\ UNCHANGED <<queue, ownership>>
          /\ actionWorker[s].pc = "submit reward"
      BY <2>2, <3>1 DEF RewardSubmit, AtAction
    <3> QED
      BY <1>11, <3>2
  <2> QED
    BY <1>12, <2>1, <2>2
<1>13. Good
  BY <1>1, <1>2, <1>3, <1>4, <1>5, <1>6, <1>7, <1>8, <1>9, <1>10, <1>12
     DEF RunActions, RunMint, RunReward
<1> QED
  BY <1>13 DEF Good

(* What is recorded of work stays true when another actor takes a step.    *)
LEMMA WorkInvariant == Spec => []WorkInv
<1>1. Init => WorkInv
  <2> SUFFICES ASSUME Init
               PROVE  WorkInv
    OBVIOUS
  <2>1. AllDone
    BY DEF Init, AllDone
  <2>2. ASSUME NEW s \in Servers
        PROVE  Worked(actionWorker[s])
    <3>1. actionWorker[s].pc = "idle" /\ actionWorker[s].item = 0
      BY DEF Init, IdleActions
    <3> QED
      BY <3>1 DEF Worked, RewardType
  <2> QED
    BY <2>1, <2>2 DEF WorkInv
<1>2. QueueOK /\ CutOffInv /\ WorkInv /\ [Next]_vars => WorkInv'
  <2> SUFFICES ASSUME QueueOK, BetweenItems, OneServer, AllDone,
                      \A s \in Servers : Worked(actionWorker[s]), [Next]_vars
               PROVE  AllDone' /\ \A s \in Servers : Worked(actionWorker[s])'
    BY DEF CutOffInv, WorkInv
  <2> DEFINE Good == AllDone' /\ \A s \in Servers : Worked(actionWorker[s])'
  <2>k. ASSUME \A j \in DOMAIN queue : queue'[j] = queue[j],
               \A j \in (DOMAIN queue)' : queue'[j].status = "SUCCEEDED" => j \in DOMAIN queue,
               ownership' = ownership, WorkflowsStay,
               \A t \in Servers : actionWorker'[t] \in {actionWorker[t], IdleActions}
        PROVE  Good
    <3>1. AllDone'
      <4> SUFFICES ASSUME NEW j \in (DOMAIN queue)', queue'[j].status = "SUCCEEDED"
                   PROVE  Done(j)'
        BY DEF AllDone
      <4>1. j \in DOMAIN queue /\ queue'[j] = queue[j]
        BY <2>k
      <4>2. Done(j)
        BY <4>1 DEF AllDone
      <4> QED
        BY <2>k, <4>1, <4>2, DoneStays
    <3>2. ASSUME NEW t \in Servers
          PROVE  Worked(actionWorker[t])'
      <4>1. PICK now : now = actionWorker'[t]
        OBVIOUS
      <4>2. PICK old : old = actionWorker[t]
        OBVIOUS
      <4>3. Fits(old) /\ Worked(old)
        BY <4>2 DEF QueueOK, ActionsOK
      <4>4. Fits(IdleActions) /\ Worked(IdleActions)
        <5>1. IdleActions.pc = "idle" /\ IdleActions.item = 0
          BY DEF IdleActions
        <5> QED
          BY <5>1, IdleFits DEF Worked, RewardType
      <4>5. Fits(now) /\ Worked(now)
        BY <2>k, <4>1, <4>2, <4>3, <4>4
      <4>6. Worked(now)'
        BY <2>k, <4>5, WorkedStays
      <4> QED
        BY <4>1, <4>6 DEF Worked, Done
    <3> QED
      BY <3>1, <3>2
  <2>w. workflows' = workflows => WorkflowsStay
    BY DEF WorkflowsStay
  <2>1. CASE \E e \in Events : Deliver(e) \/ Route(e)
    BY <2>1, <2>k, <2>w DEF Deliver, Route, RouteIgnore, RouteCredit, RouteOther, chain
  <2>2. ASSUME NEW s \in Servers, HandleEvents(s)
        PROVE  Good
    <3>1. UNCHANGED <<ownership, chain, actionWorker>>
      BY <2>2, EventTypes
    <3>2. /\ \A j \in DOMAIN queue : queue'[j] = queue[j]
          /\ \A j \in (DOMAIN queue)' : queue'[j].status = "SUCCEEDED" => j \in DOMAIN queue
      BY <2>2, EventsOnlyAdd
    <3> QED
      BY <2>k, <2>w, <3>1, <3>2 DEF chain
  <2>3. ASSUME NEW s \in Servers, RunActions(s)
        PROVE  Good
    <3>1. AllDone' /\ \E row : actionWorker'[s] = row /\ Worked(row)'
      BY <2>3, ActionsWork
    <3>2. Worked(actionWorker[s])'
      BY <3>1 DEF Worked, Done
    <3>3. \A t \in Servers : t = s
      BY DEF OneServer
    <3>4. \A t \in Servers : Worked(actionWorker[t])'
      BY <3>2, <3>3
    <3> QED
      BY <3>1, <3>4
  <2>4. ASSUME NEW s \in Servers, Cut(s)
        PROVE  Good
    BY <2>4, <2>k, <2>w, CutEffects DEF rows, chain, QueueOK, ActionsOK
  <2>5. ASSUME NEW w \in DOMAIN workflows, Mine(w)
        PROVE  Good
    <3>1. UNCHANGED <<queue, ownership, actionWorker>>
      BY <2>5 DEF Mine, OutsideOther, rows
    <3>2. WorkflowsStay
      <4>1. workflows \in Seq(WorkflowSet) /\ workflows[w] \in WorkflowSet
        BY DEF QueueOK, ChainOK
      <4>2. PICK wf : workflows' = [workflows EXCEPT ![w] = wf] /\ wf.item = workflows[w].item
        <5>1. CASE workflows[w].type = MintType
          <6>1. PICK wf : wf = [workflows[w] EXCEPT !.state = "mined", !.token = Len(keys) + 1]
            OBVIOUS
          <6>2. wf.item = workflows[w].item
            BY <4>1, <6>1 DEF WorkflowSet
          <6> QED
            BY <2>5, <5>1, <6>1, <6>2 DEF Mine
        <5>2. CASE workflows[w].type # MintType
          <6>1. PICK wf : wf = [workflows[w] EXCEPT !.state = "mined"]
            OBVIOUS
          <6>2. wf.item = workflows[w].item
            BY <4>1, <6>1 DEF WorkflowSet
          <6> QED
            BY <2>5, <5>2, <6>1, <6>2 DEF Mine
        <5> QED
          BY <5>1, <5>2
      <4> QED
        BY <4>1, <4>2 DEF WorkflowsStay
    <3> QED
      BY <2>k, <3>1, <3>2
  <2>6. CASE UNCHANGED vars
    BY <2>6, <2>k, <2>w DEF vars, rows, chain
  <2> QED
    BY <2>1, <2>2, <2>3, <2>4, <2>5, <2>6 DEF Next
<1> QED
  BY <1>1, <1>2, QueueInvariant, CutOffInvariant, PTL DEF Spec

-----------------------------------------------------------------------------
(* A mint is submitted where no membership is recorded, and from then on   *)
(* either the row is at work on it, or the membership is recorded, or an   *)
(* attempt failed or was cut off.                                          *)
MidMint(s) == actionWorker[s].pc \in {"wait mint", "receipt", "member"}
Spent == membership # NoToken \/ \E s \in Servers : MidMint(s)

MintsInv ==
  OneServer =>
    /\ Cardinality(MintWorkflows) <= 1 + failures + cuts
    /\ ~Spent => Cardinality(MintWorkflows) <= failures + cuts

LEMMA MintsFinite ==
  ASSUME workflows \in Seq(WorkflowSet)
  PROVE  IsFiniteSet(MintWorkflows) /\ Cardinality(MintWorkflows) \in Nat
<1>1. IsFiniteSet(1..Len(workflows)) /\ DOMAIN workflows = 1..Len(workflows)
  BY FS_Interval
<1>2. MintWorkflows \subseteq 1..Len(workflows)
  BY <1>1 DEF MintWorkflows
<1>3. IsFiniteSet(MintWorkflows)
  BY <1>1, <1>2, FS_Subset
<1> QED
  BY <1>3, FS_CardinalityType

LEMMA ActionsSpend ==
  ASSUME QueueOK, NEW s \in Servers, Worked(actionWorker[s]), RunActions(s)
  PROVE  \/ /\ MintWorkflows' = MintWorkflows
            /\ (failures' = failures \/ failures' = failures + 1)
            /\ membership # NoToken => membership' # NoToken
            /\ MidMint(s) => MidMint(s)' \/ membership' # NoToken \/ failures' = failures + 1
         \/ /\ membership = NoToken /\ ~MidMint(s) /\ MidMint(s)'
            /\ failures' = failures
            /\ \E w : w \notin MintWorkflows /\ MintWorkflows' = MintWorkflows \cup {w}
<1> DEFINE Mints == /\ membership = NoToken /\ ~MidMint(s) /\ MidMint(s)'
                    /\ failures' = failures
                    /\ \E w : w \notin MintWorkflows /\ MintWorkflows' = MintWorkflows \cup {w}
<1> DEFINE Others == /\ MintWorkflows' = MintWorkflows
                     /\ (failures' = failures \/ failures' = failures + 1)
                     /\ membership # NoToken => membership' # NoToken
                     /\ MidMint(s) => MidMint(s)' \/ membership' # NoToken \/ failures' = failures + 1
<1> HIDE DEF Mints, Others
<1>r. /\ actionWorker \in [Servers -> ActionRow] /\ actionWorker[s] \in ActionRow
      /\ Fits(actionWorker[s])
  BY DEF QueueOK, ActionsOK
<1>y. workflows \in Seq(WorkflowSet)
  BY DEF QueueOK, ChainOK
<1>s. ASSUME NEW row, ActionSays(s, row)
      PROVE  actionWorker'[s] = row
  BY <1>r, <1>s DEF ActionSays
<1>w. workflows' = workflows => MintWorkflows' = MintWorkflows
  BY DEF MintWorkflows
<1>1. ASSUME \/ ActionRound(s) \/ SkipItem(s) \/ TakeItem(s) \/ ActionRoundEnd(s) \/ Succeed(s)
             \/ MintKnown(s) \/ OwnKnown(s) \/ MintOwn(s) \/ MintItem(s) \/ RewardRead(s)
             \/ RewardHash(s)
      PROVE  Others
  <2>1. UNCHANGED <<workflows, membership, failures>>
    BY <1>1 DEF ActionRound, SkipItem, TakeItem, ActionRoundEnd, Succeed, MintKnown, OwnKnown,
                MintOwn, MintItem, RewardRead, RewardHash, Hash, ActionLocal
  <2>2. actionWorker[s].pc \in {"idle", "round", "done", MintType, RewardType, "own known", "own",
                                "item", "wait reward"}
    BY <1>1 DEF ActionRound, SkipItem, TakeItem, ActionRoundEnd, Succeed, MintKnown, OwnKnown,
                MintOwn, MintItem, RewardRead, RewardHash, Hash, AtAction
  <2>3. ~MidMint(s)
    BY <2>2 DEF MidMint, MintType, RewardType
  <2> QED
    BY <1>w, <2>1, <2>3 DEF Others
<1>2. ASSUME ActionThrow(s)
      PROVE  Others
  BY <1>2, <1>w DEF ActionThrow, Others
<1>3. ASSUME MintHash(s) \/ MintReceipt(s)
      PROVE  Others
  <2>1. UNCHANGED <<workflows, membership, failures>>
    BY <1>3 DEF MintHash, Hash, MintReceipt, ActionLocal
  <2>2. MidMint(s)'
    <3>1. CASE MintHash(s)
      <4>1. ActionSays(s, [actionWorker[s] EXCEPT !.pc = "receipt"])
        BY <3>1 DEF MintHash, Hash
      <4>2. [actionWorker[s] EXCEPT !.pc = "receipt"].pc = "receipt"
        BY <1>r DEF ActionRow
      <4> QED
        BY <1>s, <4>1, <4>2 DEF MidMint
    <3>2. CASE MintReceipt(s)
      <4>1. PICK token : ActionSays(s, [actionWorker[s] EXCEPT !.pc = "member", !.token = token])
        BY <3>2 DEF MintReceipt
      <4>2. [actionWorker[s] EXCEPT !.pc = "member", !.token = token].pc = "member"
        BY <1>r DEF ActionRow
      <4> QED
        BY <1>s, <4>1, <4>2 DEF MidMint
    <3> QED
      BY <1>3, <3>1, <3>2
  <2> QED
    BY <1>w, <2>1, <2>2 DEF Others
<1>4. ASSUME MintMember(s)
      PROVE  Others
  <2>1. /\ UNCHANGED <<workflows, failures>> /\ membership' = actionWorker[s].token
        /\ actionWorker[s].pc = "member"
    BY <1>4 DEF MintMember, AtAction
  <2>2. actionWorker[s].token \in Minted
    BY <1>r, <2>1 DEF Fits
  <2>3. membership' # NoToken
    <3>1. keys \in Seq(Nat)
      BY DEF QueueOK, ChainOK
    <3> QED
      BY <2>1, <2>2, <3>1 DEF Minted, NoToken
  <2> QED
    BY <1>w, <2>1, <2>3 DEF Others
<1>5. ASSUME MintSubmit(s) \/ RewardSubmit(s)
      PROVE  Mints \/ Others
  <2>1. PICK token, value, pc :
          /\ token \in Nat /\ value \in Nat
          /\ Submit(s, token, value, pc)
          /\ \/ MintSubmit(s) /\ pc = "wait mint"
             \/ RewardSubmit(s) /\ pc = "wait reward"
    <3>1. CASE MintSubmit(s)
      <4>1. Submit(s, NoToken, 0, "wait mint") /\ NoToken \in Nat
        BY <3>1 DEF MintSubmit, NoToken
      <4> QED
        BY <3>1, <4>1
    <3>2. CASE RewardSubmit(s)
      <4>1. PICK token \in Nat, value \in Nat :
              token = actionWorker[s].token /\ value = actionWorker[s].keys
        BY <1>r DEF ActionRow
      <4>2. Submit(s, token, value, "wait reward")
        BY <3>2, <4>1 DEF RewardSubmit
      <4> QED
        BY <3>2, <4>2
    <3> QED
      BY <1>5, <3>1, <3>2
  <2>2. ItemOf(s) \in DOMAIN queue
    BY <1>5, <1>r DEF MintSubmit, RewardSubmit, AtAction, Fits, ItemOf, MintType
  <2>3. PICK w \in WorkflowSet :
          /\ workflows' = Append(workflows, w)
          /\ w.state = "sent" /\ w.type = TakenItem(s).type /\ w.item = ItemOf(s)
          /\ w.keys = value /\ w.token = token
    <3>1. Submit(s, token, value, pc)
      BY <2>1
    <3>2. token \in Nat /\ value \in Nat
      BY <2>1
    <3> QED
      BY <2>2, <3>1, <3>2, Submitted
  <2>n. PICK n \in Nat : n = Len(workflows) + 1
    BY <1>y
  <2>4. /\ n \notin DOMAIN workflows
        /\ DOMAIN workflows' = DOMAIN workflows \cup {n}
        /\ workflows'[n] = w
        /\ \A j \in DOMAIN workflows : workflows'[j] = workflows[j]
    <3>1. workflows' = Append(workflows, w)
      BY <2>3
    <3>2. /\ Len(workflows) + 1 \notin DOMAIN workflows
          /\ DOMAIN workflows' = DOMAIN workflows \cup {Len(workflows) + 1}
          /\ workflows'[Len(workflows) + 1] = w
          /\ \A j \in DOMAIN workflows : workflows'[j] = workflows[j]
      BY <1>y, <3>1, AddElement
    <3> QED
      BY <2>n, <3>2
  <2>5. CASE MintSubmit(s) /\ pc = "wait mint"
    <3>1. /\ membership = NoToken /\ UNCHANGED <<membership, failures>>
          /\ actionWorker[s].pc = MintType
      BY <2>5 DEF MintSubmit, NoMembership, AtAction
    <3>2. w.type = MintType
      BY <1>r, <2>3, <3>1 DEF Fits, MintPcs, TakenItem, ItemOf
    <3>3. n \notin MintWorkflows /\ MintWorkflows' = MintWorkflows \cup {n}
      BY <2>4, <3>2 DEF MintWorkflows
    <3>4. ~MidMint(s)
      BY <3>1 DEF MidMint, MintType
    <3>5. MidMint(s)'
      <4>1. ActionSays(s, [actionWorker[s] EXCEPT !.pc = pc, !.wf = Len(workflows) + 1])
        BY <2>1 DEF Submit
      <4>2. [actionWorker[s] EXCEPT !.pc = pc, !.wf = Len(workflows) + 1].pc = "wait mint"
        BY <1>r, <2>5 DEF ActionRow
      <4> QED
        BY <1>s, <4>1, <4>2 DEF MidMint
    <3> QED
      BY <3>1, <3>3, <3>4, <3>5 DEF Mints
  <2>6. CASE RewardSubmit(s)
    <3>1. /\ UNCHANGED <<membership, failures>>
          /\ actionWorker[s].pc = "submit reward"
      BY <2>6 DEF RewardSubmit, AtAction
    <3>2. w.type = RewardType
      BY <2>3, <3>1 DEF Worked, TakenItem, ItemOf
    <3>3. MintWorkflows' = MintWorkflows
      BY <2>4, <3>2 DEF MintWorkflows, MintType, RewardType
    <3>4. ~MidMint(s)
      BY <3>1 DEF MidMint
    <3> QED
      BY <3>1, <3>3, <3>4 DEF Others
  <2> QED
    BY <2>1, <2>5, <2>6
<1>6. Mints \/ Others
  BY <1>1, <1>2, <1>3, <1>4, <1>5 DEF RunActions, RunMint, RunReward
<1> QED
  BY <1>6 DEF Mints, Others

(* What became of every item is accounted for.                             *)
THEOREM ItemsAccountedAlways == Spec => []ItemsAccounted
<1>1. Init => MintsInv
  <2> SUFFICES ASSUME Init
               PROVE  MintsInv
    OBVIOUS
  <2>1. MintWorkflows = {} /\ failures = 0 /\ cuts = 0
    BY DEF Init, MintWorkflows
  <2>2. Cardinality({}) = 0
    BY FS_EmptySet
  <2> QED
    BY <2>1, <2>2 DEF MintsInv
<1>2. QueueOK /\ QueueOK' /\ WorkInv /\ MintsInv /\ [Next]_vars => MintsInv'
  <2> SUFFICES ASSUME QueueOK, QueueOK', OneServer, \A s \in Servers : Worked(actionWorker[s]),
                      Cardinality(MintWorkflows) <= 1 + failures + cuts,
                      ~Spent => Cardinality(MintWorkflows) <= failures + cuts,
                      [Next]_vars
               PROVE  /\ Cardinality(MintWorkflows)' <= 1 + failures' + cuts'
                      /\ ~Spent' => Cardinality(MintWorkflows)' <= failures' + cuts'
    BY DEF WorkInv, MintsInv
  <2> DEFINE Good == /\ Cardinality(MintWorkflows)' <= 1 + failures' + cuts'
                     /\ ~Spent' => Cardinality(MintWorkflows)' <= failures' + cuts'
  <2>m. cuts \in Nat /\ cuts' \in Nat /\ failures \in Nat /\ failures' \in Nat
    BY QueueAssumption DEF QueueOK, CountsOK
  <2>n. /\ cuts \in Nat /\ cuts' \in Nat /\ failures \in Nat /\ failures' \in Nat
        /\ IsFiniteSet(MintWorkflows) /\ Cardinality(MintWorkflows) \in Nat
    BY <2>m, MintsFinite DEF QueueOK, ChainOK
  \* No mint is submitted, and what is spent stays spent or a trouble is counted.
  <2>k. ASSUME MintWorkflows' = MintWorkflows,
               \/ failures' + cuts' = failures + cuts
               \/ failures' + cuts' = failures + cuts + 1,
               Spent => Spent' \/ failures' + cuts' = failures + cuts + 1
        PROVE  Good
    <3>1. Cardinality(MintWorkflows)' = Cardinality(MintWorkflows)
      BY <2>k
    <3>2. PICK c, n, m :
            c = Cardinality(MintWorkflows) /\ n = failures + cuts /\ m = failures' + cuts'
      OBVIOUS
    <3>4. c \in Nat /\ n \in Nat /\ (m = n \/ m = n + 1)
      <4>1. n \in Nat
        BY <2>m, <3>2
      <4> QED
        BY <2>k, <2>n, <3>2, <4>1
    <3>5. c <= 1 + n /\ (~Spent => c <= n)
      <4>1. 1 + failures + cuts = 1 + n
        BY <2>m, <3>2
      <4> QED
        BY <3>2, <4>1
    <3>6. Spent => Spent' \/ m = n + 1
      BY <2>k, <3>2
    <3>7. c <= 1 + m
      BY <3>4, <3>5
    <3>8. ~Spent' => c <= m
      <4>1. CASE Spent
        BY <3>4, <3>5, <3>6, <4>1
      <4>2. CASE ~Spent
        BY <3>4, <3>5, <4>2
      <4> QED
        BY <4>1, <4>2
    <3>9. 1 + failures' + cuts' = 1 + m
      BY <2>m, <3>2
    <3> QED
      BY <3>1, <3>2, <3>7, <3>8, <3>9
  <2>u. ASSUME MintWorkflows' = MintWorkflows,
               UNCHANGED <<membership, actionWorker, failures, cuts>>
        PROVE  Good
    <3>1. Spent' = Spent
      BY <2>u DEF Spent, MidMint
    <3> QED
      BY <2>k, <2>n, <2>u, <3>1
  <2>w. workflows' = workflows => MintWorkflows' = MintWorkflows
    BY DEF MintWorkflows
  <2>1. CASE \E e \in Events : Deliver(e) \/ Route(e)
    BY <2>1, <2>u, <2>w DEF Deliver, Route, RouteIgnore, RouteCredit, RouteOther, chain
  <2>2. ASSUME NEW s \in Servers, HandleEvents(s)
        PROVE  Good
    BY <2>2, <2>u, <2>w, EventTypes DEF chain
  <2>3. ASSUME NEW s \in Servers, RunActions(s)
        PROVE  Good
    <3>1. cuts' = cuts
      BY <2>3 DEF RunActions, ActionRound, SkipItem, TakeItem, ActionRoundEnd, RunMint, MintKnown,
                  OwnKnown, MintSubmit, MintHash, Hash, MintReceipt, MintMember, MintOwn, MintItem,
                  RunReward, RewardRead, RewardSubmit, RewardHash, Succeed, ActionThrow,
                  ActionLocal, ActionOther
    <3>2. \A t \in Servers : t = s
      BY DEF OneServer
    <3>3. /\ Spent <=> membership # NoToken \/ MidMint(s)
          /\ Spent' <=> membership' # NoToken \/ MidMint(s)'
      BY <3>2 DEF Spent
    <3>4. CASE /\ MintWorkflows' = MintWorkflows
               /\ (failures' = failures \/ failures' = failures + 1)
               /\ membership # NoToken => membership' # NoToken
               /\ MidMint(s) => MidMint(s)' \/ membership' # NoToken \/ failures' = failures + 1
      <4>1. /\ \/ failures' + cuts' = failures + cuts
               \/ failures' + cuts' = failures + cuts + 1
            /\ failures' = failures + 1 => failures' + cuts' = failures + cuts + 1
        <5>1. failures' = failures => failures' + cuts' = failures + cuts
          BY <3>1
        <5>2. failures' = failures + 1 => failures' + cuts' = failures + cuts + 1
          BY <2>m, <3>1
        <5> QED
          BY <3>4, <5>1, <5>2
      <4>2. Spent => Spent' \/ failures' + cuts' = failures + cuts + 1
        <5>1. Spent => Spent' \/ failures' = failures + 1
          BY <3>3, <3>4
        <5> QED
          BY <4>1, <5>1
      <4> QED
        BY <2>k, <3>4, <4>1, <4>2
    <3>5. CASE /\ membership = NoToken /\ ~MidMint(s) /\ MidMint(s)'
               /\ failures' = failures
               /\ \E w : w \notin MintWorkflows /\ MintWorkflows' = MintWorkflows \cup {w}
      <4>1. ~Spent /\ Spent'
        BY <3>3, <3>5
      <4>2. PICK w : w \notin MintWorkflows /\ MintWorkflows' = MintWorkflows \cup {w}
        BY <3>5
      <4>3. Cardinality(MintWorkflows \cup {w}) = Cardinality(MintWorkflows) + 1
        BY <2>n, <4>2, FS_AddElement
      <4>4. Cardinality(MintWorkflows)' = Cardinality(MintWorkflows) + 1
        BY <4>2, <4>3
      <4>5. Cardinality(MintWorkflows) <= failures + cuts
        BY <4>1
      <4> QED
        BY <2>n, <3>1, <3>5, <4>1, <4>4, <4>5
    <3> QED
      BY <2>3, <3>4, <3>5, ActionsSpend
  <2>4. ASSUME NEW s \in Servers, Cut(s)
        PROVE  Good
    <3>1. UNCHANGED <<workflows, membership, failures>>
      BY <2>4, CutEffects DEF chain, rows
    <3>2. CASE UNCHANGED <<actionWorker, cuts>>
      BY <2>u, <2>w, <3>1, <3>2
    <3>3. CASE cuts' = cuts + 1
      <4>1. failures' + cuts' = failures + cuts + 1
        BY <2>n, <3>1, <3>3
      <4> QED
        BY <2>k, <2>w, <3>1, <4>1
    <3> QED
      BY <2>4, <3>2, <3>3, CutEffects
  <2>5. ASSUME NEW w \in DOMAIN workflows, Mine(w)
        PROVE  Good
    <3>1. UNCHANGED <<membership, actionWorker, failures, cuts>>
      BY <2>5 DEF Mine, OutsideOther, rows
    <3>2. (DOMAIN workflows)' = DOMAIN workflows
      BY <2>5 DEF Mine
    <3>3. \A x \in DOMAIN workflows : workflows'[x].type = workflows[x].type
      BY <2>5, MineTypes DEF Grows
    <3>4. MintWorkflows' = MintWorkflows
      BY <3>2, <3>3 DEF MintWorkflows
    <3> QED
      BY <2>u, <3>1, <3>4
  <2>6. CASE UNCHANGED vars
    BY <2>6, <2>u, <2>w DEF vars, rows, chain
  <2> QED
    BY <2>1, <2>2, <2>3, <2>4, <2>5, <2>6 DEF Next
<1>3. Spec => []MintsInv
  BY <1>1, <1>2, QueueInvariant, WorkInvariant, PTL DEF Spec
<1>4. QueueOK /\ CutOffInv /\ WorkInv /\ MintsInv => ItemsAccounted
  <2> SUFFICES ASSUME QueueOK, CutOffInv, WorkInv, MintsInv
               PROVE  ItemsAccounted
    OBVIOUS
  <2>1. ASSUME AllDone
        PROVE  SucceededIsDone
    <3> SUFFICES ASSUME NEW i \in DOMAIN queue, queue[i].status = "SUCCEEDED"
                 PROVE  CASE queue[i].type = MintType   -> queue[i].token \in ownership
                          [] queue[i].type = RewardType ->
                               \E w \in DOMAIN workflows : workflows[w].item = i
      BY DEF SucceededIsDone
    <3>1. Done(i)
      BY <2>1 DEF AllDone
    <3>2. queue[i].type \in {MintType, RewardType}
      <4>1. \A j \in DOMAIN queue : queue[j] \in ItemSet
        BY DEF QueueOK, TablesOK
      <4> QED
        BY <4>1 DEF ItemSet
    <3>3. CASE queue[i].type = MintType
      BY <3>1, <3>3 DEF Done, MintType, RewardType
    <3>4. CASE queue[i].type = RewardType
      BY <3>1, <3>4 DEF Done, MintType, RewardType
    <3> QED
      BY <3>2, <3>3, <3>4
  <2>2. OneServer => SucceededIsDone /\ Cardinality(MintWorkflows) <= 1 + failures + cuts
    BY <2>1 DEF WorkInv, MintsInv
  <2> QED
    BY <2>2 DEF CutOffInv, ItemsAccounted
<1> QED
  BY <1>3, <1>4, QueueInvariant, CutOffInvariant, WorkInvariant, PTL
=============================================================================
