---------------------------- MODULE ActionQueue ----------------------------
(***************************************************************************)
(* The automation worker (services/zealyAutomationWorker.ts) for one       *)
(* wallet at one brand: events that the webhook route has recorded become  *)
(* items of the action queue, and items are executed, up to MaxAttempts    *)
(* times, by submitting workflows and waiting for them.  A server runs one *)
(* loop over events and one over items, and may stop at any await, or meet *)
(* a query that throws.  What the loop holds in memory is then lost and    *)
(* another round begins from the rows.                                     *)
(*                                                                         *)
(* A workflow that was waited for in vain may still be executed later.     *)
(***************************************************************************)
EXTENDS Naturals, FiniteSets, Sequences

CONSTANTS
  Events,       \* the zealyEventIds that are delivered
  NoEvent,      \* no event
  Servers,      \* the processes that run the workers
  MaxAttempts,  \* MAX_ATTEMPTS
  BatchSize,    \* the items one round of the action worker takes
  MaxCuts,      \* bound: how often rounds are cut off
  MaxTrouble    \* bound: rounds cut off and attempts that end with an exception

ASSUME QueueAssumption ==
  /\ NoEvent \notin Events
  /\ MaxAttempts \in Nat \ {0}
  /\ BatchSize \in Nat \ {0}
  /\ MaxCuts \in Nat
  /\ MaxTrouble \in Nat

VARIABLES
  decodes,      \* whether the server can decode the contract's mint event
  event,        \* zealyWebhookEvent: [status, processed], "none" if missing
  route,        \* the request that delivers an event
  queue,        \* actionQueueItem in the order of createdAt
  eventWorker,  \* each server's loop over events
  actionWorker, \* each server's loop over items
  membership,   \* brandMembership.tokenId of the wallet, or NoToken
  ownership,    \* the tokens tokenOwnership gives to the wallet
  workflows,    \* what was submitted, in order: [type, item, token, keys, state]
  keys,         \* LOOT_KEYS of each token on chain, in order of minting
  failures,     \* history: attempts that ended with an exception
  cuts,         \* history: rounds of items cut off, by a stop or by a write that failed
  lost          \* history: rounds of events cut off by a write that failed

rows  == <<event, queue, membership, ownership>>
chain == <<decodes, workflows, keys>>
vars  == <<rows, chain, route, eventWorker, actionWorker, failures, cuts, lost>>

Trouble == failures + cuts + lost

NoToken == 0
Minted  == DOMAIN keys
MintType   == "MINT_BASE_NFT"
RewardType == "APPLY_QUEST_RESULT"

NewItem(type, e, token) ==
  [type |-> type, event |-> e, token |-> token, status |-> "PENDING", attempts |-> 0]

IdleEvents  == [pc |-> "idle", batch |-> {}, event |-> NoEvent, token |-> NoToken]
IdleActions == [pc |-> "idle", batch |-> {}, item |-> 0, wf |-> 0, token |-> NoToken, keys |-> 0]

Init ==
  /\ decodes \in BOOLEAN
  /\ event = [e \in Events |-> [status |-> "none", processed |-> FALSE]]
  /\ route = [e \in Events |-> "idle"]
  /\ queue = <<>>
  /\ eventWorker = [s \in Servers |-> IdleEvents]
  /\ actionWorker = [s \in Servers |-> IdleActions]
  /\ membership = NoToken
  /\ ownership = {}
  /\ workflows = <<>>
  /\ keys = <<>>
  /\ failures = 0
  /\ cuts = 0
  /\ lost = 0
-----------------------------------------------------------------------------
(* POST /zealy/webhook, as far as the worker meets it                      *)

RouteOther == UNCHANGED <<queue, membership, ownership, chain, eventWorker, actionWorker,
                          failures, cuts, lost>>

\* The row is created before anything is done about the event.
Deliver(e) ==
  /\ route[e] = "idle"
  /\ event' = [event EXCEPT ![e] = [status |-> "received", processed |-> FALSE]]
  /\ route' = [route EXCEPT ![e] = "received"]
  /\ RouteOther

\* The event is not a completion, or lacks the quest or the wallet.
RouteIgnore(e) ==
  /\ route[e] = "received"
  /\ event' = [event EXCEPT ![e] = [status |-> "ignored", processed |-> TRUE]]
  /\ route' = [route EXCEPT ![e] = "done"]
  /\ RouteOther

\* applyWebhookReward, after the calls of Zealy and of ensureBaseNftMinted.  If
\* one of them throws, or the server stops, the request takes no step any more
\* and the row stays as it is.
RouteCredit(e) ==
  /\ route[e] = "received"
  /\ event' = [event EXCEPT ![e] = [status |-> "processed", processed |-> TRUE]]
  /\ route' = [route EXCEPT ![e] = "done"]
  /\ RouteOther

-----------------------------------------------------------------------------
(* processZealyWebhookEvents and handleZealyEvent.  The order within a     *)
(* round is left open.                                                     *)

EventOther == UNCHANGED <<route, membership, ownership, chain, actionWorker,
                          failures, cuts, lost>>
EventLocal == UNCHANGED <<event, queue>> /\ EventOther
EventSays(s, fields) == eventWorker' = [eventWorker EXCEPT ![s] = fields]
AtEvent(s, pc) == eventWorker[s].pc = pc

\* Mutant: what is being processed is left to the worker that began it.
OpenReceivedOnly(e) == event[e].status = "received" /\ ~event[e].processed

Open(e) == event[e].status \in {"received", "processing"} /\ ~event[e].processed

EventRound(s) ==
  /\ AtEvent(s, "idle")
  /\ \E e \in Events : Open(e)
  /\ EventSays(s, [IdleEvents EXCEPT !.pc = "round", !.batch = {e \in Events : Open(e)}])
  /\ EventLocal

EventMark(s, e) ==
  /\ AtEvent(s, "round")
  /\ e \in eventWorker[s].batch
  /\ event' = [event EXCEPT ![e].status = "processing"]
  /\ EventSays(s, [eventWorker[s] EXCEPT !.pc = "handle", !.event = e, !.batch = @ \ {e}])
  /\ UNCHANGED queue /\ EventOther

EventRoundEnd(s) ==
  /\ AtEvent(s, "round")
  /\ eventWorker[s].batch = {}
  /\ EventSays(s, IdleEvents)
  /\ EventLocal

\* The event is settled with its status, and the round goes on.
EventSettle(s, status) ==
  /\ event' = [event EXCEPT ![eventWorker[s].event] = [status |-> status, processed |-> TRUE]]
  /\ EventSays(s, [IdleEvents EXCEPT !.pc = "round", !.batch = eventWorker[s].batch])
  /\ UNCHANGED queue /\ EventOther

\* Not a completion, no quest, no wallet, no rule, or the rule is disabled.
EventReject(s) ==
  /\ AtEvent(s, "handle")
  /\ \E status \in {"ignored", "failed"} : EventSettle(s, status)

\* Any query of the handler may throw, also after an item was queued.
EventThrow(s) ==
  /\ eventWorker[s].event # NoEvent
  /\ EventSettle(s, "failed")

\* Mutant: the reward is queued first.
EventLookRewardFirst(s) ==
  /\ AtEvent(s, "handle")
  /\ \E token \in IF ownership = {} THEN {NoToken} ELSE ownership :
       EventSays(s, [eventWorker[s] EXCEPT !.token = token, !.pc = "reward"])
  /\ EventLocal

\* A wallet without a token gets one first.
EventLook(s) ==
  /\ AtEvent(s, "handle")
  /\ \E token \in IF ownership = {} THEN {NoToken} ELSE ownership :
       EventSays(s, [eventWorker[s] EXCEPT !.token = token,
                                           !.pc = IF token = NoToken THEN "mint" ELSE "reward"])
  /\ EventLocal

\* Mutant: items are not looked for.
NeverQueued(type, e) == FALSE

Queued(type, e) == \E i \in DOMAIN queue : queue[i].type = type /\ queue[i].event = e

\* ensureActionQueued: an item of the type for the event is looked for, and
\* created in a later query if there was none.
EnsureFind(s, pc, type, create, next) ==
  /\ AtEvent(s, pc)
  /\ EventSays(s, [eventWorker[s] EXCEPT
                     !.pc = IF Queued(type, eventWorker[s].event) THEN next ELSE create])
  /\ EventLocal

EnsureCreate(s, create, type, token, next) ==
  /\ AtEvent(s, create)
  /\ queue' = Append(queue, NewItem(type, eventWorker[s].event, token))
  /\ EventSays(s, [eventWorker[s] EXCEPT !.pc = next])
  /\ UNCHANGED event /\ EventOther

EnsureMint(s) ==
  \/ EnsureFind(s, "mint", MintType, "create mint", "reward")
  \/ EnsureCreate(s, "create mint", MintType, NoToken, "reward")

EnsureReward(s) ==
  \/ EnsureFind(s, "reward", RewardType, "create reward", "close")
  \/ EnsureCreate(s, "create reward", RewardType, eventWorker[s].token, "close")

EventClose(s) ==
  /\ AtEvent(s, "close")
  /\ EventSettle(s, "enqueued")
-----------------------------------------------------------------------------
(* processActionQueue: the oldest items that are pending or failed and     *)
(* have an attempt left, one after the other.                              *)

ActionOther == UNCHANGED <<decodes, event, route, eventWorker, cuts, lost>>
ActionLocal == UNCHANGED <<queue, membership, ownership, workflows, keys, failures>> /\ ActionOther
ActionSays(s, fields) == actionWorker' = [actionWorker EXCEPT ![s] = fields]
AtAction(s, pc) == actionWorker[s].pc = pc
ItemOf(s) == actionWorker[s].item
TakenItem(s) == queue[ItemOf(s)]

Due == {i \in DOMAIN queue : /\ queue[i].status \in {"PENDING", "FAILED"}
                             /\ queue[i].attempts < MaxAttempts}
Oldest(items) == {i \in items : Cardinality({j \in items : j < i}) < BatchSize}

ActionRound(s) ==
  /\ AtAction(s, "idle")
  /\ Due # {}
  /\ ActionSays(s, [IdleActions EXCEPT !.pc = "round",
                                       !.batch = {<<i, queue[i].status>> : i \in Oldest(Due)}])
  /\ ActionLocal

Next1(s) == {b \in actionWorker[s].batch : \A c \in actionWorker[s].batch : b[1] <= c[1]}

\* isRetryDue says no to an item that failed not long before.
SkipItem(s) ==
  /\ AtAction(s, "round")
  /\ \E b \in Next1(s) :
       /\ b[2] = "FAILED"
       /\ ActionSays(s, [actionWorker[s] EXCEPT !.batch = @ \ {b}])
  /\ ActionLocal

TakeItem(s) ==
  /\ AtAction(s, "round")
  /\ \E b \in Next1(s) :
       LET i == b[1] IN
       /\ queue' = [queue EXCEPT ![i].status = "RUNNING", ![i].attempts = @ + 1]
       /\ ActionSays(s, [actionWorker[s] EXCEPT !.batch = @ \ {b}, !.item = i,
                                                !.pc = queue[i].type])
  /\ UNCHANGED <<membership, ownership, workflows, keys, failures>> /\ ActionOther

ActionRoundEnd(s) ==
  /\ AtAction(s, "round")
  /\ actionWorker[s].batch = {}
  /\ ActionSays(s, IdleActions)
  /\ ActionLocal

ItemSettle(s, status) ==
  /\ queue' = [queue EXCEPT ![ItemOf(s)].status = status]
  /\ ActionSays(s, [IdleActions EXCEPT !.pc = "round", !.batch = actionWorker[s].batch])

Succeed(s) ==
  /\ AtAction(s, "done")
  /\ ItemSettle(s, "SUCCEEDED")
  /\ UNCHANGED <<membership, ownership, workflows, keys, failures>> /\ ActionOther

\* Credits, configuration or rule are missing, the node refuses or reports a
\* failure, the wait times out, a query fails.
ActionThrow(s) ==
  /\ ItemOf(s) # 0
  /\ Trouble < MaxTrouble
  /\ ItemSettle(s, "FAILED")
  /\ failures' = failures + 1
  /\ UNCHANGED <<membership, ownership, workflows, keys>> /\ ActionOther

\* submitWorkflow; the answer that it was accepted may be lost, which is
\* ActionThrow after it.
Submit(s, token, value, pc) ==
  /\ workflows' = Append(workflows, [type |-> TakenItem(s).type, item |-> ItemOf(s),
                                     token |-> token, keys |-> value, state |-> "sent"])
  /\ ActionSays(s, [actionWorker[s] EXCEPT !.pc = pc, !.wf = Len(workflows) + 1])

\* pollUntilTxHashByIntent: the node reports success and a hash.  There is no
\* look for a receipt, so the transaction may still be out.
Hash(s, pc, next) ==
  /\ AtAction(s, pc)
  /\ ActionSays(s, [actionWorker[s] EXCEPT !.pc = next])
  /\ ActionLocal
-----------------------------------------------------------------------------
(* runMintAction                                                           *)

NoMembership == membership = NoToken

\* Mutant: the ownership is left as it is.
MintKnownItemOnly(s) ==
  /\ AtAction(s, MintType)
  /\ ~NoMembership
  /\ queue' = [queue EXCEPT ![ItemOf(s)].token = membership]
  /\ ActionSays(s, [actionWorker[s] EXCEPT !.pc = "done"])
  /\ UNCHANGED <<membership, ownership, workflows, keys, failures>> /\ ActionOther

\* The wallet has a token: it is written to the item, then to the ownership.
MintKnown(s) ==
  /\ AtAction(s, MintType)
  /\ ~NoMembership
  /\ queue' = [queue EXCEPT ![ItemOf(s)].token = membership]
  /\ ActionSays(s, [actionWorker[s] EXCEPT !.pc = "own known", !.token = membership])
  /\ UNCHANGED <<membership, ownership, workflows, keys, failures>> /\ ActionOther

OwnKnown(s) ==
  /\ AtAction(s, "own known")
  /\ ownership' = ownership \cup {actionWorker[s].token}
  /\ ActionSays(s, [actionWorker[s] EXCEPT !.pc = "done"])
  /\ UNCHANGED <<queue, membership, workflows, keys, failures>> /\ ActionOther

MintSubmit(s) ==
  /\ AtAction(s, MintType)
  /\ NoMembership
  /\ Submit(s, NoToken, 0, "wait mint")
  /\ UNCHANGED <<queue, membership, ownership, keys, failures>> /\ ActionOther

MintHash(s) == Hash(s, "wait mint", "receipt")

\* Mutant: the id is that of the next token, whether it is minted or not.
MintReceiptGuess(s) ==
  /\ AtAction(s, "receipt")
  /\ ActionSays(s, [actionWorker[s] EXCEPT !.pc = "member", !.token = Len(keys) + 1])
  /\ ActionLocal

\* extractTokenIdFromMintReceipt throws if there is no receipt yet or the event
\* in it cannot be decoded.
MintReceipt(s) ==
  LET wf == workflows[actionWorker[s].wf] IN
  /\ AtAction(s, "receipt")
  /\ wf.state = "mined"
  /\ decodes
  /\ ActionSays(s, [actionWorker[s] EXCEPT !.pc = "member", !.token = wf.token])
  /\ ActionLocal

\* The membership, the ownership and, after the credits, the item.
MintMember(s) ==
  /\ AtAction(s, "member")
  /\ membership' = actionWorker[s].token
  /\ ActionSays(s, [actionWorker[s] EXCEPT !.pc = "own"])
  /\ UNCHANGED <<queue, ownership, workflows, keys, failures>> /\ ActionOther

MintOwn(s) ==
  /\ AtAction(s, "own")
  /\ ownership' = ownership \cup {actionWorker[s].token}
  /\ ActionSays(s, [actionWorker[s] EXCEPT !.pc = "item"])
  /\ UNCHANGED <<queue, membership, workflows, keys, failures>> /\ ActionOther

MintItem(s) ==
  /\ AtAction(s, "item")
  /\ queue' = [queue EXCEPT ![ItemOf(s)].token = actionWorker[s].token]
  /\ ActionSays(s, [actionWorker[s] EXCEPT !.pc = "done"])
  /\ UNCHANGED <<membership, ownership, workflows, keys, failures>> /\ ActionOther
-----------------------------------------------------------------------------
(* runQuestRewardAction, with a reward of one key                          *)

\* resolveTokenId: of the item, else of an ownership, else of the membership.
Resolved(i) ==
  CASE queue[i].token # NoToken -> {queue[i].token}
    [] queue[i].token = NoToken /\ ownership # {} -> ownership
    [] OTHER -> {membership} \ {NoToken}

\* Mutant: every reward is added twice.
TwoMore(token) == keys[token] + 2

OneMore(token) == keys[token] + 1

\* readCoreTraits, and the value that is to be signed.
RewardRead(s) ==
  /\ AtAction(s, RewardType)
  /\ \E token \in Resolved(ItemOf(s)) :
       ActionSays(s, [actionWorker[s] EXCEPT !.pc = "submit reward", !.token = token,
                                            !.keys = OneMore(token)])
  /\ ActionLocal

RewardSubmit(s) ==
  /\ AtAction(s, "submit reward")
  /\ Submit(s, actionWorker[s].token, actionWorker[s].keys, "wait reward")
  /\ UNCHANGED <<queue, membership, ownership, keys, failures>> /\ ActionOther

RewardHash(s) == Hash(s, "wait reward", "done")
-----------------------------------------------------------------------------
(* The node and the chain; servers                                         *)

OutsideOther == UNCHANGED <<decodes, rows, route, eventWorker, actionWorker,
                            failures, cuts, lost>>

\* A transaction enters a block; one that is given up, or reverts, takes no
\* step.  A mint makes the next token, a reward sets
\* the keys of its token to the value that was signed.
Mine(w) ==
  /\ workflows[w].state = "sent"
  /\ IF workflows[w].type = MintType
       THEN /\ keys' = Append(keys, 0)
            /\ workflows' = [workflows EXCEPT ![w].state = "mined", ![w].token = Len(keys) + 1]
       ELSE /\ keys' = [keys EXCEPT ![workflows[w].token] = workflows[w].keys]
            /\ workflows' = [workflows EXCEPT ![w].state = "mined"]
  /\ OutsideOther

\* The process ends, and both loops with it.
Stop(s) ==
  /\ cuts + lost < MaxCuts /\ Trouble < MaxTrouble
  /\ cuts' = cuts + 1
  /\ eventWorker' = [eventWorker EXCEPT ![s] = IdleEvents]
  /\ actionWorker' = [actionWorker EXCEPT ![s] = IdleActions]
  /\ UNCHANGED <<chain, rows, route, failures, lost>>

\* What the loops write about a round itself is outside the try of an item or
\* is its catch: that an item is taken, that it failed.  Where such a write
\* throws, the rest of the round is dropped and an item in hand stays RUNNING.
BreakItems(s) ==
  /\ ~AtAction(s, "idle")
  /\ cuts + lost < MaxCuts /\ Trouble < MaxTrouble
  /\ cuts' = cuts + 1
  /\ ActionSays(s, IdleActions)
  /\ UNCHANGED <<chain, rows, route, eventWorker, failures, lost>>

\* Likewise the mark of an event, its first read, and the write that it failed.
BreakEvents(s) ==
  /\ ~AtEvent(s, "idle")
  /\ cuts + lost < MaxCuts /\ Trouble < MaxTrouble
  /\ lost' = lost + 1
  /\ EventSays(s, IdleEvents)
  /\ UNCHANGED <<chain, rows, route, actionWorker, failures, cuts>>
-----------------------------------------------------------------------------
Route(e) == RouteIgnore(e) \/ RouteCredit(e)

HandleEvents(s) ==
  \/ EventRound(s) \/ (\E e \in Events : EventMark(s, e)) \/ EventRoundEnd(s)
  \/ EventReject(s) \/ EventThrow(s) \/ EventLook(s)
  \/ EnsureMint(s) \/ EnsureReward(s) \/ EventClose(s)

RunMint(s) ==
  \/ MintKnown(s) \/ OwnKnown(s) \/ MintSubmit(s) \/ MintHash(s) \/ MintReceipt(s)
  \/ MintMember(s) \/ MintOwn(s) \/ MintItem(s)

RunReward(s) == RewardRead(s) \/ RewardSubmit(s) \/ RewardHash(s)

RunActions(s) ==
  \/ ActionRound(s) \/ SkipItem(s) \/ TakeItem(s) \/ ActionRoundEnd(s)
  \/ RunMint(s) \/ RunReward(s) \/ Succeed(s) \/ ActionThrow(s)

Cut(s) == Stop(s) \/ BreakItems(s) \/ BreakEvents(s)

Next ==
  \/ \E e \in Events : Deliver(e) \/ Route(e)
  \/ \E s \in Servers : HandleEvents(s) \/ RunActions(s) \/ Cut(s)
  \/ \E w \in DOMAIN workflows : Mine(w)

Spec == Init /\ [][Next]_vars

\* setInterval starts a round again and again, the queries and polls of a round
\* end, and the time comes when a failed item is due.  Nobody has to deliver
\* or mine anything.
FairSpec ==
  /\ Spec
  /\ \A s \in Servers : /\ WF_vars(HandleEvents(s))
                         /\ WF_vars(RunActions(s))
                         /\ SF_vars(TakeItem(s))
-----------------------------------------------------------------------------
(* Properties                                                              *)

WorkerTokens == {NoToken} \cup Minted
EventPc  == {"idle", "round", "handle", "mint", "create mint", "reward", "create reward", "close"}
ActionPc == {"idle", "round", MintType, RewardType, "own known", "wait mint", "receipt",
             "member", "own", "item", "submit reward", "wait reward", "done"}
ItemSet  == [type : {MintType, RewardType}, event : Events, token : Nat,
             status : {"PENDING", "RUNNING", "SUCCEEDED", "FAILED"}, attempts : Nat]
WorkflowSet == [type : {MintType, RewardType}, item : Nat \ {0}, token : Nat, keys : Nat,
                state : {"sent", "mined"}]

\* Every column and every local variable of the loops keeps its type.
TypeOK ==
  /\ decodes \in BOOLEAN
  /\ event \in [Events -> [status : {"none", "received", "processing", "processed", "ignored",
                                     "failed", "enqueued"}, processed : BOOLEAN]]
  /\ route \in [Events -> {"idle", "received", "done"}]
  /\ queue \in Seq(ItemSet)
  /\ eventWorker \in [Servers -> [pc : EventPc, batch : SUBSET Events,
                                  event : Events \cup {NoEvent}, token : Nat]]
  /\ actionWorker \in [Servers -> [pc : ActionPc,
                                   batch : SUBSET (Nat \X {"PENDING", "FAILED"}),
                                   item : Nat, wf : Nat, token : Nat, keys : Nat]]
  /\ membership \in Nat
  /\ ownership \subseteq Nat
  /\ workflows \in Seq(WorkflowSet)
  /\ keys \in Seq(Nat)
  /\ failures \in 0..MaxTrouble
  /\ cuts \in 0..MaxCuts
  /\ lost \in 0..MaxCuts

OneServer == \A s, t \in Servers : s = t

\* With one server, no event has two items of one type, although it is
\* handled again after a stop anywhere between two of its queries.
QueuedOnce ==
  OneServer => \A i, j \in DOMAIN queue :
    queue[i].type = queue[j].type /\ queue[i].event = queue[j].event => i = j

\* An event that counts as enqueued has its reward in the queue.
EnqueuedIsQueued == \A e \in Events : event[e].status = "enqueued" => Queued(RewardType, e)

\* A reward that was queued for a wallet without a token comes after a mint for
\* the same event, so a round gets to the mint first.
MintFirst ==
  \A i \in DOMAIN queue : queue[i].type = RewardType /\ queue[i].token = NoToken =>
    \E j \in 1..(i - 1) : queue[j].type = MintType /\ queue[j].event = queue[i].event

\* So the queue is complete and in order when an event leaves the worker.
EnqueuedInOrder == EnqueuedIsQueued /\ MintFirst

\* No table and no item names a token before the chain has it, although the
\* poll that leads to it does not wait for a block.
TokensReal ==
  /\ {membership} \cup ownership \subseteq WorkerTokens
  /\ \A i \in DOMAIN queue : queue[i].token \in WorkerTokens

\* A mint that succeeded has recorded the token of its item for the wallet, and
\* a reward that succeeded was submitted.
SucceededIsDone ==
  \A i \in DOMAIN queue : queue[i].status = "SUCCEEDED" =>
    CASE queue[i].type = MintType   -> queue[i].token \in ownership
      [] queue[i].type = RewardType -> \E w \in DOMAIN workflows : workflows[w].item = i

MintWorkflows == {w \in DOMAIN workflows : workflows[w].type = MintType}
Running == {i \in DOMAIN queue : queue[i].status = "RUNNING"}
Held    == {ItemOf(s) : s \in Servers}

\* What became of every item is accounted for: with one server, what succeeded did
\* its work, and a further mint is submitted only after an attempt was given up or cut
\* off, however many events wait for it.  With any number of them, an item that is
\* left running belongs to a round that was cut off, by a stop or by a write that
\* failed, and each such round leaves one at most.
ItemsAccounted ==
  /\ OneServer => SucceededIsDone /\ Cardinality(MintWorkflows) <= 1 + failures + cuts
  /\ Cardinality(Running \ Held) <= cuts

Rewarded(t) == {w \in DOMAIN workflows : /\ workflows[w].type = RewardType
                                         /\ workflows[w].token = t
                                         /\ workflows[w].state = "mined"}

\* The signed values are absolute and may be based on a stale read; still a
\* token never has more keys than rewards of it were mined.
KeysNotInvented == \A t \in Minted : keys[t] <= Cardinality(Rewarded(t))

\* Every event that was delivered gets its processedAt, from the route or from
\* the worker, whichever of them fails or stops.
EventsEnd == \A e \in Events : (event[e].status # "none") ~> event[e].processed

Exhausted(i) == queue[i].status = "FAILED" /\ queue[i].attempts = MaxAttempts
CutOff(i)    == i \in Running \ Held

\* Every item succeeds, uses up its attempts, or was left running by a
\* round that was cut off: nothing takes such an item up again.
ItemsEnd ==
  \A i \in 1..(2 * Cardinality(Events)) :
    (i \in DOMAIN queue)
      ~> (i \in DOMAIN queue /\ (queue[i].status = "SUCCEEDED" \/ Exhausted(i) \/ CutOff(i)))

\* The queue drains: neither an event nor an item is forgotten.
QueueDrains == EventsEnd /\ ItemsEnd
=============================================================================
