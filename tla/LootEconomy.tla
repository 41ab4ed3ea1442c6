---------------------------- MODULE LootEconomy ----------------------------
(***************************************************************************)
(* The XP and loot key economy of one wallet at one brand: the routes of   *)
(* apps/api/src/routes/me.ts that buy keys, open a lootbox and show the XP,*)
(* and the Zealy webhook of routes/zealy.ts, running concurrently against  *)
(* PostgreSQL at READ COMMITTED.                                           *)
(*                                                                         *)
(* A request is cut into steps where it awaits a query that other requests *)
(* can get in front of.  A transaction that has written the ledger row     *)
(* holds its lock until it commits, so the part of a transaction from its  *)
(* first write of the row on is one step, guarded by the lock being free.  *)
(* The exception is a purchase, which first upserts the row with an empty  *)
(* update: that creates a missing row, and whether it locks an existing    *)
(* one depends on how Prisma runs such an upsert (UpsertLocks).            *)
(***************************************************************************)
EXTENDS Integers, FiniteSets

CONSTANTS
  Buyers,          \* requests POST /me/lootkeys/buy
  Openers,         \* requests POST /me/open-lootbox
  Readers,         \* requests GET /me/xp
  Hooks,           \* deliveries of Zealy events to POST /zealy/webhook
  Events,          \* Zealy event ids
  Traits,          \* the entries of the brand's loot table
  DefaultXp,       \* DEMO_DEFAULT_XP
  XpPerLootKey,
  LootKeysPerOpen,
  MaxUnlocks,      \* maxUnlocksPerOpen
  Quantities,      \* bound: quantities bought
  XpTotals,        \* bound: totals a webhook resolves
  KeyDeltas,       \* bound: keys a reward rule credits
  UpsertLocks,     \* whether an upsert with an empty update locks the row
  NoRequest        \* no holder of the row lock

ASSUME EconomyAssumption ==
  /\ {DefaultXp, XpPerLootKey, LootKeysPerOpen, MaxUnlocks} \subseteq Nat \ {0}
  /\ Quantities \subseteq Nat \ {0}
  /\ XpTotals \subseteq Nat
  /\ KeyDeltas \subseteq Nat
  /\ UpsertLocks \in BOOLEAN
  /\ NoRequest \notin Buyers
  /\ IsFiniteSet(Traits)

NoXp == -1      \* no userBrandXpLedger row
NoAudit == -1   \* no zealyRewardAudit row

VARIABLES
  ledger,     \* userBrandEconomyLedger: [exists, total, spent, keys]
  lootKeys,   \* the copies of keys in userLootBalance, userBrandLootLedger
              \* and brandUserLedger, always written together; 0 if no row
  legacyXp,   \* brandUserLedger.totalXp
  zealyXp,    \* userBrandXpLedger.xpBalance
  unlocked,   \* brandUserUnlockedTrait, the traits won; that unlockedTrait may
              \* have more rows is the matter of TraitImages
  audit,      \* zealyRewardAudit: the keys credited for each event
  recorded,   \* zealyWebhookEvent: the events that have a row
  rowLock,    \* the purchase that holds the lock of the ledger row
  buy,        \* each purchase: [pc, qty, total, spent]
  open,       \* each opening: [pc, picked]
  hook,       \* each delivery: [pc, event]
  show,       \* each GET /me/xp: "idle", "stale" (read a total of 0), "absent", "done"
  rewarded, bought, used  \* history: keys credited, bought and spent

database == <<ledger, lootKeys, legacyXp, zealyXp, unlocked, audit, recorded, rowLock>>
history  == <<rewarded, bought, used>>
vars     == <<database, buy, open, hook, show, history>>

\* A purchase that is not in its transaction.
Ended(pc) == [pc |-> pc, qty |-> 0, total |-> 0, spent |-> 0]

NoLedger == [exists |-> FALSE, total |-> 0, spent |-> 0, keys |-> 0]

Init ==
  /\ ledger = NoLedger
  /\ lootKeys = 0
  /\ legacyXp = 0
  /\ zealyXp = NoXp
  /\ unlocked = {}
  /\ audit = [e \in Events |-> NoAudit]
  /\ recorded = {}
  /\ rowLock = NoRequest
  /\ buy = [b \in Buyers |-> Ended("idle")]
  /\ open = [o \in Openers |-> [pc |-> "idle", picked |-> {}]]
  /\ hook \in [Hooks -> [pc : {"idle"}, event : Events]]
  /\ show = [r \in Readers |-> "idle"]
  /\ rewarded = 0 /\ bought = 0 /\ used = 0

RowFree == rowLock = NoRequest

\* calculateXpAvailable
Available(total, spent) == IF total > spent THEN total - spent ELSE 0

\* calculatePurchaseXpRequired
Required(qty) == qty * XpPerLootKey
-----------------------------------------------------------------------------
(* Mutants: forms the definitions below must not have; the properties tell *)
(* each from the code.                                                     *)

\* The upsert leaves an existing row unlocked.
LockOfUpsertNewRow(b) == IF ledger.exists THEN NoRequest ELSE b

\* The XP is not checked.
EnoughXpUnchecked(b) == TRUE

\* A rollback that keeps the row locked.
BuyRollbackKeepsLock(b) ==
  /\ buy[b].pc = "upserted"
  /\ buy' = [buy EXCEPT ![b] = Ended("failed")]
  /\ UNCHANGED <<database, open, hook, show, history>>

\* The transaction does not look at how many rows the decrement changed.
OpenCommitIgnoresCount(o) ==
  /\ open[o].pc = "sampled"
  /\ RowFree
  /\ LET cost == IF ledger.keys >= LootKeysPerOpen THEN LootKeysPerOpen ELSE 0 IN
     /\ ledger' = [ledger EXCEPT !.keys = @ - cost]
     /\ used' = used + cost
  /\ lootKeys' = ledger'.keys
  /\ unlocked' = unlocked \cup open[o].picked
  /\ open' = [open EXCEPT ![o].pc = "charged"]
  /\ UNCHANGED <<legacyXp, zealyXp, audit, recorded, rowLock,
                 buy, hook, show, rewarded, bought>>

\* A reward that misses the copies of the balance.
CreditLedgerOnly(total, delta) ==
  /\ ledger' = [ledger EXCEPT !.exists = TRUE, !.total = total, !.keys = @ + delta]
  /\ legacyXp' = total
  /\ zealyXp' = total
  /\ rewarded' = rewarded + delta
  /\ UNCHANGED lootKeys
-----------------------------------------------------------------------------
(* POST /me/lootkeys/buy: one transaction                                  *)

LockOfUpsert(b) == IF UpsertLocks \/ ~ledger.exists THEN b ELSE NoRequest

\* upsert with an empty update: the row as committed, or a new one, which
\* nobody else sees before the commit.
BuyUpsert(b, qty) ==
  /\ buy[b].pc = "idle"
  /\ RowFree
  /\ buy' = [buy EXCEPT ![b] =
       [pc |-> "upserted", qty |-> qty, spent |-> ledger.spent,
        total |-> IF ledger.total > 0 THEN ledger.total ELSE DefaultXp]]
  /\ rowLock' = LockOfUpsert(b)
  /\ UNCHANGED <<ledger, lootKeys, legacyXp, zealyXp, unlocked, audit, recorded,
                 open, hook, show, history>>

EnoughXp(b)   == Available(buy[b].total, buy[b].spent) >= Required(buy[b].qty)
SpentAfter(b) == ledger.spent + Required(buy[b].qty)

\* The update and the commit: the total is written as it was read, what was
\* spent and the keys are incremented in the database.
BuyCommit(b) ==
  /\ buy[b].pc = "upserted"
  /\ rowLock \in {b, NoRequest}
  /\ EnoughXp(b)
  /\ ledger' = [exists |-> TRUE,
                total |-> buy[b].total,
                spent |-> SpentAfter(b),
                keys |-> ledger.keys + buy[b].qty]
  /\ lootKeys' = ledger'.keys
  /\ legacyXp' = Available(ledger'.total, ledger'.spent)
  /\ rowLock' = NoRequest
  /\ buy' = [buy EXCEPT ![b] = Ended("bought")]
  /\ bought' = bought + buy[b].qty
  /\ UNCHANGED <<zealyXp, unlocked, audit, recorded, open, hook, show, rewarded, used>>

\* Insufficient XP, or any failure before the commit: the transaction rolls
\* back, a row it created included.
BuyRollback(b) ==
  /\ buy[b].pc = "upserted"
  /\ rowLock' = IF rowLock = b THEN NoRequest ELSE rowLock
  /\ buy' = [buy EXCEPT ![b] = Ended("failed")]
  /\ UNCHANGED <<ledger, lootKeys, legacyXp, zealyXp, unlocked, audit, recorded,
                 open, hook, show, history>>
-----------------------------------------------------------------------------
(* POST /me/open-lootbox, by a wallet that has its token                   *)

OpenStep(o, pc, picked) == open' = [open EXCEPT ![o] = [pc |-> pc, picked |-> picked]]

EnoughKeys == ledger.keys >= LootKeysPerOpen

\* The balance is checked before the transaction, to answer early.
OpenCheck(o) ==
  /\ open[o].pc = "idle"
  /\ EnoughKeys
  /\ OpenStep(o, "checked", {})
  /\ UNCHANGED <<database, buy, hook, show, history>>

\* sampleWeightedLootEntries: one entry after the other, by weight; what is
\* excluded or was picked before is drawn again.  It gives up after a number of
\* attempts, so it may find less than there is, and nothing at all.
Draws(excluded) ==
  {picked \in SUBSET (Traits \ excluded) : Cardinality(picked) <= MaxUnlocks}

\* What is unlocked is read and the entries are drawn, also before the
\* transaction; drawing nothing is answered with 409.
OpenSample(o) ==
  /\ open[o].pc = "checked"
  /\ \E picked \in Draws(unlocked) :
       OpenStep(o, IF picked = {} THEN "failed" ELSE "sampled", picked)
  /\ UNCHANGED <<database, buy, hook, show, history>>

\* The transaction: the keys are taken by an update conditional on the
\* balance, and what was drawn is recorded, rows that exist being skipped.
OpenCommit(o) ==
  /\ open[o].pc = "sampled"
  /\ RowFree
  /\ IF EnoughKeys
       THEN /\ ledger' = [ledger EXCEPT !.keys = @ - LootKeysPerOpen]
            /\ lootKeys' = ledger'.keys
            /\ unlocked' = unlocked \cup open[o].picked
            /\ used' = used + LootKeysPerOpen
            /\ OpenStep(o, "charged", open[o].picked)
       ELSE /\ OpenStep(o, "failed", {})
            /\ UNCHANGED <<ledger, lootKeys, unlocked, used>>
  /\ UNCHANGED <<legacyXp, zealyXp, audit, recorded, rowLock,
                 buy, hook, show, rewarded, bought>>

\* submitLootboxWorkflow runs after the commit and may fail: the request is
\* then answered with 500 while the keys stay spent.
OpenSubmit(o) ==
  /\ open[o].pc = "charged"
  /\ \E pc \in {"submitted", "unsubmitted"} : OpenStep(o, pc, open[o].picked)
  /\ UNCHANGED <<database, buy, hook, show, history>>
-----------------------------------------------------------------------------
(* GET /me/xp, getOrCreateEconomyLedger: a read and a write, no transaction*)

ShowRead(r) ==
  /\ show[r] = "idle"
  /\ show' = [show EXCEPT ![r] = IF ~ledger.exists THEN "absent"
                                 ELSE IF ledger.total > 0 THEN "done" ELSE "stale"]
  /\ UNCHANGED <<database, buy, open, hook, history>>

\* A row that came into being since is a unique violation, answered with 500.
ShowWrite(r) ==
  /\ show[r] \in {"absent", "stale"}
  /\ RowFree
  /\ ledger' = CASE show[r] = "stale" -> [ledger EXCEPT !.total = DefaultXp]
                 [] show[r] = "absent" /\ ledger.exists -> ledger
                 [] OTHER -> [NoLedger EXCEPT !.exists = TRUE, !.total = DefaultXp]
  /\ show' = [show EXCEPT ![r] = "done"]
  /\ UNCHANGED <<lootKeys, legacyXp, zealyXp, unlocked, audit, recorded, rowLock,
                 buy, open, hook, history>>

\* GET /me/balances: the economy ledger or, for want of its row, the other ledgers.
Shown ==
  IF ledger.exists
  THEN [xp   |-> Available(IF ledger.total > 0 THEN ledger.total ELSE DefaultXp, ledger.spent),
        keys |-> ledger.keys]
  ELSE [xp   |-> IF zealyXp # NoXp THEN zealyXp ELSE legacyXp,
        keys |-> lootKeys]
-----------------------------------------------------------------------------
(* POST /zealy/webhook                                                     *)

HookStep(h, pc) == hook' = [hook EXCEPT ![h].pc = pc]

\* The event is recorded, once: a delivery of an event that is on record is
\* answered with ok.
HookReceive(h) ==
  /\ hook[h].pc = "idle"
  /\ HookStep(h, IF hook[h].event \in recorded THEN "duplicate" ELSE "received")
  /\ recorded' = recorded \cup {hook[h].event}
  /\ UNCHANGED <<ledger, lootKeys, legacyXp, zealyXp, unlocked, audit, rowLock,
                 buy, open, show, history>>

\* Ignored: not a completion, or no quest or wallet in it.  Failed: the XP
\* lookup, ensureBaseNftMinted or the transaction throws, answered with 500.
HookEnd(h) ==
  /\ hook[h].pc = "received"
  /\ \E pc \in {"ignored", "failed"} : HookStep(h, pc)
  /\ UNCHANGED <<database, buy, open, show, history>>

\* The ledgers a reward is written to.
Credit(total, delta) ==
  /\ ledger' = [ledger EXCEPT !.exists = TRUE, !.total = total, !.keys = @ + delta]
  /\ lootKeys' = ledger'.keys
  /\ legacyXp' = total
  /\ zealyXp' = total
  /\ rewarded' = rewarded + delta

\* applyWebhookReward, one transaction from its upsert on; an event has at
\* most one row in the audit.
HookApply(h) ==
  /\ hook[h].pc = "received"
  /\ RowFree
  /\ audit[hook[h].event] = NoAudit
  /\ \E total \in XpTotals, delta \in KeyDeltas :
       /\ Credit(total, delta)
       /\ audit' = [audit EXCEPT ![hook[h].event] = delta]
  /\ HookStep(h, "credited")
  /\ UNCHANGED <<unlocked, recorded, rowLock, buy, open, show, bought, used>>
-----------------------------------------------------------------------------
Buying(b)   == BuyCommit(b) \/ BuyRollback(b)
Opening(o)  == OpenSample(o) \/ OpenCommit(o) \/ OpenSubmit(o)
Hooking(h)  == HookEnd(h) \/ HookApply(h)

Next ==
  \/ \E b \in Buyers : (\E qty \in Quantities : BuyUpsert(b, qty)) \/ Buying(b)
  \/ \E o \in Openers : OpenCheck(o) \/ Opening(o)
  \/ \E r \in Readers : ShowRead(r) \/ ShowWrite(r)
  \/ \E h \in Hooks : HookReceive(h) \/ Hooking(h)

Spec == Init /\ [][Next]_vars

\* A request that has started is carried on: the event loop of Node and the
\* database get to each of its queries.  No request has to arrive.
Fairness ==
  /\ \A b \in Buyers : WF_vars(Buying(b))
  /\ \A o \in Openers : WF_vars(Opening(o))
  /\ \A r \in Readers : WF_vars(ShowWrite(r))
  /\ \A h \in Hooks : WF_vars(Hooking(h))

FairSpec == Spec /\ Fairness
-----------------------------------------------------------------------------
(* Every column holds a value of its type; in particular no balance is     *)
(* negative, whatever openings run at the same time.  Only a purchase in   *)
(* progress holds the row lock.                                            *)
TypeOK ==
  /\ ledger \in [exists : BOOLEAN, total : Nat, spent : Nat, keys : Nat]
  /\ lootKeys \in Nat
  /\ legacyXp \in Nat
  /\ zealyXp \in Nat \cup {NoXp}
  /\ unlocked \subseteq Traits
  /\ audit \in [Events -> KeyDeltas \cup {NoAudit}]
  /\ recorded \subseteq Events
  /\ rowLock \in {NoRequest} \cup {b \in Buyers : buy[b].pc = "upserted"}
  /\ buy \in [Buyers -> [pc : {"idle", "upserted", "bought", "failed"},
                         qty : Nat, total : Nat, spent : Nat]]
  /\ open \in [Openers ->
       [pc : {"idle", "checked", "sampled", "charged", "submitted", "unsubmitted", "failed"},
        picked : SUBSET Traits]]
  /\ hook \in [Hooks ->
       [pc : {"idle", "received", "duplicate", "ignored", "failed", "credited"},
        event : Events]]
  /\ show \in [Readers -> {"idle", "absent", "stale", "done"}]
  /\ {rewarded, bought, used} \subseteq Nat

(* Keys come from rewards and purchases and go to openings, and none is    *)
(* lost or made by requests that overlap; the copies in the other ledgers  *)
(* say the same.                                                           *)
KeysConserved ==
  /\ ledger.keys = rewarded + bought - used
  /\ lootKeys = ledger.keys

(* Every purchase that went through, and nothing else, was charged.        *)
XpAccounted == ledger.spent = bought * XpPerLootKey

(* The owner is shown the keys there are, from whichever ledger they are   *)
(* read, and no XP left over in another ledger before there is an economy  *)
(* ledger.                                                                 *)
ShownIsLeft ==
  /\ Shown.keys = rewarded + bought - used
  /\ ~ledger.exists => Shown.xp = 0

(* The ledger balances in both currencies, whatever overlaps: what is in   *)
(* it is what the requests that were answered put in and took out, and it  *)
(* is what the owner is shown.                                             *)
LedgerBalances == KeysConserved /\ XpAccounted /\ ShownIsLeft

\* The keys the audit shows, numbered for each event.
AuditedKeys == UNION {{e} \X (1..audit[e]) : e \in {x \in Events : audit[x] # NoAudit}}

(* The audit shows every key that was credited, and no other.              *)
AuditComplete == rewarded = Cardinality(AuditedKeys)

(* An event is credited once however often it is delivered: a delivery     *)
(* that credited it is the only one.                                       *)
CreditedOnce ==
  \A e \in Events :
    audit[e] # NoAudit <=> Cardinality({h \in Hooks : /\ hook[h].event = e
                                                     /\ hook[h].pc = "credited"}) = 1

(* A trait is unlocked by an opening that was charged, and an opening that *)
(* was charged unlocked all it drew; no more traits come out than the      *)
(* openings paid for.                                                      *)
UnlocksPaid ==
  /\ unlocked = UNION {open[o].picked :
       o \in {x \in Openers : open[x].pc \in {"charged", "submitted", "unsubmitted"}}}
  /\ Cardinality(unlocked) * LootKeysPerOpen <= used * MaxUnlocks

(* Whatever was put into the ledgers or taken out of them is explained by  *)
(* a row that says what for.                                               *)
EntriesExplained == AuditComplete /\ CreditedOnce /\ UnlocksPaid

(* A purchase leaves no more XP spent than there is, in the row it         *)
(* commits: what it read is still true when it writes.                     *)
NoOverspend ==
  [][\A b \in Buyers : (buy[b].pc = "upserted" /\ buy'[b].pc = "bought") =>
       ledger'.spent <= ledger'.total]_vars

(* A total that a webhook wrote is not overwritten by a purchase that read *)
(* an older one: a purchase only ever replaces a total of 0.               *)
PurchaseKeepsTotal ==
  [][\A b \in Buyers :
       (buy[b].pc = "upserted" /\ buy'[b].pc = "bought" /\ ledger.total > 0) =>
         ledger'.total = ledger.total]_vars

(* The inductive strengthening of the two: what a purchase in progress     *)
(* read is what the row still says, since it holds the lock of the row.    *)
RowAsRead ==
  UpsertLocks => \A b \in Buyers : buy[b].pc = "upserted" =>
    /\ rowLock = b
    /\ buy[b].qty \in Quantities
    /\ buy[b].spent = ledger.spent
    /\ buy[b].total = IF ledger.total > 0 THEN ledger.total ELSE DefaultXp

(* Every request that has started is answered: none waits forever for the  *)
(* row lock of another.                                                    *)
RequestsEnd ==
  /\ \A b \in Buyers : (buy[b].pc = "upserted") ~> buy[b].pc \in {"bought", "failed"}
  /\ \A o \in Openers : (open[o].pc \in {"checked", "sampled", "charged"}) ~>
                           open[o].pc \in {"submitted", "unsubmitted", "failed"}
  /\ \A r \in Readers : (show[r] \in {"absent", "stale"}) ~> (show[r] = "done")
  /\ \A h \in Hooks : (hook[h].pc = "received") ~> (hook[h].pc # "received")
=============================================================================
