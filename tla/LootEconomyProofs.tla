------------------------- MODULE LootEconomyProofs -------------------------
(***************************************************************************)
(* Proofs about LootEconomy for any number of requests and events and any  *)
(* amounts.  The accounting of keys and XP holds whether or not the upsert *)
(* of a purchase locks its row; that no purchase overspends, or writes an  *)
(* old total, is proved from the lock.                                     *)
(*                                                                         *)
(* Proofs about TokenRecords, the tables beside it, follow at the end.     *)
(***************************************************************************)
EXTENDS LootEconomy, TokenRecords, FiniteSetTheorems, TLAPS

USE DEF NoXp, NoAudit

LEMMA Distributes ==
  ASSUME NEW x \in Nat, NEW y \in Nat, NEW z \in Nat
  PROVE  (x + y) * z = x * z + y * z
  OBVIOUS

(* The price of some keys is a natural number, and of one or more is not 0.*)
LEMMA RequiredType ==
  ASSUME NEW qty \in Nat
  PROVE  /\ Required(qty) \in Nat
         /\ qty > 0 => Required(qty) > 0
  BY EconomyAssumption DEF Required

LEMMA QuantityPositive ==
  ASSUME NEW qty \in Quantities
  PROVE  qty \in Nat /\ qty > 0
<1>1. qty \in Nat \ {0}
  BY EconomyAssumption
<1> QED
  BY <1>1

(* As far as the ledger goes every step is a purchase, the taking of keys  *)
(* by an opening, a default total, a reward, or leaves the row alone.      *)
LEMMA StepCases ==
  ASSUME [Next]_vars
  PROVE  \/ \E b \in Buyers, qty \in Quantities : BuyUpsert(b, qty)
         \/ \E b \in Buyers : BuyCommit(b) \/ BuyRollback(b)
         \/ \E o \in Openers : OpenCheck(o) \/ OpenSample(o) \/ OpenCommit(o) \/ OpenSubmit(o)
         \/ \E r \in Readers : ShowRead(r) \/ ShowWrite(r)
         \/ \E h \in Hooks : HookReceive(h) \/ HookEnd(h) \/ HookApply(h)
         \/ UNCHANGED vars
  BY DEF Next, Buying, Opening, Hooking

(* Every column keeps its type; no balance becomes negative, however many  *)
(* openings passed the check of the same keys.                             *)
THEOREM EconomyTypeCorrect == Spec => []TypeOK
<1>1. Init => TypeOK
  BY EconomyAssumption DEF Init, TypeOK, NoLedger, Ended
<1>2. TypeOK /\ [Next]_vars => TypeOK'
  <2> SUFFICES ASSUME TypeOK, [Next]_vars
               PROVE  TypeOK'
    OBVIOUS
  <2> USE EconomyAssumption DEF TypeOK, database, history
  <2>1. ASSUME NEW b \in Buyers, NEW qty \in Quantities, BuyUpsert(b, qty)
        PROVE  TypeOK'
    BY <2>1 DEF BuyUpsert, LockOfUpsert, RowFree
  <2>2. ASSUME NEW b \in Buyers, BuyCommit(b)
        PROVE  TypeOK'
    <3>1. Required(buy[b].qty) \in Nat
      BY RequiredType
    <3>2. ledger' \in [exists : BOOLEAN, total : Nat, spent : Nat, keys : Nat]
      BY <2>2, <3>1 DEF BuyCommit, SpentAfter
    <3>3. legacyXp' \in Nat
      BY <2>2, <3>2 DEF BuyCommit, Available
    <3> QED
      BY <2>2, <3>2, <3>3 DEF BuyCommit, Ended
  <2>3. ASSUME NEW b \in Buyers, BuyRollback(b)
        PROVE  TypeOK'
    BY <2>3 DEF BuyRollback, Ended
  <2>4. ASSUME NEW o \in Openers, OpenCheck(o) \/ OpenSample(o) \/ OpenSubmit(o)
        PROVE  TypeOK'
    <3>1. /\ open' \in [Openers ->
               [pc : {"idle", "checked", "sampled", "charged", "submitted",
                      "unsubmitted", "failed"},
                picked : SUBSET Traits]]
          /\ UNCHANGED <<database, buy, hook, show, history>>
      BY <2>4 DEF OpenCheck, OpenSample, Draws, OpenSubmit, OpenStep
    <3> QED
      BY <3>1
  <2>5. ASSUME NEW o \in Openers, OpenCommit(o)
        PROVE  TypeOK'
    <3>1. CASE EnoughKeys
      <4>1. /\ ledger' = [ledger EXCEPT !.keys = ledger.keys - LootKeysPerOpen]
            /\ lootKeys' = ledger'.keys
            /\ unlocked' = unlocked \cup open[o].picked
            /\ used' = used + LootKeysPerOpen
            /\ open' = [open EXCEPT ![o] = [pc |-> "charged", picked |-> open[o].picked]]
            /\ UNCHANGED <<legacyXp, zealyXp, audit, recorded, rowLock,
                           buy, hook, show, rewarded, bought>>
        BY <2>5, <3>1 DEF OpenCommit, OpenStep
      <4>2. ledger.keys - LootKeysPerOpen \in Nat
        BY <3>1 DEF EnoughKeys
      <4>3. /\ ledger' \in [exists : BOOLEAN, total : Nat, spent : Nat, keys : Nat]
            /\ lootKeys' \in Nat
        BY <4>1, <4>2
      <4>4. unlocked' \subseteq Traits
        BY <4>1
      <4>5. {rewarded, bought, used}' \subseteq Nat
        BY <4>1
      <4>6. open' \in [Openers ->
               [pc : {"idle", "checked", "sampled", "charged", "submitted",
                      "unsubmitted", "failed"},
                picked : SUBSET Traits]]
        BY <4>1
      <4> QED
        BY <4>1, <4>3, <4>4, <4>5, <4>6
    <3>2. CASE ~EnoughKeys
      BY <2>5, <3>2 DEF OpenCommit, OpenStep
    <3> QED
      BY <3>1, <3>2
  <2>6. ASSUME NEW r \in Readers, ShowRead(r) \/ ShowWrite(r)
        PROVE  TypeOK'
    <3>1. CASE ShowRead(r)
      BY <3>1 DEF ShowRead
    <3>2. CASE ShowWrite(r)
      <4>1. ledger' \in [exists : BOOLEAN, total : Nat, spent : Nat, keys : Nat]
        <5>1. CASE show[r] = "stale"
          BY <3>2, <5>1 DEF ShowWrite
        <5>2. CASE show[r] = "absent"
          BY <3>2, <5>2 DEF ShowWrite, NoLedger
        <5> QED
          BY <3>2, <5>1, <5>2 DEF ShowWrite
      <4> QED
        BY <3>2, <4>1 DEF ShowWrite
    <3> QED
      BY <2>6, <3>1, <3>2
  <2>7. ASSUME NEW h \in Hooks, HookReceive(h) \/ HookEnd(h)
        PROVE  TypeOK'
    BY <2>7 DEF HookReceive, HookEnd, HookStep
  <2>8. ASSUME NEW h \in Hooks, HookApply(h)
        PROVE  TypeOK'
    <3>1. PICK total \in XpTotals, delta \in KeyDeltas :
            /\ Credit(total, delta)
            /\ audit' = [audit EXCEPT ![hook[h].event] = delta]
      BY <2>8 DEF HookApply
    <3>2. total \in Nat /\ delta \in Nat
      OBVIOUS
    <3>3. /\ ledger' \in [exists : BOOLEAN, total : Nat, spent : Nat, keys : Nat]
          /\ lootKeys' \in Nat
      <4>1. /\ ledger' = [ledger EXCEPT !.exists = TRUE, !.total = total,
                                        !.keys = ledger.keys + delta]
            /\ lootKeys' = ledger'.keys
        BY <3>1 DEF Credit
      <4>2. ledger.keys + delta \in Nat
        BY <3>2
      <4> QED
        BY <3>2, <4>1, <4>2
    <3>4. /\ legacyXp' \in Nat
          /\ zealyXp' \in Nat
          /\ rewarded' \in Nat
      BY <3>1, <3>2 DEF Credit
    <3>5. audit' \in [Events -> KeyDeltas \cup {NoAudit}]
      BY <3>1
    <3>6. hook' \in [Hooks ->
            [pc : {"idle", "received", "duplicate", "ignored", "failed", "credited"},
             event : Events]]
      BY <2>8 DEF HookApply, HookStep
    <3> QED
      BY <2>8, <3>3, <3>4, <3>5, <3>6 DEF HookApply
  <2>9. CASE UNCHANGED vars
    BY <2>9 DEF vars
  <2> QED
    BY <2>1, <2>2, <2>3, <2>4, <2>5, <2>6, <2>7, <2>8, <2>9, StepCases
<1> QED
  BY <1>1, <1>2, PTL DEF Spec

\* A row that is missing counts as one with nothing in it, and other ledgers have no
\* XP either.
MissingIsEmpty ==
  ~ledger.exists => /\ ledger.spent = 0 /\ ledger.keys = 0
                    /\ legacyXp = 0 /\ zealyXp = NoXp

(* No step writes to a missing row without making it.                      *)
LEMMA MissingIsEmptyAlways == Spec => []MissingIsEmpty
<1>1. Init => MissingIsEmpty
  BY DEF Init, MissingIsEmpty, NoLedger
<1>2. TypeOK /\ MissingIsEmpty /\ [Next]_vars => MissingIsEmpty'
  <2> SUFFICES ASSUME TypeOK, MissingIsEmpty, [Next]_vars
               PROVE  MissingIsEmpty'
    OBVIOUS
  <2> USE EconomyAssumption DEF MissingIsEmpty, database
  <2>t. ledger \in [exists : BOOLEAN, total : Nat, spent : Nat, keys : Nat]
    BY DEF TypeOK
  <2>1. ASSUME NEW b \in Buyers, BuyCommit(b)
        PROVE  MissingIsEmpty'
    BY <2>1 DEF BuyCommit
  <2>2. ASSUME NEW o \in Openers, OpenCommit(o)
        PROVE  MissingIsEmpty'
    \* Enough keys means one at least, so the row is there.
    <3>1. CASE EnoughKeys
      <4>1. ledger'.exists = ledger.exists /\ ledger.keys > 0
        BY <2>t, <2>2, <3>1 DEF OpenCommit, EnoughKeys
      <4> QED
        BY <4>1
    <3>2. CASE ~EnoughKeys
      BY <2>2, <3>2 DEF OpenCommit
    <3> QED
      BY <3>1, <3>2
  <2>3. ASSUME NEW r \in Readers, ShowWrite(r)
        PROVE  MissingIsEmpty'
    BY <2>t, <2>3 DEF ShowWrite, NoLedger
  <2>4. ASSUME NEW h \in Hooks, HookApply(h)
        PROVE  MissingIsEmpty'
    <3>1. PICK total \in XpTotals, delta \in KeyDeltas : Credit(total, delta)
      BY <2>4 DEF HookApply
    <3> QED
      BY <2>t, <3>1 DEF Credit
  <2>5. CASE UNCHANGED <<ledger, legacyXp, zealyXp>>
    BY <2>5
  <2> QED
    BY <2>1, <2>2, <2>3, <2>4, <2>5, StepCases
    DEF vars, BuyUpsert, BuyRollback, OpenCheck, OpenSample, Draws, OpenSubmit,
        ShowRead, HookReceive, HookEnd
<1> QED
  BY <1>1, <1>2, EconomyTypeCorrect, PTL DEF Spec

(* Keys are neither made nor lost by any number of purchases, openings and *)
(* rewards that overlap, and the copies of the balance agree with it.      *)
THEOREM KeysConservedAlways == Spec => []KeysConserved
<1>1. Init => KeysConserved
  BY DEF Init, KeysConserved, NoLedger
<1>2. TypeOK /\ MissingIsEmpty /\ KeysConserved /\ [Next]_vars => KeysConserved'
  <2> SUFFICES ASSUME TypeOK, MissingIsEmpty, KeysConserved, [Next]_vars
               PROVE  KeysConserved'
    OBVIOUS
  <2> USE EconomyAssumption DEF KeysConserved, database, history
  <2>t. /\ ledger \in [exists : BOOLEAN, total : Nat, spent : Nat, keys : Nat]
        /\ rewarded \in Nat /\ bought \in Nat /\ used \in Nat
        /\ \A b \in Buyers : buy[b].qty \in Nat
    BY DEF TypeOK
  <2>1. ASSUME NEW b \in Buyers, BuyCommit(b)
        PROVE  KeysConserved'
    BY <2>t, <2>1 DEF BuyCommit
  <2>2. ASSUME NEW o \in Openers, OpenCommit(o)
        PROVE  KeysConserved'
    <3>1. CASE EnoughKeys
      <4>1. ledger'.keys = ledger.keys - LootKeysPerOpen
        BY <2>t, <2>2, <3>1 DEF OpenCommit
      <4> QED
        BY <2>t, <2>2, <3>1, <4>1 DEF OpenCommit
    <3>2. CASE ~EnoughKeys
      BY <2>2, <3>2 DEF OpenCommit
    <3> QED
      BY <3>1, <3>2
  <2>3. ASSUME NEW r \in Readers, ShowWrite(r)
        PROVE  KeysConserved'
    \* A row that is missing holds no keys, so a new one starts from none.
    <3>1. ledger'.keys = ledger.keys
      BY <2>t, <2>3 DEF ShowWrite, NoLedger, MissingIsEmpty
    <3> QED
      BY <2>3, <3>1 DEF ShowWrite
  <2>4. ASSUME NEW h \in Hooks, HookApply(h)
        PROVE  KeysConserved'
    <3>1. PICK total \in XpTotals, delta \in KeyDeltas : Credit(total, delta)
      BY <2>4 DEF HookApply
    <3>2. ledger'.keys = ledger.keys + delta
      BY <2>t, <3>1 DEF Credit
    <3> QED
      BY <2>t, <2>4, <3>1, <3>2 DEF Credit, HookApply
  <2>5. CASE UNCHANGED <<ledger, lootKeys, history>>
    BY <2>5
  <2> QED
    BY <2>1, <2>2, <2>3, <2>4, <2>5, StepCases
    DEF vars, BuyUpsert, BuyRollback, OpenCheck, OpenSample, Draws, OpenSubmit,
        ShowRead, HookReceive, HookEnd
<1> QED
  BY <1>1, <1>2, EconomyTypeCorrect, MissingIsEmptyAlways, PTL DEF Spec

(* The XP spent is the price of the keys bought, purchase by purchase:     *)
(* none is charged twice, none is given away, and no other request charges.*)
THEOREM XpAccountedAlways == Spec => []XpAccounted
<1>1. Init => XpAccounted
  BY EconomyAssumption DEF Init, XpAccounted, NoLedger
<1>2. TypeOK /\ MissingIsEmpty /\ XpAccounted /\ [Next]_vars => XpAccounted'
  <2> SUFFICES ASSUME TypeOK, MissingIsEmpty, XpAccounted, [Next]_vars
               PROVE  XpAccounted'
    OBVIOUS
  <2> USE EconomyAssumption DEF XpAccounted, database, history
  <2>t. /\ ledger \in [exists : BOOLEAN, total : Nat, spent : Nat, keys : Nat]
        /\ bought \in Nat
        /\ \A b \in Buyers : buy[b].qty \in Nat
    BY DEF TypeOK
  <2>1. ASSUME NEW b \in Buyers, BuyCommit(b)
        PROVE  XpAccounted'
    <3>1. /\ ledger'.spent = ledger.spent + buy[b].qty * XpPerLootKey
          /\ bought' = bought + buy[b].qty
      BY <2>1 DEF BuyCommit, SpentAfter, Required
    <3>2. (bought + buy[b].qty) * XpPerLootKey
            = bought * XpPerLootKey + buy[b].qty * XpPerLootKey
      <4>1. bought \in Nat /\ buy[b].qty \in Nat /\ XpPerLootKey \in Nat
        BY <2>t
      <4> QED
        BY ONLY <4>1, Distributes
    <3> QED
      BY <3>1, <3>2
  <2>2. ASSUME NEW o \in Openers, OpenCommit(o)
        PROVE  XpAccounted'
    <3>1. ledger'.spent = ledger.spent /\ bought' = bought
      BY <2>t, <2>2 DEF OpenCommit
    <3> QED
      BY <3>1
  <2>3. ASSUME NEW r \in Readers, ShowWrite(r)
        PROVE  XpAccounted'
    <3>1. ledger'.spent = ledger.spent /\ bought' = bought
      BY <2>t, <2>3 DEF ShowWrite, NoLedger, MissingIsEmpty
    <3> QED
      BY <3>1
  <2>4. ASSUME NEW h \in Hooks, HookApply(h)
        PROVE  XpAccounted'
    <3>1. PICK total \in XpTotals, delta \in KeyDeltas : Credit(total, delta)
      BY <2>4 DEF HookApply
    <3>2. ledger'.spent = ledger.spent /\ bought' = bought
      BY <2>t, <2>4, <3>1 DEF Credit, HookApply
    <3> QED
      BY <3>2
  <2>5. CASE UNCHANGED <<ledger, bought>>
    BY <2>5
  <2> QED
    BY <2>1, <2>2, <2>3, <2>4, <2>5, StepCases
    DEF vars, BuyUpsert, BuyRollback, OpenCheck, OpenSample, Draws, OpenSubmit,
        ShowRead, HookReceive, HookEnd
<1> QED
  BY <1>1, <1>2, EconomyTypeCorrect, MissingIsEmptyAlways, PTL DEF Spec

(* Whatever ledger the balances are read from, they are what is left.      *)
LEMMA ShownIsLeftAlways == Spec => []ShownIsLeft
<1>1. MissingIsEmpty /\ KeysConserved => ShownIsLeft
  BY DEF MissingIsEmpty, KeysConserved, ShownIsLeft, Shown
<1> QED
  BY <1>1, MissingIsEmptyAlways, KeysConservedAlways, PTL

(* The ledger balances, for any number of overlapping requests.            *)
THEOREM LedgerBalancesAlways == Spec => []LedgerBalances
BY KeysConservedAlways, XpAccountedAlways, ShownIsLeftAlways, PTL DEF LedgerBalances

(* A purchase in progress holds the lock of the row, so nothing it read    *)
(* has changed and no second purchase is in progress.                      *)
THEOREM RowAsReadAlways == Spec => []RowAsRead
<1>1. Init => RowAsRead
  BY DEF Init, RowAsRead, Ended
<1>2. TypeOK /\ RowAsRead /\ [Next]_vars => RowAsRead'
  <2> SUFFICES ASSUME TypeOK, RowAsRead, [Next]_vars, UpsertLocks,
                      NEW c \in Buyers, buy'[c].pc = "upserted"
               PROVE  /\ rowLock' = c
                      /\ buy'[c].qty \in Quantities
                      /\ buy'[c].spent = ledger'.spent
                      /\ buy'[c].total = IF ledger'.total > 0 THEN ledger'.total ELSE DefaultXp
    BY DEF RowAsRead
  <2> USE EconomyAssumption
  <2>t. buy \in [Buyers -> [pc : {"idle", "upserted", "bought", "failed"},
                            qty : Nat, total : Nat, spent : Nat]]
    BY DEF TypeOK
  <2>p. \A b \in Buyers : buy[b].pc = "upserted" =>
          /\ rowLock = b
          /\ ~RowFree
          /\ buy[b].qty \in Quantities
          /\ buy[b].spent = ledger.spent
          /\ buy[b].total = IF ledger.total > 0 THEN ledger.total ELSE DefaultXp
    BY DEF RowAsRead, RowFree
  <2>1. ASSUME NEW b \in Buyers, NEW qty \in Quantities, BuyUpsert(b, qty)
        PROVE  /\ c = b
               /\ rowLock' = b
               /\ ledger' = ledger
               /\ buy'[b] = [pc |-> "upserted", qty |-> qty, spent |-> ledger.spent,
                             total |-> IF ledger.total > 0 THEN ledger.total ELSE DefaultXp]
    <3>1. buy' = [buy EXCEPT ![b] =
            [pc |-> "upserted", qty |-> qty, spent |-> ledger.spent,
             total |-> IF ledger.total > 0 THEN ledger.total ELSE DefaultXp]]
      BY <2>1 DEF BuyUpsert
    <3>2. c = b
      BY <2>1, <2>t, <2>p, <3>1 DEF BuyUpsert
    <3> QED
      BY <2>1, <2>t, <3>1, <3>2 DEF BuyUpsert, LockOfUpsert
  <2>2. ASSUME NEW b \in Buyers, BuyCommit(b) \/ BuyRollback(b)
        PROVE  FALSE
    \* b was the only purchase in progress, and has ended.
    <3>1. \E pc \in {"bought", "failed"} : buy' = [buy EXCEPT ![b] = Ended(pc)]
      BY <2>2 DEF BuyCommit, BuyRollback
    <3>2. c # b /\ buy'[c] = buy[c]
      BY <2>t, <3>1 DEF Ended
    <3> QED
      BY <2>2, <2>p, <3>2 DEF BuyCommit, BuyRollback
  <2>3. CASE UNCHANGED <<buy, rowLock, ledger>>
    BY <2>3, <2>p
  <2>4. CASE RowFree /\ UNCHANGED buy
    BY <2>4, <2>p
  <2>5. \/ \E b \in Buyers, qty \in Quantities : BuyUpsert(b, qty)
        \/ \E b \in Buyers : BuyCommit(b) \/ BuyRollback(b)
        \/ UNCHANGED <<buy, rowLock, ledger>>
        \/ RowFree /\ UNCHANGED buy
    BY StepCases
    DEF vars, database, OpenCheck, OpenSample, Draws, OpenCommit, OpenSubmit,
        ShowRead, ShowWrite, HookReceive, HookEnd, HookApply
  <2>6. ASSUME NEW b \in Buyers, NEW qty \in Quantities, BuyUpsert(b, qty)
        PROVE  /\ rowLock' = c
               /\ buy'[c].qty \in Quantities
               /\ buy'[c].spent = ledger'.spent
               /\ buy'[c].total = IF ledger'.total > 0 THEN ledger'.total ELSE DefaultXp
    <3>1. /\ c = b /\ rowLock' = b /\ ledger' = ledger
          /\ buy'[b] = [pc |-> "upserted", qty |-> qty, spent |-> ledger.spent,
                        total |-> IF ledger.total > 0 THEN ledger.total ELSE DefaultXp]
      BY <2>1, <2>6
    <3> QED
      BY <3>1
  <2> QED
    BY <2>2, <2>3, <2>4, <2>5, <2>6
<1> QED
  BY <1>1, <1>2, EconomyTypeCorrect, PTL DEF Spec

\* A step that ends the purchase b with the keys bought is its commit.
LEMMA BoughtByCommit ==
  ASSUME TypeOK, [Next]_vars, NEW b \in Buyers,
         buy[b].pc = "upserted", buy'[b].pc = "bought"
  PROVE  BuyCommit(b)
<1>t. buy \in [Buyers -> [pc : {"idle", "upserted", "bought", "failed"},
                          qty : Nat, total : Nat, spent : Nat]]
  BY DEF TypeOK
<1>1. ASSUME NEW c \in Buyers, NEW qty \in Quantities, BuyUpsert(c, qty)
      PROVE  FALSE
  BY <1>1, <1>t DEF BuyUpsert
<1>2. ASSUME NEW c \in Buyers, BuyRollback(c)
      PROVE  FALSE
  BY <1>2, <1>t DEF BuyRollback, Ended
<1>3. ASSUME NEW c \in Buyers, BuyCommit(c)
      PROVE  c = b
  BY <1>3, <1>t DEF BuyCommit, Ended
<1>4. ~UNCHANGED buy
  OBVIOUS
<1> QED
  BY <1>1, <1>2, <1>3, <1>4, StepCases
  DEF vars, OpenCheck, OpenSample, Draws, OpenCommit, OpenSubmit,
      ShowRead, ShowWrite, HookReceive, HookEnd, HookApply

(* Where the upsert locks the row, a purchase is never committed with more *)
(* XP spent than the row has, whatever ran since it read the row.          *)
THEOREM NoOverspendAlways ==
  ASSUME UpsertLocks
  PROVE  Spec => NoOverspend
<1>1. ASSUME TypeOK, RowAsRead, [Next]_vars, NEW b \in Buyers,
             buy[b].pc = "upserted", buy'[b].pc = "bought"
      PROVE  ledger'.spent <= ledger'.total
  <2>1. BuyCommit(b)
    BY <1>1, BoughtByCommit
  <2>r. buy[b].qty \in Quantities /\ buy[b].spent = ledger.spent
    BY <1>1 DEF RowAsRead
  <2>2. buy[b].qty \in Nat /\ buy[b].qty > 0
    BY <2>r, QuantityPositive
  <2>3. Required(buy[b].qty) \in Nat /\ Required(buy[b].qty) > 0
    BY <2>2, RequiredType
  <2>4. buy[b].total \in Nat /\ ledger.spent \in Nat
    BY <1>1 DEF TypeOK
  <2>5. /\ ledger'.spent = ledger.spent + Required(buy[b].qty)
        /\ ledger'.total = buy[b].total
    BY <2>1 DEF BuyCommit, SpentAfter
  <2>6. ledger.spent + Required(buy[b].qty) <= buy[b].total
    BY <2>1, <2>r, <2>2, <2>3, <2>4 DEF BuyCommit, EnoughXp, Available
  <2> QED
    BY <2>5, <2>6
<1>2. TypeOK /\ RowAsRead /\ [Next]_vars =>
        [\A b \in Buyers : (buy[b].pc = "upserted" /\ buy'[b].pc = "bought") =>
           ledger'.spent <= ledger'.total]_vars
  BY <1>1
<1> QED
  BY <1>2, EconomyTypeCorrect, RowAsReadAlways, PTL DEF Spec, NoOverspend

(* Where the upsert locks the row, a purchase never writes an XP total     *)
(* over a newer one from Zealy.                                            *)
THEOREM PurchaseKeepsTotalAlways ==
  ASSUME UpsertLocks
  PROVE  Spec => PurchaseKeepsTotal
<1>1. ASSUME TypeOK, RowAsRead, [Next]_vars, NEW b \in Buyers,
             buy[b].pc = "upserted", buy'[b].pc = "bought", ledger.total > 0
      PROVE  ledger'.total = ledger.total
  <2>1. BuyCommit(b)
    BY <1>1, BoughtByCommit
  <2> QED
    BY <1>1, <2>1 DEF BuyCommit, RowAsRead
<1>2. TypeOK /\ RowAsRead /\ [Next]_vars =>
        [\A b \in Buyers :
           (buy[b].pc = "upserted" /\ buy'[b].pc = "bought" /\ ledger.total > 0) =>
             ledger'.total = ledger.total]_vars
  BY <1>1
<1> QED
  BY <1>2, EconomyTypeCorrect, RowAsReadAlways, PTL DEF Spec, PurchaseKeepsTotal
-----------------------------------------------------------------------------
(* What the rows explain                                                   *)

CreditedBy(e) == {h \in Hooks : hook[h].event = e /\ hook[h].pc = "credited"}

\* The audit has a row for an event if one delivery credited it, and none if none did.
OneDelivery ==
  \A e \in Events : IF audit[e] = NoAudit THEN CreditedBy(e) = {}
                                          ELSE \E h \in Hooks : CreditedBy(e) = {h}

(* However many deliveries of an event overlap, one of them credits it: the*)
(* row in the audit and the reward are written by one transaction.         *)
THEOREM CreditedOnceAlways == Spec => []CreditedOnce
<1>1. Init => OneDelivery
  BY DEF Init, OneDelivery, CreditedBy
<1>2. TypeOK /\ OneDelivery /\ [Next]_vars => OneDelivery'
  <2> SUFFICES ASSUME TypeOK, OneDelivery, [Next]_vars
               PROVE  OneDelivery'
    OBVIOUS
  <2>t. /\ hook \in [Hooks -> [pc : {"idle", "received", "duplicate", "ignored", "failed",
                                     "credited"}, event : Events]]
        /\ audit \in [Events -> KeyDeltas \cup {NoAudit}]
    BY DEF TypeOK
  <2>1. ASSUME NEW h \in Hooks, HookReceive(h) \/ HookEnd(h)
        PROVE  OneDelivery'
    <3>1. PICK pc \in {"duplicate", "received", "ignored", "failed"} :
            hook' = [hook EXCEPT ![h].pc = pc]
      BY <2>1 DEF HookReceive, HookEnd, HookStep
    <3>2. hook[h].pc # "credited" /\ UNCHANGED audit
      BY <2>1 DEF HookReceive, HookEnd, database
    <3>3. \A e \in Events : CreditedBy(e)' = CreditedBy(e)
      BY <2>t, <3>1, <3>2 DEF CreditedBy
    <3> QED
      BY <3>2, <3>3 DEF OneDelivery
  <2>2. ASSUME NEW h \in Hooks, HookApply(h)
        PROVE  OneDelivery'
    <3> DEFINE e == hook[h].event
    <3>1. e \in Events /\ audit[e] = NoAudit /\ hook' = [hook EXCEPT ![h].pc = "credited"]
      BY <2>t, <2>2 DEF HookApply, HookStep
    <3>2. PICK delta \in KeyDeltas : audit' = [audit EXCEPT ![e] = delta]
      BY <2>2 DEF HookApply
    <3>3. delta \in Nat
      BY EconomyAssumption
    <3>4. audit'[e] # NoAudit /\ \A x \in Events \ {e} : audit'[x] = audit[x]
      <4>1. audit'[e] = delta /\ \A x \in Events \ {e} : audit'[x] = audit[x]
        BY <2>t, <3>1, <3>2
      <4>2. delta # NoAudit
        BY <3>3
      <4> QED
        BY <4>1, <4>2
    <3>5. CreditedBy(e) = {}
      BY <3>1 DEF OneDelivery
    <3>6. \A g \in Hooks : /\ hook'[g].event = hook[g].event
                           /\ hook'[g].pc = IF g = h THEN "credited" ELSE hook[g].pc
      BY <2>t, <3>1
    <3>7. ASSUME NEW x \in Events, x = e
          PROVE  CreditedBy(x)' = {h}
      BY <3>5, <3>6, <3>7 DEF CreditedBy
    <3>8. \A x \in Events \ {e} : CreditedBy(x)' = CreditedBy(x)
      BY <3>6 DEF CreditedBy
    <3> SUFFICES ASSUME NEW x \in Events
                 PROVE  IF audit'[x] = NoAudit THEN CreditedBy(x)' = {}
                                               ELSE \E g \in Hooks : CreditedBy(x)' = {g}
      BY DEF OneDelivery
    <3> QED
      <4>1. CASE x = e
        BY <3>4, <3>7, <4>1
      <4>2. CASE x # e
        <5>1. audit'[x] = audit[x] /\ CreditedBy(x)' = CreditedBy(x)
          BY <3>4, <3>8, <4>2
        <5>2. IF audit[x] = NoAudit THEN CreditedBy(x) = {} ELSE \E g \in Hooks : CreditedBy(x) = {g}
          BY DEF OneDelivery
        <5> QED
          BY <5>1, <5>2, Zenon
      <4> QED
        BY <4>1, <4>2
  <2>3. CASE UNCHANGED <<hook, audit>>
    BY <2>3 DEF OneDelivery, CreditedBy
  <2> QED
    BY <2>1, <2>2, <2>3, StepCases
    DEF vars, database, BuyUpsert, BuyCommit, BuyRollback, OpenCheck, OpenSample, Draws,
        OpenCommit, OpenSubmit, ShowRead, ShowWrite
<1>3. OneDelivery => CreditedOnce
  <2> SUFFICES ASSUME OneDelivery, NEW e \in Events
               PROVE  audit[e] # NoAudit <=> Cardinality(CreditedBy(e)) = 1
    BY DEF CreditedOnce, CreditedBy
  <2>1. CASE audit[e] = NoAudit
    BY <2>1, FS_EmptySet DEF OneDelivery
  <2>2. CASE audit[e] # NoAudit
    BY <2>2, FS_Singleton DEF OneDelivery
  <2> QED
    BY <2>1, <2>2
<1> QED
  BY <1>1, <1>2, <1>3, EconomyTypeCorrect, PTL DEF Spec

LEMMA SomeKeys ==
  ASSUME NEW e, NEW delta \in Nat
  PROVE  IsFiniteSet({e} \X (1..delta)) /\ Cardinality({e} \X (1..delta)) = delta
<1>1. IsFiniteSet(1..delta) /\ Cardinality(1..delta) = delta
  BY FS_Interval
<1>2. IsFiniteSet({e}) /\ Cardinality({e}) = 1
  BY FS_Singleton
<1> QED
  BY <1>1, <1>2, FS_Product

(* Sets that share nothing have as many elements as the two together.      *)
LEMMA DisjointSum ==
  ASSUME NEW S, NEW T, IsFiniteSet(S), IsFiniteSet(T), S \cap T = {}
  PROVE  /\ IsFiniteSet(S \cup T)
         /\ Cardinality(S \cup T) = Cardinality(S) + Cardinality(T)
<1>1. Cardinality(S \cap T) = 0
  BY FS_EmptySet
<1>2. Cardinality(S) \in Nat /\ Cardinality(T) \in Nat
  BY FS_CardinalityType
<1>3. /\ IsFiniteSet(S \cup T)
      /\ Cardinality(S \cup T) = Cardinality(S) + Cardinality(T) - Cardinality(S \cap T)
  BY FS_Union
<1> QED
  BY <1>1, <1>2, <1>3

\* The keys that rows of an audit show.
KeysShown(rows, shows) == UNION {{x} \X (1..shows[x]) : x \in rows}

(* A further row adds its keys to those of the others.                     *)
LEMMA OneMoreRow ==
  ASSUME NEW rows, NEW e, e \notin rows, NEW old, NEW new, \A x \in rows : new[x] = old[x]
  PROVE  /\ KeysShown(rows \cup {e}, new) = KeysShown(rows, old) \cup ({e} \X (1..new[e]))
         /\ KeysShown(rows, old) \cap ({e} \X (1..new[e])) = {}
<1>1. ASSUME NEW p \in KeysShown(rows, old)
      PROVE  p \in KeysShown(rows \cup {e}, new) /\ p \notin {e} \X (1..new[e])
  <2>1. PICK x \in rows : p \in {x} \X (1..old[x])
    BY DEF KeysShown
  <2>2. p \in {x} \X (1..new[x]) /\ p[1] = x
    BY <2>1
  <2> QED
    BY <2>2 DEF KeysShown
<1>2. ASSUME NEW p \in KeysShown(rows \cup {e}, new), p \notin {e} \X (1..new[e])
      PROVE  p \in KeysShown(rows, old)
  <2>1. PICK x \in rows \cup {e} : p \in {x} \X (1..new[x])
    BY DEF KeysShown
  <2>2. x \in rows
    BY <1>2, <2>1
  <2>3. p \in {x} \X (1..old[x])
    BY <2>1, <2>2
  <2> QED
    BY <2>2, <2>3 DEF KeysShown
<1>3. \A p \in {e} \X (1..new[e]) : p \in KeysShown(rows \cup {e}, new)
  BY DEF KeysShown
<1> QED
  BY <1>1, <1>2, <1>3

(* Every key that was credited is shown by a row of the audit, which the   *)
(* transaction of the reward writes, and no row shows another.             *)
THEOREM AuditCompleteAlways == Spec => []AuditComplete
<1> DEFINE Complete == IsFiniteSet(AuditedKeys) /\ AuditComplete
<1>1. Init => Complete
  <2> SUFFICES ASSUME Init
               PROVE  Complete
    OBVIOUS
  <2>1. AuditedKeys = {}
    BY DEF Init, AuditedKeys
  <2> QED
    BY <2>1, FS_EmptySet DEF Init, AuditComplete
<1>2. TypeOK /\ Complete /\ [Next]_vars => Complete'
  <2> SUFFICES ASSUME TypeOK, Complete, [Next]_vars
               PROVE  Complete'
    OBVIOUS
  <2>1. ASSUME NEW h \in Hooks, HookApply(h)
        PROVE  Complete'
    <3> DEFINE e == hook[h].event
    <3>1. PICK total \in XpTotals, delta \in KeyDeltas :
            /\ Credit(total, delta)
            /\ audit' = [audit EXCEPT ![e] = delta]
      BY <2>1 DEF HookApply
    <3>2. e \in Events /\ audit[e] = NoAudit /\ audit \in [Events -> KeyDeltas \cup {NoAudit}]
      BY <2>1 DEF HookApply, TypeOK
    <3>3. delta \in Nat /\ delta # NoAudit
      BY EconomyAssumption
    <3>4. audit'[e] = delta /\ \A x \in Events \ {e} : audit'[x] = audit[x]
      BY <3>1, <3>2
    <3> DEFINE Rows == {x \in Events : audit[x] # NoAudit}
               New  == {e} \X (1..delta)
    <3>5. {x \in Events : audit'[x] # NoAudit} = Rows \cup {e} /\ e \notin Rows
      BY <3>2, <3>3, <3>4
    <3>6. AuditedKeys' = KeysShown(Rows \cup {e}, audit')
      BY <3>5 DEF AuditedKeys, KeysShown
    <3>7. AuditedKeys = KeysShown(Rows, audit)
      BY DEF AuditedKeys, KeysShown
    <3>8. \A x \in Rows : audit'[x] = audit[x]
      BY <3>4, <3>5
    <3>9. AuditedKeys' = AuditedKeys \cup New /\ AuditedKeys \cap New = {}
      <4>1. New = {e} \X (1..audit'[e])
        BY <3>4
      <4>2. e \notin Rows
        BY <3>5
      <4> HIDE DEF New, Rows, e
      <4>3. /\ KeysShown(Rows \cup {e}, audit') = KeysShown(Rows, audit) \cup ({e} \X (1..audit'[e]))
            /\ KeysShown(Rows, audit) \cap ({e} \X (1..audit'[e])) = {}
        BY <3>8, <4>2, OneMoreRow
      <4> QED
        BY <3>6, <3>7, <4>1, <4>3
    <3>10. /\ IsFiniteSet(AuditedKeys \cup New)
           /\ Cardinality(AuditedKeys \cup New) = Cardinality(AuditedKeys) + delta
      <4>1. IsFiniteSet(New) /\ Cardinality(New) = delta
        BY <3>3, SomeKeys
      <4> HIDE DEF New
      <4> QED
        BY <3>9, <4>1, DisjointSum
    <3>11. rewarded' = rewarded + delta
      BY <3>1 DEF Credit
    <3> QED
      BY <3>9, <3>10, <3>11 DEF AuditComplete
  <2>2. CASE UNCHANGED <<audit, rewarded>>
    BY <2>2 DEF AuditComplete, AuditedKeys
  <2> QED
    BY <2>1, <2>2, StepCases
    DEF vars, database, history, BuyUpsert, BuyCommit, BuyRollback, OpenCheck, OpenSample,
        Draws, OpenCommit, OpenSubmit, ShowRead, ShowWrite, HookReceive, HookEnd
<1> QED
  BY <1>1, <1>2, EconomyTypeCorrect, PTL DEF Spec

Charged(o) == open[o].pc \in {"charged", "submitted", "unsubmitted"}

\* What an opening draws it draws before it is charged, and never more than it may.
DrawsBounded ==
  \A o \in Openers : open[o].pc = "sampled" => Cardinality(open[o].picked) <= MaxUnlocks

\* A trait is unlocked by an opening that was charged, which unlocked all it drew.
UnlockedByCharged == unlocked = UNION {open[o].picked : o \in {x \in Openers : Charged(x)}}

\* No more come out than was paid for.
PaidFor == Cardinality(unlocked) * LootKeysPerOpen <= used * MaxUnlocks

(* A union has at most as many elements as the two sets together.          *)
LEMMA UnionBound ==
  ASSUME NEW S, NEW T, IsFiniteSet(S), IsFiniteSet(T)
  PROVE  /\ IsFiniteSet(S \cup T)
         /\ {Cardinality(S), Cardinality(T), Cardinality(S \cup T)} \subseteq Nat
         /\ Cardinality(S \cup T) <= Cardinality(S) + Cardinality(T)
<1>1. IsFiniteSet(S \cup T) /\ IsFiniteSet(S \cap T)
  BY FS_Union, FS_Intersection
<1>2. Cardinality(S \cup T) = Cardinality(S) + Cardinality(T) - Cardinality(S \cap T)
  BY FS_Union
<1>3. /\ Cardinality(S) \in Nat /\ Cardinality(T) \in Nat
      /\ Cardinality(S \cap T) \in Nat /\ Cardinality(S \cup T) \in Nat
  BY <1>1, FS_CardinalityType
<1> QED
  BY <1>1, <1>2, <1>3

(* One more payment pays for as many more as an opening may unlock.        *)
LEMMA Products ==
  ASSUME NEW a \in Nat, NEW b \in Nat, NEW c \in Nat, NEW k \in Nat, NEW m \in Nat,
         b <= a + m, a * k <= c * m
  PROVE  b * k <= (c + k) * m
<1>1. b * k <= (a + m) * k
  <2>1. PICK d \in Nat : b + d = a + m
    <3>1. a + m - b \in Nat /\ b + (a + m - b) = a + m
      OBVIOUS
    <3> QED
      BY <3>1
  <2>2. (b + d) * k = b * k + d * k
    OBVIOUS
  <2>3. b * k \in Nat /\ d * k \in Nat
    OBVIOUS
  <2>4. (b + d) * k = (a + m) * k
    BY <2>1
  <2> QED
    BY <2>2, <2>3, <2>4
<1>2. (a + m) * k = a * k + m * k
  OBVIOUS
<1>3. (c + k) * m = c * m + k * m
  OBVIOUS
<1>4. m * k = k * m
  OBVIOUS
<1>5. {b * k, a * k, m * k, c * m, k * m} \subseteq Nat
  OBVIOUS
<1> QED
  BY <1>1, <1>2, <1>3, <1>4, <1>5

(* Openings never unlock what was not paid for, whatever keys they saw     *)
(* before and however they overlap.                                        *)
THEOREM UnlocksPaidAlways == Spec => []UnlocksPaid
<1> DEFINE Paid == DrawsBounded /\ UnlockedByCharged /\ PaidFor
<1>1. Init => Paid
  <2> SUFFICES ASSUME Init PROVE Paid
    OBVIOUS
  <2>1. Cardinality(unlocked) = 0 /\ used = 0
    BY FS_EmptySet DEF Init
  <2> QED
    BY <2>1, EconomyAssumption DEF Init, DrawsBounded, UnlockedByCharged, Charged, PaidFor
<1>2. TypeOK /\ Paid /\ [Next]_vars => Paid'
  <2> SUFFICES ASSUME TypeOK, Paid, [Next]_vars
               PROVE  Paid'
    OBVIOUS
  <2>t. /\ open \in [Openers ->
             [pc : {"idle", "checked", "sampled", "charged", "submitted", "unsubmitted", "failed"},
              picked : SUBSET Traits]]
        /\ used \in Nat /\ IsFiniteSet(unlocked)
    BY EconomyAssumption, FS_Subset DEF TypeOK
  <2>1. ASSUME NEW o \in Openers, OpenCheck(o) \/ OpenSample(o) \/ OpenSubmit(o)
        PROVE  Paid'
    <3>1. UNCHANGED <<unlocked, used>>
      BY <2>1 DEF OpenCheck, OpenSample, OpenSubmit, database, history
    <3>2. PICK x : open' = [open EXCEPT ![o] = x]
      BY <2>1 DEF OpenCheck, OpenSample, OpenSubmit, OpenStep
    <3>3. \/ /\ ~Charged(o)
             /\ x.pc \in {"checked", "failed", "sampled"}
             /\ x.pc = "sampled" => Cardinality(x.picked) <= MaxUnlocks
          \/ /\ Charged(o)
             /\ x.pc \in {"submitted", "unsubmitted"} /\ x.picked = open[o].picked
      <4>1. open'[o] = x
        BY <2>t, <3>2
      <4> QED
        BY <2>1, <2>t, <4>1 DEF OpenCheck, OpenSample, OpenSubmit, OpenStep, Draws, Charged
    <3>4. \A q \in Openers \ {o} : open'[q] = open[q]
      BY <2>t, <3>2
    <3>5. open'[o] = x
      BY <2>t, <3>2
    <3>6. \A q \in Openers : Charged(q)' = Charged(q) /\ (Charged(q) => open'[q].picked = open[q].picked)
      BY <3>3, <3>4, <3>5 DEF Charged
    <3>7. UnlockedByCharged'
      BY <3>1, <3>6 DEF UnlockedByCharged
    <3> QED
      BY <3>1, <3>3, <3>4, <3>5, <3>7 DEF DrawsBounded, PaidFor, Charged
  <2>2. ASSUME NEW o \in Openers, OpenCommit(o)
        PROVE  Paid'
    <3> DEFINE picked == open[o].picked
    <3>0. open[o].pc = "sampled" /\ picked \subseteq Traits
      BY <2>2, <2>t DEF OpenCommit
    <3>1. CASE EnoughKeys
      <4>1. /\ unlocked' = unlocked \cup picked
            /\ used' = used + LootKeysPerOpen
            /\ open' = [open EXCEPT ![o] = [pc |-> "charged", picked |-> picked]]
        BY <2>2, <3>1 DEF OpenCommit, OpenStep
      <4>2. \A q \in Openers : /\ open'[q].picked = open[q].picked
                               /\ q # o => open'[q].pc = open[q].pc
        BY <2>t, <4>1
      <4>3. open'[o].pc = "charged"
        BY <2>t, <4>1
      <4>4. {q \in Openers : Charged(q)}' = {q \in Openers : Charged(q)} \cup {o}
        BY <4>2, <4>3 DEF Charged
      <4>5. UnlockedByCharged'
        BY <4>1, <4>2, <4>4 DEF UnlockedByCharged
      <4>6. DrawsBounded'
        BY <4>2, <4>3 DEF DrawsBounded
      <4>7. IsFiniteSet(picked) /\ Cardinality(picked) <= MaxUnlocks
        BY <3>0, EconomyAssumption, FS_Subset DEF DrawsBounded
      <4>8. /\ {Cardinality(unlocked), Cardinality(picked), Cardinality(unlocked')} \subseteq Nat
            /\ Cardinality(unlocked') <= Cardinality(unlocked) + Cardinality(picked)
        BY <2>t, <4>1, <4>7, UnionBound
      <4>9. PaidFor'
        <5> HIDE DEF picked
        <5>1. Cardinality(unlocked') <= Cardinality(unlocked) + MaxUnlocks
          BY <4>7, <4>8, EconomyAssumption
        <5>2. Cardinality(unlocked) * LootKeysPerOpen <= used * MaxUnlocks
          BY DEF PaidFor
        <5> QED
          BY <2>t, <4>1, <4>8, <5>1, <5>2, Products, EconomyAssumption DEF PaidFor
      <4> QED
        BY <4>5, <4>6, <4>9
    <3>2. CASE ~EnoughKeys
      <4>1. /\ UNCHANGED <<unlocked, used>>
            /\ open' = [open EXCEPT ![o] = [pc |-> "failed", picked |-> {}]]
        BY <2>2, <3>2 DEF OpenCommit, OpenStep
      <4>2. /\ open'[o].pc = "failed"
            /\ \A q \in Openers \ {o} : open'[q] = open[q]
        BY <2>t, <4>1
      <4>3. \A q \in Openers : Charged(q)' = Charged(q) /\ (Charged(q) => open'[q] = open[q])
        BY <3>0, <4>2 DEF Charged
      <4>4. UnlockedByCharged'
        BY <4>1, <4>3 DEF UnlockedByCharged
      <4> QED
        BY <4>1, <4>2, <4>4 DEF DrawsBounded, PaidFor
    <3> QED
      BY <3>1, <3>2
  <2>3. CASE UNCHANGED <<open, unlocked, used>>
    BY <2>3 DEF DrawsBounded, UnlockedByCharged, Charged, PaidFor
  <2> QED
    BY <2>1, <2>2, <2>3, StepCases
    DEF vars, database, history, BuyUpsert, BuyCommit, BuyRollback, ShowRead, ShowWrite,
        HookReceive, HookEnd, HookApply
<1>3. Paid => UnlocksPaid
  BY DEF UnlocksPaid, UnlockedByCharged, Charged, PaidFor
<1> QED
  BY <1>1, <1>2, <1>3, EconomyTypeCorrect, PTL DEF Spec

(* Whatever was put into the ledgers or taken out of them is explained by  *)
(* a row that says what for, however deliveries and openings overlap.      *)
THEOREM EntriesExplainedAlways == Spec => []EntriesExplained
  BY AuditCompleteAlways, CreditedOnceAlways, UnlocksPaidAlways, PTL DEF EntriesExplained
-----------------------------------------------------------------------------
(* The records of tokens, for any number of requests that write them.      *)

TokenIds == {NoToken} \cup {Id(n) : n \in Nat} \cup {DemoToken(h) : h \in Holders}
Places   == {"idle", "done", "look", "look rows", "look ownership", "look pending", "submit",
             "demo", "wait", "count", "create membership", "write membership",
             "write ownership", "write token", "write ledger"}

RequestRow == [kind : Kinds, holder : Holders \cup {NoToken}, pc : Places, token : TokenIds,
               run : Nat]
RunRow     == [holder : Holders, by : Kinds, open : BOOLEAN, token : TokenIds]

\* A request under way has a holder, and is where its kind of handler comes.
Placed(x) ==
  /\ x.pc \notin {"idle", "done"} => x.holder \in Holders
  /\ x.pc \in {"look rows", "look ownership", "look pending", "demo", "write ledger"}
       => x.kind = "ensure"
  /\ x.pc = "wait" => x.run \in DOMAIN runs

RecordsTypeOK ==
  /\ demo \in BOOLEAN
  /\ membership \in [Holders -> TokenIds]
  /\ ownership \subseteq [brand : Brands, token : TokenIds, wallet : Wallets]
  /\ tokens \subseteq [token : TokenIds, holder : Holders]
  /\ legacyToken \in [Holders -> TokenIds]
  /\ runs \in Seq(RunRow)
  /\ req \in [Requests -> RequestRow]
  /\ \A q \in Requests : Placed(req[q])
  /\ joined \subseteq Holders
  /\ overlapped \subseteq Holders

(* Ids are told apart by their number, tokens for show by their holder.    *)
LEMMA TokensApart ==
  /\ NoToken \in TokenIds
  /\ \A n \in Nat : Id(n) \in TokenIds /\ Id(n) # NoToken
  /\ \A m, n \in Nat : Id(m) = Id(n) => m = n
  /\ \A h \in Holders : DemoToken(h) \in TokenIds /\ DemoToken(h) # NoToken
  /\ \A h, g \in Holders : DemoToken(h) = DemoToken(g) => h = g
<1>1. NoToken \in TokenIds
  BY DEF TokenIds
<1>2. \A n \in Nat : Id(n) \in TokenIds /\ Id(n) # NoToken
  BY DEF TokenIds, Id, NoToken
<1>3. \A m, n \in Nat : Id(m) = Id(n) => m = n
  BY DEF Id
<1>4. \A h \in Holders : DemoToken(h) \in TokenIds /\ DemoToken(h) # NoToken
  BY DEF TokenIds, DemoToken, NoToken
<1>5. \A h, g \in Holders : DemoToken(h) = DemoToken(g) => h = g
  BY DEF DemoToken
<1> QED
  BY <1>1, <1>2, <1>3, <1>4, <1>5

(* A holder is a brand and a wallet.                                       *)
LEMMA HoldersApart ==
  ASSUME NEW h \in Holders
  PROVE  /\ Brand(h) \in Brands /\ Wallet(h) \in Wallets
         /\ \A g \in Holders : Brand(g) = Brand(h) /\ Wallet(g) = Wallet(h) => g = h
BY DEF Holders, Brand, Wallet

(* A request goes to its next query, or ends.                              *)
Moved(q, pc, t, run) ==
  /\ req' \in [Requests -> RequestRow]
  /\ \A p \in Requests \ {q} : req'[p] = req[p]
  /\ req'[q].kind = req[q].kind /\ req'[q].holder = req[q].holder
  /\ req'[q].pc = pc /\ req'[q].token = t /\ req'[q].run = run

Over(q) ==
  /\ req' \in [Requests -> RequestRow]
  /\ \A p \in Requests \ {q} : req'[p] = req[p]
  /\ req'[q].pc = "done"

LEMMA RowsMove ==
  ASSUME RecordsTypeOK, NEW q \in Requests
  PROVE  /\ \A pc \in Places : Goto(q, pc) => Moved(q, pc, TokenOf(q), req[q].run)
         /\ \A pc \in Places : \A t \in TokenIds :
              GotoWith(q, pc, t) => Moved(q, pc, t, req[q].run)
         /\ End(q) => Over(q)
<1>t. req \in [Requests -> RequestRow] /\ req[q] \in RequestRow
  BY DEF RecordsTypeOK
<1>1. ASSUME NEW pc \in Places, Goto(q, pc)
      PROVE  Moved(q, pc, TokenOf(q), req[q].run)
  <2>1. PICK row : row = [req[q] EXCEPT !.pc = pc]
    OBVIOUS
  <2>2. row \in RequestRow /\ row.kind = req[q].kind /\ row.holder = req[q].holder
        /\ row.pc = pc /\ row.token = req[q].token /\ row.run = req[q].run
    BY <1>t, <2>1 DEF RequestRow
  <2>3. req' = [req EXCEPT ![q] = row]
    BY <1>1, <2>1 DEF Goto
  <2> QED
    BY <1>t, <2>2, <2>3 DEF Moved, TokenOf
<1>2. ASSUME NEW pc \in Places, NEW t \in TokenIds, GotoWith(q, pc, t)
      PROVE  Moved(q, pc, t, req[q].run)
  <2>1. PICK row : row = [req[q] EXCEPT !.pc = pc, !.token = t]
    OBVIOUS
  <2>2. row \in RequestRow /\ row.kind = req[q].kind /\ row.holder = req[q].holder
        /\ row.pc = pc /\ row.token = t /\ row.run = req[q].run
    BY <1>t, <2>1 DEF RequestRow
  <2>3. req' = [req EXCEPT ![q] = row]
    BY <1>2, <2>1 DEF GotoWith
  <2> QED
    BY <1>t, <2>2, <2>3 DEF Moved
<1>3. ASSUME End(q)
      PROVE  Over(q)
  <2>1. PICK row : row = [Unused EXCEPT !.pc = "done"]
    OBVIOUS
  <2>2. row \in RequestRow /\ row.pc = "done"
    BY <2>1, TokensApart DEF Unused, RequestRow, Kinds, Places
  <2>3. req' = [req EXCEPT ![q] = row]
    BY <1>3, <2>1 DEF End
  <2> QED
    BY <1>t, <2>2, <2>3 DEF Over
<1> QED
  BY <1>1, <1>2, <1>3

(* The mints of a contract can be counted.                                 *)
LEMMA RunsCounted ==
  ASSUME RecordsTypeOK
  PROVE  /\ DOMAIN runs = 1..Len(runs) /\ Len(runs) \in Nat
         /\ \A r \in DOMAIN runs : runs[r] \in RunRow
         /\ \A S \in SUBSET DOMAIN runs : IsFiniteSet(S) /\ Cardinality(S) \in Nat
         /\ \A b : MintedAt(b) \in Nat
<1>1. DOMAIN runs = 1..Len(runs) /\ Len(runs) \in Nat /\ \A r \in DOMAIN runs : runs[r] \in RunRow
  BY DEF RecordsTypeOK
<1>2. IsFiniteSet(DOMAIN runs)
  BY <1>1, FS_Interval
<1>3. \A S \in SUBSET DOMAIN runs : IsFiniteSet(S) /\ Cardinality(S) \in Nat
  BY <1>2, FS_Subset, FS_CardinalityType
<1>4. \A b : MintedAt(b) \in Nat
  <2> TAKE b
  <2> DEFINE S == {r \in DOMAIN runs : runs[r].token # NoToken
                                       /\ (Shared \/ Brand(runs[r].holder) = b)}
  <2>1. Cardinality(S) \in Nat
    BY <1>3
  <2> QED
    BY <2>1 DEF MintedAt
<1> QED
  BY <1>1, <1>3, <1>4

(* The holders can be counted.                                             *)
LEMMA HoldersFinite ==
  \A S \in SUBSET Holders : IsFiniteSet(S) /\ Cardinality(S) \in Nat
<1>1. IsFiniteSet(Holders)
  BY RecordsAssumption, FS_Product DEF Holders
<1> QED
  BY <1>1, FS_Subset, FS_CardinalityType

(* The steps of the handlers, by what they do to their request: it starts, *)
(* looks, submits a mint, gets its receipt, writes a table, or ends.       *)
Starts(q) ==
  /\ req' \in [Requests -> RequestRow]
  /\ \A p \in Requests \ {q} : req'[p] = req[p]
  /\ req'[q].holder \in Holders
  /\ req'[q].pc = "look" \/ (req'[q].pc = "submit" /\ req'[q].kind = "join")

Writes == {"create membership", "write membership", "write ownership", "write token",
           "write ledger"}

\* What a request finds in the membership.
Finds(q) ==
  /\ req[q].pc = "look rows" \/ (req[q].pc = "look" /\ req[q].kind \in {"resolve", "action"})
  /\ membership[req[q].holder] # NoToken
  /\ \/ req[q].kind = "ensure" /\ Moved(q, "write membership", membership[req[q].holder], req[q].run)
     \/ req[q].kind = "action" /\ Moved(q, "write ownership", membership[req[q].holder], req[q].run)
     \/ req[q].kind = "resolve" /\ Moved(q, "write token", membership[req[q].holder], req[q].run)

Looks(q) ==
  \/ /\ req[q].pc = "look" /\ req[q].kind = "ensure"
     /\ Moved(q, "look rows", TokenOf(q), req[q].run)
  \/ /\ req[q].pc = "look rows" /\ req[q].kind = "ensure"
     /\ Moved(q, "look ownership", TokenOf(q), req[q].run)
  \/ /\ req[q].pc \in {"look", "look rows"} /\ req[q].kind # "ensure"
     /\ Moved(q, "submit", TokenOf(q), req[q].run)
  \/ /\ req[q].pc = "look ownership"
     /\ Moved(q, "look pending", TokenOf(q), req[q].run)
  \/ Finds(q)
  \/ /\ req[q].pc = "look ownership"
     /\ \E t \in OwnedBy(req[q].holder) : Moved(q, "write membership", t, req[q].run)
  \/ /\ req[q].pc = "look pending"
     /\ Pending(req[q].holder) = {}
     /\ demo => Moved(q, "demo", TokenOf(q), req[q].run)
     /\ ~demo => Moved(q, "submit", TokenOf(q), req[q].run)

Answered(q) ==
  \/ /\ req[q].pc = "wait" /\ runs[req[q].run].token # NoToken
     /\ req[q].kind = "resolve"
     /\ Moved(q, "create membership", runs[req[q].run].token, 0)
  \/ /\ req[q].pc = "wait" /\ runs[req[q].run].token # NoToken
     /\ req[q].kind # "resolve"
     /\ Moved(q, "write membership", runs[req[q].run].token, 0)
  \/ /\ req[q].pc = "count"
     /\ \E n \in Nat : Moved(q, "create membership", Id(n), req[q].run)

Submits(q) ==
  /\ NewRun(q)
  /\ \/ /\ req[q].pc = "demo"
        /\ Moved(q, "write membership", DemoToken(req[q].holder), req[q].run)
     \/ req[q].pc = "submit" /\ req[q].kind = "ensure" /\ Over(q)
     \/ req[q].pc = "submit" /\ req[q].kind = "join" /\ Moved(q, "count", TokenOf(q), 0)
     \/ /\ req[q].pc = "submit" /\ req[q].kind \in {"resolve", "action"}
        /\ Moved(q, "wait", TokenOf(q), Len(runs) + 1)
  /\ KeepTables /\ UNCHANGED <<demo, joined>>

LEMMA HandlerSteps ==
  ASSUME RecordsTypeOK, NEW q \in Requests, Handle(q)
  PROVE  \/ (Starts(q) \/ Looks(q) \/ Answered(q) \/ Over(q)) /\ Local
         \/ Submits(q)
         \/ CreateMembership(q) /\ Moved(q, "write token", TokenOf(q), req[q].run)
         \/ UpsertMembership(q) /\ Moved(q, "write ownership", TokenOf(q), req[q].run)
         \/ UpsertOwnership(q) /\ Moved(q, "write token", TokenOf(q), req[q].run)
         \/ /\ UpsertToken(q)
            /\ \/ req[q].kind = "ensure" /\ Moved(q, "write ledger", TokenOf(q), req[q].run)
               \/ req[q].kind # "ensure" /\ Over(q)
         \/ UpsertLedger(q) /\ Over(q)
<1> DEFINE Goal ==
         \/ (Starts(q) \/ Looks(q) \/ Answered(q) \/ Over(q)) /\ Local
         \/ Submits(q)
         \/ CreateMembership(q) /\ Moved(q, "write token", TokenOf(q), req[q].run)
         \/ UpsertMembership(q) /\ Moved(q, "write ownership", TokenOf(q), req[q].run)
         \/ UpsertOwnership(q) /\ Moved(q, "write token", TokenOf(q), req[q].run)
         \/ /\ UpsertToken(q)
            /\ \/ req[q].kind = "ensure" /\ Moved(q, "write ledger", TokenOf(q), req[q].run)
               \/ req[q].kind # "ensure" /\ Over(q)
         \/ UpsertLedger(q) /\ Over(q)
<1>t. req \in [Requests -> RequestRow] /\ req[q] \in RequestRow
  BY DEF RecordsTypeOK
<1>k. req[q].kind \in Kinds /\ req[q].run \in Nat /\ TokenOf(q) \in TokenIds
  BY <1>t DEF RequestRow, TokenOf
<1>h. Placed(req[q])
  BY DEF RecordsTypeOK
<1>g. \A pc \in Places : Goto(q, pc) => Moved(q, pc, TokenOf(q), req[q].run)
  BY RowsMove
<1>w. \A pc \in Places : \A t \in TokenIds : GotoWith(q, pc, t) => Moved(q, pc, t, req[q].run)
  BY RowsMove
<1>e. End(q) => Over(q)
  BY RowsMove
<1>p. {"look rows", "look ownership", "look pending", "submit", "demo", "wait", "count",
       "create membership", "write membership", "write ownership", "write token",
       "write ledger"} \subseteq Places
  BY DEF Places
<1>1. ASSUME Start(q)
      PROVE  Goal
  <2>1. PICK kind \in Kinds, h \in Holders :
          req' = [req EXCEPT ![q] =
                 [Unused EXCEPT !.kind = kind, !.holder = h,
                                !.pc = IF kind = "join" THEN "submit" ELSE "look"]]
    BY <1>1 DEF Start
  <2>2. PICK row : row = [Unused EXCEPT !.kind = kind, !.holder = h,
                                !.pc = IF kind = "join" THEN "submit" ELSE "look"]
    OBVIOUS
  <2>3. row \in RequestRow
    BY <2>2, TokensApart DEF Unused, RequestRow, Places
  <2>4. row.holder = h /\ (row.pc = "look" \/ (row.pc = "submit" /\ row.kind = "join"))
    BY <2>2 DEF Unused
  <2>5. req' = [req EXCEPT ![q] = row]
    BY <2>1, <2>2
  <2>6. Starts(q)
    BY <1>t, <2>3, <2>4, <2>5 DEF Starts
  <2> QED
    BY <1>1, <2>6 DEF Start
<1>2. ASSUME LookLedger(q)
      PROVE  Goal
  <2>1. req[q].pc = "look" /\ req[q].kind = "ensure" /\ Local
    BY <1>2 DEF LookLedger, At, Is
  <2>2. CASE End(q)
    BY <1>e, <2>1, <2>2
  <2>3. CASE Goto(q, "look rows")
    <3>1. Moved(q, "look rows", TokenOf(q), req[q].run)
      BY <1>g, <1>p, <2>3
    <3> QED
      BY <2>1, <3>1 DEF Looks
  <2> QED
    BY <1>2, <2>2, <2>3 DEF LookLedger
<1>3. ASSUME LookMembership(q)
      PROVE  Goal
  <2>1. Local /\ (req[q].pc = "look rows" \/ (req[q].pc = "look" /\ req[q].kind \in {"resolve", "action"}))
    BY <1>3 DEF LookMembership, At, Is
  <2>2. req[q].holder \in Holders /\ membership[req[q].holder] \in TokenIds
    BY <1>h, <2>1 DEF RecordsTypeOK, Placed
  <2>3. CASE membership[req[q].holder] = NoToken /\ req[q].kind = "ensure"
    <3>1. Goto(q, "look ownership")
      BY <1>3, <2>3 DEF LookMembership, HolderOf, Is
    <3>2. Moved(q, "look ownership", TokenOf(q), req[q].run)
      BY <1>g, <1>p, <3>1
    <3> QED
      BY <2>1, <2>3, <3>2 DEF Looks
  <2>4. CASE membership[req[q].holder] = NoToken /\ req[q].kind # "ensure"
    <3>1. Goto(q, "submit")
      BY <1>3, <2>4 DEF LookMembership, HolderOf, Is
    <3>2. Moved(q, "submit", TokenOf(q), req[q].run)
      BY <1>g, <1>p, <3>1
    <3> QED
      BY <2>1, <2>4, <3>2 DEF Looks
  <2>5. CASE membership[req[q].holder] # NoToken
    <3>1. GotoWith(q, CASE Is(q, {"ensure"})  -> "write membership"
                        [] Is(q, {"action"})  -> "write ownership"
                        [] Is(q, {"resolve"}) -> "write token", membership[req[q].holder])
      BY <1>3, <2>5 DEF LookMembership, HolderOf
    <3>2. CASE req[q].kind = "ensure"
      <4>1. GotoWith(q, "write membership", membership[req[q].holder])
        BY <3>1, <3>2 DEF Is
      <4>2. Moved(q, "write membership", membership[req[q].holder], req[q].run)
        BY <1>w, <1>p, <2>2, <4>1
      <4> QED
        BY <2>1, <2>5, <3>2, <4>2 DEF Looks, Finds
    <3>3. CASE req[q].kind = "action"
      <4>1. GotoWith(q, "write ownership", membership[req[q].holder])
        BY <3>1, <3>3 DEF Is
      <4>2. Moved(q, "write ownership", membership[req[q].holder], req[q].run)
        BY <1>w, <1>p, <2>2, <4>1
      <4> QED
        BY <2>1, <2>5, <3>3, <4>2 DEF Looks, Finds
    <3>4. CASE req[q].kind = "resolve"
      <4>1. GotoWith(q, "write token", membership[req[q].holder])
        BY <3>1, <3>4 DEF Is
      <4>2. Moved(q, "write token", membership[req[q].holder], req[q].run)
        BY <1>w, <1>p, <2>2, <4>1
      <4> QED
        BY <2>1, <2>5, <3>4, <4>2 DEF Looks, Finds
    <3>5. req[q].kind # "join"
      BY <1>h, <2>1 DEF Placed
    <3> QED
      BY <1>k, <3>2, <3>3, <3>4, <3>5 DEF Kinds
  <2> QED
    BY <2>3, <2>4, <2>5
<1>4. ASSUME LookOwnership(q)
      PROVE  Goal
  <2>1. Local /\ req[q].pc = "look ownership"
    BY <1>4 DEF LookOwnership, At
  <2>2. CASE Goto(q, "look pending")
    <3>1. Moved(q, "look pending", TokenOf(q), req[q].run)
      BY <1>g, <1>p, <2>2
    <3> QED
      BY <2>1, <3>1 DEF Looks
  <2>3. ASSUME NEW t \in OwnedBy(req[q].holder), GotoWith(q, "write membership", t)
        PROVE  Goal
    <3>1. t \in TokenIds
      BY DEF OwnedBy, RecordsTypeOK
    <3>2. Moved(q, "write membership", t, req[q].run)
      BY <1>w, <1>p, <2>3, <3>1
    <3> QED
      BY <2>1, <3>2 DEF Looks
  <2> QED
    BY <1>4, <2>2, <2>3 DEF LookOwnership, HolderOf
<1>5. ASSUME LookPending(q)
      PROVE  Goal
  <2>1. Local /\ req[q].pc = "look pending"
    BY <1>5 DEF LookPending, At
  <2>2. CASE Pending(req[q].holder) # {}
    <3>1. Over(q)
      BY <1>5, <1>e, <2>2 DEF LookPending, HolderOf
    <3> QED
      BY <2>1, <3>1
  <2>3. CASE Pending(req[q].holder) = {}
    <3>1. Goto(q, IF demo THEN "demo" ELSE "submit")
      BY <1>5, <2>3 DEF LookPending, HolderOf
    <3>2. demo => Moved(q, "demo", TokenOf(q), req[q].run)
      BY <1>g, <1>p, <3>1
    <3>3. ~demo => Moved(q, "submit", TokenOf(q), req[q].run)
      BY <1>g, <1>p, <3>1
    <3> QED
      BY <2>1, <2>3, <3>2, <3>3 DEF Looks
  <2> QED
    BY <2>2, <2>3
<1>6. ASSUME DemoRun(q)
      PROVE  Goal
  <2>1. req[q].pc = "demo" /\ NewRun(q) /\ KeepTables /\ UNCHANGED <<demo, joined>>
    BY <1>6 DEF DemoRun, At
  <2>2. DemoToken(req[q].holder) \in TokenIds
    BY <1>h, <2>1, TokensApart DEF Placed
  <2>3. GotoWith(q, "write membership", DemoToken(req[q].holder))
    BY <1>6 DEF DemoRun, HolderOf
  <2>4. Moved(q, "write membership", DemoToken(req[q].holder), req[q].run)
    BY <1>w, <1>p, <2>2, <2>3
  <2> QED
    BY <2>1, <2>4 DEF Submits
<1>7. ASSUME SubmitMint(q)
      PROVE  Goal
  <2>1. req[q].pc = "submit" /\ NewRun(q) /\ KeepTables /\ UNCHANGED <<demo, joined>>
    BY <1>7 DEF SubmitMint, At
  <2>2. CASE req[q].kind = "ensure"
    <3>1. Over(q)
      BY <1>7, <1>e, <2>2 DEF SubmitMint, Is
    <3> QED
      BY <2>1, <2>2, <3>1 DEF Submits
  <2>3. CASE req[q].kind = "join"
    <3>1. req' = [req EXCEPT ![q].run = 0, ![q].pc = "count"]
      BY <1>7, <2>3 DEF SubmitMint, Is
    <3>2. PICK row : row = [req[q] EXCEPT !.run = 0, !.pc = "count"]
      OBVIOUS
    <3>3. row \in RequestRow /\ row.kind = req[q].kind /\ row.holder = req[q].holder
          /\ row.pc = "count" /\ row.token = req[q].token /\ row.run = 0
      BY <1>t, <1>p, <3>2 DEF RequestRow
    <3>4. req' = [req EXCEPT ![q] = row]
      BY <1>t, <3>1, <3>2
    <3>5. Moved(q, "count", TokenOf(q), 0)
      BY <1>t, <3>3, <3>4 DEF Moved, TokenOf
    <3> QED
      BY <2>1, <2>3, <3>5 DEF Submits
  <2>4. CASE req[q].kind \in {"resolve", "action"}
    <3>1. req' = [req EXCEPT ![q].run = Len(runs) + 1, ![q].pc = "wait"]
      BY <1>7, <2>4 DEF SubmitMint, Is
    <3>2. PICK row : row = [req[q] EXCEPT !.run = Len(runs) + 1, !.pc = "wait"]
      OBVIOUS
    <3>3. Len(runs) + 1 \in Nat
      BY RunsCounted
    <3>4. row \in RequestRow /\ row.kind = req[q].kind /\ row.holder = req[q].holder
          /\ row.pc = "wait" /\ row.token = req[q].token /\ row.run = Len(runs) + 1
      BY <1>t, <1>p, <3>2, <3>3 DEF RequestRow
    <3>5. req' = [req EXCEPT ![q] = row]
      BY <1>t, <3>1, <3>2
    <3>6. Moved(q, "wait", TokenOf(q), Len(runs) + 1)
      BY <1>t, <3>4, <3>5 DEF Moved, TokenOf
    <3> QED
      BY <2>1, <2>4, <3>6 DEF Submits
  <2> QED
    BY <1>k, <2>2, <2>3, <2>4 DEF Kinds
<1>8. ASSUME Receipt(q)
      PROVE  Goal
  <2>1. Local /\ req[q].pc = "wait" /\ runs[req[q].run].token # NoToken
    BY <1>8 DEF Receipt, At
  <2>2. req[q].run \in DOMAIN runs
    BY <1>h, <2>1 DEF Placed
  <2>3. runs[req[q].run].token \in TokenIds
    BY <2>2, RunsCounted DEF RunRow
  <2>4. PICK pc : pc = IF req[q].kind = "resolve" THEN "create membership" ELSE "write membership"
    OBVIOUS
  <2>5. PICK row : row = [req[q] EXCEPT !.pc = pc, !.token = runs[req[q].run].token, !.run = 0]
    OBVIOUS
  <2>6. req' = [req EXCEPT ![q].pc = pc, ![q].token = runs[req[q].run].token, ![q].run = 0]
    BY <1>8, <2>4 DEF Receipt, Is
  <2>7. pc \in Places
    BY <1>p, <2>4
  <2>8. row \in RequestRow /\ row.kind = req[q].kind /\ row.holder = req[q].holder
        /\ row.pc = pc /\ row.token = runs[req[q].run].token /\ row.run = 0
    BY <1>t, <2>3, <2>5, <2>7 DEF RequestRow
  <2>9. req' = [req EXCEPT ![q] = row]
    BY <1>t, <2>5, <2>6
  <2>10. Moved(q, pc, runs[req[q].run].token, 0)
    BY <1>t, <2>8, <2>9 DEF Moved
  <2> QED
    BY <2>1, <2>4, <2>10 DEF Answered
<1>9. ASSUME JoinCount(q)
      PROVE  Goal
  <2> DEFINE members == {h \in Holders : Brand(h) = Brand(HolderOf(q)) /\ membership[h] # NoToken}
  <2>1. Local /\ req[q].pc = "count"
    BY <1>9 DEF JoinCount, At
  <2>2. PICK n : n = Cardinality(members) + 1
    OBVIOUS
  <2>3. Cardinality(members) \in Nat
    BY HoldersFinite
  <2>4. n \in Nat /\ Id(n) \in TokenIds
    BY <2>2, <2>3, TokensApart
  <2>5. GotoWith(q, "create membership", Id(n))
    BY <1>9, <2>2 DEF JoinCount
  <2>6. Moved(q, "create membership", Id(n), req[q].run)
    BY <1>w, <1>p, <2>4, <2>5
  <2> QED
    BY <2>1, <2>4, <2>6 DEF Answered
<1>10. ASSUME CreateMembership(q)
       PROVE  Goal
  <2>1. Moved(q, "write token", TokenOf(q), req[q].run)
    BY <1>g, <1>p, <1>10 DEF CreateMembership
  <2> QED
    BY <1>10, <2>1
<1>11. ASSUME UpsertMembership(q)
       PROVE  Goal
  <2>1. Moved(q, "write ownership", TokenOf(q), req[q].run)
    BY <1>g, <1>p, <1>11 DEF UpsertMembership
  <2> QED
    BY <1>11, <2>1
<1>12. ASSUME UpsertOwnership(q)
       PROVE  Goal
  <2>1. Moved(q, "write token", TokenOf(q), req[q].run)
    BY <1>g, <1>p, <1>12 DEF UpsertOwnership
  <2> QED
    BY <1>12, <2>1
<1>13. ASSUME UpsertToken(q)
       PROVE  Goal
  <2>1. IF req[q].kind = "ensure" THEN Goto(q, "write ledger") ELSE End(q)
    BY <1>13 DEF UpsertToken, Is
  <2>2. req[q].kind = "ensure" => Moved(q, "write ledger", TokenOf(q), req[q].run)
    BY <1>g, <1>p, <2>1
  <2> QED
    BY <1>13, <1>e, <2>1, <2>2
<1>14. ASSUME UpsertLedger(q)
       PROVE  Goal
  <2>1. Over(q)
    BY <1>e, <1>14 DEF UpsertLedger
  <2> QED
    BY <1>14, <2>1
<1>15. ASSUME GiveUp(q)
       PROVE  Goal
  BY <1>15, <1>e DEF GiveUp
<1> HIDE DEF Goal
<1>q. Goal
  BY <1>1, <1>2, <1>3, <1>4, <1>5, <1>6, <1>7, <1>8, <1>9, <1>10, <1>11, <1>12, <1>13, <1>14,
     <1>15 DEF Handle
<1> QED
  BY <1>q DEF Goal

(* What a submission, a block and a settlement do to the runs.             *)
LEMMA NewRunAdds ==
  ASSUME RecordsTypeOK, NEW q \in Requests, req[q].holder \in Holders, NewRun(q)
  PROVE  /\ runs' \in Seq(RunRow)
         /\ DOMAIN runs' = DOMAIN runs \cup {Len(runs) + 1}
         /\ Len(runs) + 1 \notin DOMAIN runs
         /\ \A r \in DOMAIN runs : runs'[r] = runs[r]
         /\ runs'[Len(runs) + 1].holder = req[q].holder
         /\ runs'[Len(runs) + 1].by = req[q].kind
         /\ runs'[Len(runs) + 1].token = NoToken
         /\ overlapped \subseteq overlapped' /\ overlapped' \subseteq Holders
         /\ req[q].holder \in overlapped' \/ Deciding(req[q].holder) \subseteq {q}
<1>1. PICK row : row = [holder |-> req[q].holder, by |-> req[q].kind, open |-> TRUE, token |-> NoToken]
  OBVIOUS
<1>2. req[q] \in RequestRow
  BY DEF RecordsTypeOK
<1>3. row \in RunRow /\ row.holder = req[q].holder /\ row.by = req[q].kind /\ row.token = NoToken
  BY <1>1, <1>2, TokensApart DEF RunRow, RequestRow
<1>4. runs' = Append(runs, row)
  BY <1>1 DEF NewRun, HolderOf
<1>5. runs \in Seq(RunRow) /\ overlapped \subseteq Holders
  BY DEF RecordsTypeOK
<1>6. /\ runs' \in Seq(RunRow)
      /\ DOMAIN runs' = DOMAIN runs \cup {Len(runs) + 1}
      /\ Len(runs) + 1 \notin DOMAIN runs
      /\ \A r \in DOMAIN runs : runs'[r] = runs[r]
      /\ runs'[Len(runs) + 1] = row
  BY <1>3, <1>4, <1>5
<1>7. /\ overlapped \subseteq overlapped' /\ overlapped' \subseteq Holders
      /\ req[q].holder \in overlapped' \/ Deciding(req[q].holder) \subseteq {q}
  BY <1>5 DEF NewRun, HolderOf
<1> QED
  BY <1>3, <1>6, <1>7

RunsAs(r) ==
  /\ runs' \in Seq(RunRow)
  /\ DOMAIN runs' = DOMAIN runs
  /\ \A s \in DOMAIN runs \ {r} : runs'[s] = runs[s]
  /\ runs'[r].holder = runs[r].holder /\ runs'[r].by = runs[r].by

LEMMA ChainSteps ==
  ASSUME RecordsTypeOK, NEW r \in DOMAIN runs, Mine(r) \/ Settle(r)
  PROVE  /\ KeepTables /\ UNCHANGED <<demo, req, joined, overlapped>>
         /\ RunsAs(r) /\ ~demo
         /\ \/ /\ runs[r].token = NoToken
               /\ runs'[r].token = Id(MintedAt(Brand(runs[r].holder)) + 1)
               /\ runs'[r].open = runs[r].open
            \/ runs'[r].token = runs[r].token /\ ~runs'[r].open
<1>1. runs \in Seq(RunRow) /\ runs[r] \in RunRow
  BY RunsCounted DEF RecordsTypeOK
<1>2. CASE Mine(r)
  <2>1. PICK n : n = MintedAt(Brand(runs[r].holder)) + 1
    OBVIOUS
  <2>2. n \in Nat
    BY <2>1, RunsCounted
  <2>3. PICK row : row = [runs[r] EXCEPT !.token = Id(n)]
    OBVIOUS
  <2>4. Id(n) \in TokenIds
    BY <2>2, TokensApart
  <2>5. row \in RunRow /\ row.holder = runs[r].holder /\ row.by = runs[r].by
        /\ row.token = Id(n) /\ row.open = runs[r].open
    BY <1>1, <2>3, <2>4 DEF RunRow
  <2>6. runs' = [runs EXCEPT ![r] = row]
    BY <1>2, <2>1, <2>3 DEF Mine
  <2>7. RunsAs(r) /\ runs'[r] = row
    BY <1>1, <2>5, <2>6 DEF RunsAs
  <2> QED
    BY <1>2, <2>1, <2>5, <2>7 DEF Mine
<1>3. CASE Settle(r)
  <2>3. PICK row : row = [runs[r] EXCEPT !.open = FALSE]
    OBVIOUS
  <2>5. row \in RunRow /\ row.holder = runs[r].holder /\ row.by = runs[r].by
        /\ row.token = runs[r].token /\ ~row.open
    BY <1>1, <2>3 DEF RunRow
  <2>6. runs' = [runs EXCEPT ![r] = row]
    BY <1>3, <2>3 DEF Settle
  <2>7. RunsAs(r) /\ runs'[r] = row
    BY <1>1, <2>5, <2>6 DEF RunsAs
  <2> QED
    BY <1>3, <2>5, <2>7 DEF Settle
<1> QED
  BY <1>2, <1>3

(* A row that is well placed stays so while the runs only grow.            *)
LEMMA StaysPlaced ==
  ASSUME NEW x, Placed(x), DOMAIN runs \subseteq DOMAIN runs'
  PROVE  Placed(x)'
BY DEF Placed

(* The types of the records.                                               *)
THEOREM RecordsTypeCorrect == RecordsSpec => []RecordsTypeOK
<1>1. RecordsInit => RecordsTypeOK
  <2> SUFFICES ASSUME RecordsInit
               PROVE  RecordsTypeOK
    OBVIOUS
  <2>1. Unused \in RequestRow /\ Unused.pc = "idle"
    BY TokensApart DEF Unused, RequestRow, Kinds, Places
  <2>2. /\ req \in [Requests -> RequestRow]
        /\ \A q \in Requests : req[q].pc = "idle"
    BY <2>1 DEF RecordsInit
  <2>3. \A q \in Requests : Placed(req[q])
    BY <2>2 DEF Placed
  <2>4. membership \in [Holders -> TokenIds] /\ legacyToken \in [Holders -> TokenIds]
    BY TokensApart DEF RecordsInit
  <2>5. runs \in Seq(RunRow)
    BY DEF RecordsInit
  <2> QED
    BY <2>2, <2>3, <2>4, <2>5 DEF RecordsInit, RecordsTypeOK
<1>2. RecordsTypeOK /\ [RecordsNext]_recordsVars => RecordsTypeOK'
  <2> SUFFICES ASSUME RecordsTypeOK, [RecordsNext]_recordsVars
               PROVE  RecordsTypeOK'
    OBVIOUS
  <2> DEFINE TablesTyped == /\ membership \in [Holders -> TokenIds]
                            /\ ownership \subseteq [brand : Brands, token : TokenIds, wallet : Wallets]
                            /\ tokens \subseteq [token : TokenIds, holder : Holders]
                            /\ legacyToken \in [Holders -> TokenIds]
                            /\ joined \subseteq Holders
             RequestsTyped == /\ req \in [Requests -> RequestRow]
                              /\ \A q \in Requests : Placed(req[q])
             RunsTyped == demo \in BOOLEAN /\ runs \in Seq(RunRow) /\ overlapped \subseteq Holders
  <2>t. TablesTyped /\ RequestsTyped /\ RunsTyped
    BY DEF RecordsTypeOK
  <2>0. TablesTyped' /\ RequestsTyped' /\ RunsTyped' => RecordsTypeOK'
    BY DEF RecordsTypeOK
  <2>s. ASSUME req' \in [Requests -> RequestRow], NEW q \in Requests,
               \A p \in Requests \ {q} : req'[p] = req[p],
               DOMAIN runs \subseteq DOMAIN runs', Placed(req[q])'
        PROVE  RequestsTyped'
    <3>1. ASSUME NEW p \in Requests, p # q
          PROVE  Placed(req[p])'
      <4>1. PICK x : x = req[p]
        OBVIOUS
      <4>2. Placed(x)'
        BY <2>s, <2>t, <4>1, StaysPlaced
      <4>3. req'[p] = x
        BY <2>s, <3>1, <4>1
      <4> QED
        BY <4>2, <4>3 DEF Placed
    <3> QED
      BY <2>s, <3>1
  <2>1. ASSUME NEW q \in Requests, Starts(q) \/ Looks(q) \/ Answered(q) \/ Over(q), Local
        PROVE  RecordsTypeOK'
    <3>1. TablesTyped' /\ RunsTyped' /\ runs' = runs
      BY <2>1, <2>t DEF Local, KeepTables, KeepMints, tables
    <3>2. Placed(req[q])
      BY <2>t
    <3>3. Placed(req[q])'
      <4>1. CASE Starts(q)
        BY <4>1 DEF Starts, Placed
      <4>2. CASE Looks(q)
        BY <4>2, <3>2 DEF Looks, Finds, Moved, Placed
      <4>3. CASE Answered(q)
        BY <4>3, <3>2 DEF Answered, Moved, Placed
      <4>4. CASE Over(q)
        BY <4>4 DEF Over, Placed
      <4> QED
        BY <2>1, <4>1, <4>2, <4>3, <4>4
    <3>4. req' \in [Requests -> RequestRow] /\ \A p \in Requests \ {q} : req'[p] = req[p]
      BY <2>1 DEF Starts, Looks, Finds, Answered, Moved, Over
    <3> QED
      BY <2>0, <2>s, <3>1, <3>3, <3>4
  <2>2. ASSUME NEW q \in Requests, Submits(q)
        PROVE  RecordsTypeOK'
    <3>1. Placed(req[q])
      BY <2>t
    <3>2. req[q].holder \in Holders
      BY <2>2, <3>1 DEF Submits, Placed
    <3>3. RunsTyped' /\ DOMAIN runs' = DOMAIN runs \cup {Len(runs) + 1}
      BY <2>2, <2>t, <3>2, NewRunAdds DEF Submits
    <3>4. TablesTyped'
      BY <2>2, <2>t DEF Submits, KeepTables, tables
    <3>5. req' \in [Requests -> RequestRow] /\ \A p \in Requests \ {q} : req'[p] = req[p]
      BY <2>2 DEF Submits, Moved, Over
    <3>6. Placed(req[q])'
      BY <2>2, <3>2, <3>3 DEF Submits, Moved, Over, Placed
    <3> QED
      BY <2>0, <2>s, <3>3, <3>4, <3>5, <3>6
  <2>3. ASSUME NEW q \in Requests, NEW pc \in Writes, KeepMints,
               Moved(q, pc, TokenOf(q), req[q].run) \/ Over(q), req[q].holder \in Holders,
               pc = "write ledger" => req[q].kind = "ensure", TablesTyped'
        PROVE  RecordsTypeOK'
    <3>1. Placed(req[q])
      BY <2>t
    <3>2. RunsTyped' /\ runs' = runs
      BY <2>3, <2>t DEF KeepMints
    <3>3. req' \in [Requests -> RequestRow] /\ \A p \in Requests \ {q} : req'[p] = req[p]
      BY <2>3 DEF Moved, Over
    <3>4. Placed(req[q])'
      BY <2>3, <3>2 DEF Moved, Over, Placed, Writes
    <3> QED
      BY <2>0, <2>s, <2>3, <3>2, <3>3, <3>4
  <2>w. ASSUME NEW q \in Requests, req[q].pc \in Writes
        PROVE  /\ req[q].holder \in Holders /\ TokenOf(q) \in TokenIds
               /\ Brand(req[q].holder) \in Brands /\ Wallet(req[q].holder) \in Wallets
    <3>1. req[q] \in RequestRow /\ Placed(req[q])
      BY <2>t
    <3>2. req[q].holder \in Holders
      BY <2>w, <3>1 DEF Placed, Writes
    <3> QED
      BY <3>1, <3>2, HoldersApart DEF RequestRow, TokenOf
  <2>4. ASSUME NEW q \in Requests, CreateMembership(q), Moved(q, "write token", TokenOf(q), req[q].run)
        PROVE  RecordsTypeOK'
    <3>1. req[q].pc \in Writes
      BY <2>4 DEF CreateMembership, At, Writes
    <3>2. TablesTyped'
      <4>1. joined' \subseteq Holders
        <5>1. req[q].holder \in Holders /\ joined \subseteq Holders
          BY <2>t, <2>w, <3>1
        <5>2. joined' = joined \cup {req[q].holder} \/ joined' = joined
          BY <2>4 DEF CreateMembership, HolderOf
        <5> QED
          BY <5>1, <5>2
      <4>2. membership' \in [Holders -> TokenIds]
        BY <2>4, <2>t, <2>w, <3>1 DEF CreateMembership, HolderOf
      <4> QED
        BY <2>4, <2>t, <4>1, <4>2 DEF CreateMembership
    <3> QED
      BY <2>4, <2>3, <2>w, <3>1, <3>2 DEF CreateMembership, Writes
  <2>5. ASSUME NEW q \in Requests, UpsertMembership(q), Moved(q, "write ownership", TokenOf(q), req[q].run)
        PROVE  RecordsTypeOK'
    <3>1. req[q].pc \in Writes
      BY <2>5 DEF UpsertMembership, At, Writes
    <3>2. TablesTyped'
      BY <2>5, <2>t, <2>w, <3>1 DEF UpsertMembership, HolderOf
    <3> QED
      BY <2>5, <2>3, <2>w, <3>1, <3>2 DEF UpsertMembership, Writes
  <2>6. ASSUME NEW q \in Requests, UpsertOwnership(q), Moved(q, "write token", TokenOf(q), req[q].run)
        PROVE  RecordsTypeOK'
    <3>1. req[q].pc \in Writes
      BY <2>6 DEF UpsertOwnership, At, Writes
    <3>2. TablesTyped'
      <4>1. PICK new : new = [brand |-> Brand(req[q].holder), token |-> TokenOf(q),
                              wallet |-> Wallet(req[q].holder)]
        OBVIOUS
      <4>2. new \in [brand : Brands, token : TokenIds, wallet : Wallets]
        BY <2>w, <3>1, <4>1
      <4>3. ownership' \subseteq ownership \cup {new}
        BY <2>6, <4>1 DEF UpsertOwnership, HolderOf, OwnershipWith
      <4> QED
        BY <2>6, <2>t, <4>2, <4>3 DEF UpsertOwnership
    <3> QED
      BY <2>6, <2>3, <2>w, <3>1, <3>2 DEF UpsertOwnership, Writes
  <2>7. ASSUME NEW q \in Requests, UpsertToken(q),
               \/ req[q].kind = "ensure" /\ Moved(q, "write ledger", TokenOf(q), req[q].run)
               \/ req[q].kind # "ensure" /\ Over(q)
        PROVE  RecordsTypeOK'
    <3>1. req[q].pc \in Writes
      BY <2>7 DEF UpsertToken, At, Writes
    <3>2. TablesTyped'
      <4>1. req[q].holder \in Holders /\ TokenOf(q) \in TokenIds
        BY <2>w, <3>1
      <4>2. tokens' \subseteq tokens \cup {[token |-> TokenOf(q), holder |-> req[q].holder]}
        BY <2>7 DEF UpsertToken, HolderOf, TokensWith
      <4>3. tokens' \subseteq [token : TokenIds, holder : Holders]
        BY <2>t, <4>1, <4>2
      <4> QED
        BY <2>7, <2>t, <4>3 DEF UpsertToken
    <3>3. KeepMints
      BY <2>7 DEF UpsertToken
    <3>4. CASE req[q].kind = "ensure"
      BY <2>7, <2>3, <2>w, <3>1, <3>2, <3>3, <3>4 DEF Writes
    <3>5. CASE req[q].kind # "ensure"
      <4>1. "write token" \in Writes
        BY DEF Writes
      <4> QED
        BY <2>7, <2>3, <2>w, <3>1, <3>2, <3>3, <3>5, <4>1
    <3> QED
      BY <3>4, <3>5
  <2>8. ASSUME NEW q \in Requests, UpsertLedger(q), Over(q)
        PROVE  RecordsTypeOK'
    <3>1. req[q].pc \in Writes /\ "write token" \in Writes
      BY <2>8 DEF UpsertLedger, At, Writes
    <3>2. TablesTyped'
      BY <2>8, <2>t, <2>w, <3>1 DEF UpsertLedger, HolderOf
    <3>3. KeepMints
      BY <2>8 DEF UpsertLedger
    <3> QED
      BY <2>8, <2>3, <2>w, <3>1, <3>2, <3>3
  <2>9. ASSUME NEW r \in DOMAIN runs, Mine(r) \/ Settle(r)
        PROVE  RecordsTypeOK'
    <3>1. /\ KeepTables /\ UNCHANGED <<demo, req, joined, overlapped>>
          /\ runs' \in Seq(RunRow) /\ DOMAIN runs' = DOMAIN runs
      BY <2>9, ChainSteps DEF RunsAs
    <3>2. TablesTyped' /\ RunsTyped'
      BY <2>t, <3>1 DEF KeepTables, tables
    <3>3. RequestsTyped'
      BY <2>t, <3>1 DEF Placed
    <3> QED
      BY <2>0, <3>2, <3>3
  <2>10. CASE UNCHANGED recordsVars
    BY <2>10 DEF recordsVars, tables, RecordsTypeOK, Placed
  <2> HIDE DEF TablesTyped, RequestsTyped, RunsTyped
  <2>11. ASSUME NEW q \in Requests, Handle(q)
         PROVE  RecordsTypeOK'
    BY <2>11, <2>1, <2>2, <2>4, <2>5, <2>6, <2>7, <2>8, HandlerSteps
  <2> QED
    BY <2>9, <2>10, <2>11 DEF RecordsNext
<1> QED
  BY <1>1, <1>2, PTL DEF RecordsSpec

(* What a request is about to write belongs to its holder: it was minted   *)
(* for it (or derived from it), or the holder joined.                      *)
Belongs(h, t) == h \in joined \/ Genuine(h, t)

\* What a request knows where it is.
Backed(x) ==
  /\ x.pc = "demo" => demo
  /\ x.pc = "count" => x.kind = "join"
  /\ x.pc = "create membership" => x.kind # "ensure"
  /\ x.pc = "wait" => runs[x.run].holder = x.holder
  /\ x.pc \in Writes => x.token # NoToken
  /\ x.pc \in Writes /\ ~(x.pc = "create membership" /\ x.kind = "join")
       => Belongs(x.holder, x.token)
  /\ x.pc \in {"write ownership", "write ledger"} => membership[x.holder] # NoToken
  /\ x.pc = "write token" /\ x.kind = "ensure" =>
       membership[x.holder] # NoToken /\ OwnershipKnown(Brand(x.holder), x.token)
  /\ x.pc = "write ledger" =>
       OwnershipKnown(Brand(x.holder), x.token) /\ TokenKnown(x.token)

AllBacked  == \A q \in Requests : Backed(req[q])
DemoUnmined == demo => \A r \in DOMAIN runs : runs[r].token = NoToken

\* What the tables say of a holder belongs to it.
MembershipsBelong == \A h \in Holders : membership[h] # NoToken => Belongs(h, membership[h])
LegacyBelongs     == \A h \in Holders : legacyToken[h] # NoToken => Belongs(h, legacyToken[h])
OwnedBelongs      == \A h \in Holders : \A t \in OwnedBy(h) : t # NoToken /\ Belongs(h, t)
MetadataBelongs   == \A r \in tokens : Belongs(r.holder, r.token)
RowsBelong        == MembershipsBelong /\ LegacyBelongs /\ OwnedBelongs /\ MetadataBelongs

RecordsInv == AllBacked /\ DemoUnmined /\ RowsBelong /\ LedgerLast /\ KeysUnique

(* What is known stays known: no table loses a token, no mint is undone.   *)
RunsKept == \A r \in DOMAIN runs : /\ r \in DOMAIN runs'
                                   /\ runs'[r].holder = runs[r].holder
                                   /\ runs[r].token # NoToken => runs'[r].token = runs[r].token

RowsKept ==
  /\ \A h \in Holders : membership[h] # NoToken => membership'[h] # NoToken
  /\ \A t : TokenKnown(t) => TokenKnown(t)'
  /\ \A b, t : OwnershipKnown(b, t) => OwnershipKnown(b, t)'

Grows ==
  /\ demo' = demo /\ joined \subseteq joined'
  /\ RunsKept
  /\ RowsKept

LEMMA RecordsGrow ==
  ASSUME RecordsTypeOK, AllBacked, [RecordsNext]_recordsVars
  PROVE  Grows
<1>k. KeepTables => RowsKept
  BY DEF KeepTables, tables, RowsKept, TokenKnown, OwnershipKnown
<1>r. runs' = runs => RunsKept
  BY DEF RunsKept
<1>w. ASSUME NEW q \in Requests, req[q].pc \in Writes
      PROVE  TokenOf(q) # NoToken
  BY <1>w DEF AllBacked, Backed, TokenOf
<1>m. membership \in [Holders -> TokenIds]
  BY DEF RecordsTypeOK
<1>1. ASSUME NEW q \in Requests, Local
      PROVE  Grows
  BY <1>1, <1>k, <1>r DEF Local, KeepMints, Grows
<1>2. ASSUME NEW q \in Requests, Submits(q)
      PROVE  Grows
  <2>1. req[q].holder \in Holders
    BY <1>2 DEF RecordsTypeOK, Placed, Submits
  <2>2. RunsKept
    BY <1>2, <2>1, NewRunAdds DEF Submits, RunsKept
  <2> QED
    BY <1>2, <1>k, <2>2 DEF Submits, Grows
<1>3. ASSUME NEW q \in Requests, CreateMembership(q) \/ UpsertMembership(q)
      PROVE  Grows
  <2>1. TokenOf(q) # NoToken
    BY <1>3, <1>w DEF CreateMembership, UpsertMembership, At, Writes
  <2>2. /\ membership' = [membership EXCEPT ![HolderOf(q)] = TokenOf(q)]
        /\ UNCHANGED <<ownership, tokens, demo, runs>> /\ joined \subseteq joined'
    BY <1>3 DEF CreateMembership, UpsertMembership, KeepMints
  <2>3. RowsKept
    BY <1>m, <2>1, <2>2 DEF RowsKept, TokenKnown, OwnershipKnown
  <2> QED
    BY <1>r, <2>2, <2>3 DEF Grows
<1>4. ASSUME NEW q \in Requests, UpsertOwnership(q)
      PROVE  Grows
  <2>1. /\ ownership' = OwnershipWith(HolderOf(q), TokenOf(q))
        /\ UNCHANGED <<membership, tokens, demo, runs, joined>>
    BY <1>4 DEF UpsertOwnership, KeepMints
  <2>2. \A b, t : OwnershipKnown(b, t) => OwnershipKnown(b, t)'
    <3> SUFFICES ASSUME NEW b, NEW t, NEW o \in ownership, o.brand = b, o.token = t
                 PROVE  \E p \in ownership' : p.brand = b /\ p.token = t
      BY DEF OwnershipKnown
    <3>1. CASE o.brand = Brand(HolderOf(q)) /\ o.token = TokenOf(q)
      <4>1. PICK new : new = [brand |-> Brand(HolderOf(q)), token |-> TokenOf(q),
                              wallet |-> Wallet(HolderOf(q))]
        OBVIOUS
      <4>2. new \in ownership'
        BY <2>1, <4>1 DEF OwnershipWith
      <4>3. new.brand = b /\ new.token = t
        BY <3>1, <4>1
      <4> QED
        BY <4>2, <4>3
    <3>2. CASE ~(o.brand = Brand(HolderOf(q)) /\ o.token = TokenOf(q))
      BY <2>1, <3>2 DEF OwnershipWith
    <3> QED
      BY <3>1, <3>2
  <2>3. RowsKept
    BY <2>1, <2>2 DEF RowsKept, TokenKnown
  <2> QED
    BY <1>r, <2>1, <2>3 DEF Grows
<1>5. ASSUME NEW q \in Requests, UpsertToken(q)
      PROVE  Grows
  <2>1. /\ tokens' = TokensWith(HolderOf(q), TokenOf(q))
        /\ UNCHANGED <<membership, ownership, demo, runs, joined>>
    BY <1>5 DEF UpsertToken, KeepMints
  <2>2. \A t : TokenKnown(t) => TokenKnown(t)'
    <3> SUFFICES ASSUME NEW t, NEW r \in tokens, r.token = t
                 PROVE  \E s \in tokens' : s.token = t
      BY DEF TokenKnown
    <3>1. PICK new : new = [token |-> TokenOf(q), holder |-> HolderOf(q)]
      OBVIOUS
    <3>2. new \in tokens' /\ new.token = TokenOf(q)
      BY <2>1, <3>1 DEF TokensWith
    <3>3. t # TokenOf(q) => r \in tokens'
      BY <2>1 DEF TokensWith
    <3> QED
      BY <3>2, <3>3
  <2>3. RowsKept
    BY <2>1, <2>2 DEF RowsKept, OwnershipKnown
  <2> QED
    BY <1>r, <2>1, <2>3 DEF Grows
<1>6. ASSUME NEW q \in Requests, UpsertLedger(q)
      PROVE  Grows
  <2>1. UNCHANGED <<membership, ownership, tokens, demo, runs, joined>>
    BY <1>6 DEF UpsertLedger, KeepMints
  <2> QED
    BY <2>1, <1>r DEF Grows, RowsKept, TokenKnown, OwnershipKnown
<1>7. ASSUME NEW r \in DOMAIN runs, Mine(r) \/ Settle(r)
      PROVE  Grows
  <2>1. RunsKept
    BY <1>7, ChainSteps DEF RunsAs, RunsKept
  <2> QED
    BY <1>7, <1>k, <2>1, ChainSteps DEF Grows
<1>8. CASE UNCHANGED recordsVars
  BY <1>8, <1>k, <1>r DEF recordsVars, KeepTables, Grows
<1>9. ASSUME NEW q \in Requests, Handle(q)
      PROVE  Grows
  BY <1>9, <1>1, <1>2, <1>3, <1>4, <1>5, <1>6, HandlerSteps
<1> QED
  BY <1>7, <1>8, <1>9 DEF RecordsNext

LEMMA BelongingStays ==
  ASSUME Grows, NEW h, NEW t, Belongs(h, t)
  PROVE  Belongs(h, t)'
<1>1. CASE h \in joined
  BY <1>1 DEF Grows, Belongs
<1>2. CASE Genuine(h, t)
  <2>1. CASE demo
    BY <1>2, <2>1 DEF Grows, Belongs, Genuine
  <2>2. CASE ~demo
    <3>1. t # NoToken
      BY <1>2, <2>2 DEF Genuine
    <3>2. PICK r \in DOMAIN runs : runs[r].holder = h /\ runs[r].token = t
      BY <1>2, <2>2 DEF Genuine
    <3>3. r \in DOMAIN runs' /\ runs'[r].holder = h /\ runs'[r].token = t
      BY <3>1, <3>2 DEF Grows, RunsKept
    <3> QED
      BY <2>2, <3>1, <3>3 DEF Grows, Belongs, Genuine
  <2> QED
    BY <2>1, <2>2
<1> QED
  BY <1>1, <1>2 DEF Belongs

LEMMA BackingStays ==
  ASSUME Grows, NEW x, Placed(x), Backed(x)
  PROVE  Backed(x)'
<1>1. Belongs(x.holder, x.token) => Belongs(x.holder, x.token)'
  BY BelongingStays
<1>2. x.pc \in Writes \cup {"wait"} => x.holder \in Holders
  BY DEF Placed, Writes
<1>3. /\ OwnershipKnown(Brand(x.holder), x.token) => OwnershipKnown(Brand(x.holder), x.token)'
      /\ TokenKnown(x.token) => TokenKnown(x.token)'
  BY DEF Grows, RowsKept
<1>4. x.pc \in Writes /\ membership[x.holder] # NoToken => membership'[x.holder] # NoToken
  BY <1>2 DEF Grows, RowsKept
<1>5. x.pc = "wait" => runs'[x.run].holder = x.holder
  BY DEF Grows, RunsKept, Placed, Backed
<1>6. demo' = demo
  BY DEF Grows
<1>7. {"write ownership", "write token", "write ledger"} \subseteq Writes
  BY DEF Writes
<1> QED
  BY <1>1, <1>3, <1>4, <1>5, <1>6, <1>7 DEF Backed

(* A request that takes its next step knows what it has to know there.     *)
LEMMA ActorBacked ==
  ASSUME RecordsTypeOK, RecordsInv, Grows, NEW q \in Requests, Handle(q)
  PROVE  Backed(req[q])'
<1>1. PICK x : x = req[q]
  OBVIOUS
<1>2. PICK y : y = req'[q]
  OBVIOUS
<1>3. Placed(x) /\ Backed(x)
  BY <1>1 DEF RecordsTypeOK, RecordsInv, AllBacked
<1>4. \A h, t : Belongs(h, t) => Belongs(h, t)'
  BY BelongingStays
<1>5. x.pc \notin {"idle", "done"} => x.holder \in Holders
  BY <1>3 DEF Placed
<1>m. ASSUME NEW pc, NEW t, NEW run, Moved(q, pc, t, run)
      PROVE  y.pc = pc /\ y.token = t /\ y.run = run /\ y.kind = x.kind /\ y.holder = x.holder
  BY <1>m, <1>1, <1>2 DEF Moved
<1>t. TokenOf(q) = x.token /\ HolderOf(q) = x.holder
  BY <1>1 DEF TokenOf, HolderOf
<1>6. ASSUME Over(q) \/ Starts(q)
      PROVE  Backed(y)'
  BY <1>2, <1>6 DEF Over, Starts, Backed, Writes
<1>7. ASSUME Looks(q), Local
      PROVE  Backed(y)'
  <2>0. membership' = membership
    BY <1>7 DEF Local, KeepTables, tables
  <2>d. demo' = demo
    BY DEF Grows
  <2>1. CASE Finds(q)
    <3>1. x.holder \in Holders /\ membership[x.holder] # NoToken
      BY <2>1, <1>1, <1>5 DEF Finds
    <3>2. Belongs(x.holder, membership[x.holder])
      BY <3>1 DEF RecordsInv, RowsBelong, MembershipsBelong, OwnedBelongs
    <3>3. PICK t : t = membership[x.holder]
      OBVIOUS
    <3>4. Belongs(x.holder, t)' /\ t # NoToken
      BY <1>4, <3>1, <3>2, <3>3
    <3>5. y.token = t /\ y.holder = x.holder /\ y.kind = x.kind
          /\ \/ x.kind = "ensure" /\ y.pc = "write membership"
             \/ x.kind = "action" /\ y.pc = "write ownership"
             \/ x.kind = "resolve" /\ y.pc = "write token"
      BY <2>1, <1>1, <1>m, <3>3 DEF Finds
    <3>6. membership'[x.holder] # NoToken
      BY <2>0, <3>1
    <3> QED
      BY <3>4, <3>5, <3>6 DEF Backed, Writes
  <2>2. ASSUME x.pc = "look ownership", NEW t \in OwnedBy(x.holder),
               Moved(q, "write membership", t, req[q].run)
        PROVE  Backed(y)'
    <3>1. x.holder \in Holders
      BY <2>2, <1>5
    <3>2. t # NoToken /\ Belongs(x.holder, t)
      BY <3>1 DEF RecordsInv, RowsBelong, MembershipsBelong, OwnedBelongs
    <3>3. Belongs(x.holder, t)'
      BY <1>4, <3>2
    <3>4. y.token = t /\ y.holder = x.holder /\ y.pc = "write membership"
      BY <1>m, <2>2
    <3> QED
      BY <3>2, <3>3, <3>4 DEF Backed, Writes
  <2>3. CASE Moved(q, "look rows", TokenOf(q), req[q].run)
             \/ Moved(q, "look ownership", TokenOf(q), req[q].run)
             \/ Moved(q, "submit", TokenOf(q), req[q].run)
             \/ Moved(q, "look pending", TokenOf(q), req[q].run)
    <3>1. y.pc \in {"look rows", "look ownership", "submit", "look pending"}
      BY <2>3, <1>m
    <3> QED
      BY <3>1 DEF Backed, Writes
  <2>4. CASE demo /\ Moved(q, "demo", TokenOf(q), req[q].run)
    <3>1. y.pc = "demo"
      BY <2>4, <1>m
    <3> QED
      BY <2>4, <2>d, <3>1 DEF Backed, Writes
  <2> QED
    BY <1>1, <1>7, <2>1, <2>2, <2>3, <2>4 DEF Looks
<1>8. ASSUME Answered(q)
      PROVE  Backed(y)'
  <2>1. ASSUME x.pc = "wait", runs[x.run].token # NoToken,
               \/ x.kind = "resolve" /\ Moved(q, "create membership", runs[x.run].token, 0)
               \/ x.kind # "resolve" /\ Moved(q, "write membership", runs[x.run].token, 0)
        PROVE  Backed(y)'
    <3>1. x.run \in DOMAIN runs /\ runs[x.run].holder = x.holder
      BY <1>3, <2>1 DEF Placed, Backed
    <3>2. ~demo
      BY <2>1, <3>1 DEF RecordsInv, DemoUnmined
    <3>3. PICK t : t = runs[x.run].token
      OBVIOUS
    <3>4. Belongs(x.holder, t) /\ t # NoToken
      BY <2>1, <3>1, <3>2, <3>3 DEF Belongs, Genuine
    <3>5. Belongs(x.holder, t)'
      BY <1>4, <3>4
    <3>6. y.token = t /\ y.holder = x.holder /\ y.kind = x.kind
          /\ \/ y.pc = "create membership" /\ x.kind = "resolve"
             \/ y.pc = "write membership"
      BY <1>m, <2>1, <3>3
    <3> QED
      BY <3>4, <3>5, <3>6 DEF Backed, Writes
  <2>2. ASSUME x.pc = "count", NEW n \in Nat, Moved(q, "create membership", Id(n), req[q].run)
        PROVE  Backed(y)'
    <3>1. x.kind = "join"
      BY <1>3, <2>2 DEF Backed
    <3>2. y.token = Id(n) /\ y.kind = x.kind /\ y.pc = "create membership"
      BY <1>m, <2>2
    <3>3. Id(n) # NoToken
      BY TokensApart
    <3> QED
      BY <3>1, <3>2, <3>3 DEF Backed, Writes
  <2> QED
    BY <1>1, <1>8, <2>1, <2>2 DEF Answered
<1>9. ASSUME Submits(q)
      PROVE  Backed(y)'
  <2>d. demo' = demo
    BY DEF Grows
  <2>1. x.holder \in Holders
    BY <1>1, <1>5, <1>9 DEF Submits
  <2>2. CASE x.pc = "demo" /\ Moved(q, "write membership", DemoToken(req[q].holder), req[q].run)
    <3>1. PICK t : t = DemoToken(x.holder)
      OBVIOUS
    <3>2. demo
      BY <1>3, <2>2 DEF Backed
    <3>3. Belongs(x.holder, t)'
      BY <3>1, <3>2, <2>d DEF Belongs, Genuine
    <3>4. t # NoToken
      BY <2>1, <3>1, TokensApart
    <3>5. y.token = t /\ y.holder = x.holder /\ y.pc = "write membership"
      BY <1>1, <1>m, <2>2, <3>1
    <3> QED
      BY <3>3, <3>4, <3>5 DEF Backed, Writes
  <2>3. CASE Over(q)
    BY <1>6, <2>3
  <2>4. CASE x.kind = "join" /\ Moved(q, "count", TokenOf(q), 0)
    <3>1. y.pc = "count" /\ y.kind = "join"
      BY <1>m, <2>4
    <3> QED
      BY <3>1 DEF Backed, Writes
  <2>5. CASE Moved(q, "wait", TokenOf(q), Len(runs) + 1)
    <3>1. y.pc = "wait" /\ y.run = Len(runs) + 1 /\ y.holder = x.holder
      BY <1>m, <2>5
    <3>2. runs'[Len(runs) + 1].holder = x.holder
      BY <1>1, <1>9, <2>1, NewRunAdds DEF Submits
    <3> QED
      BY <3>1, <3>2 DEF Backed, Writes
  <2> QED
    BY <1>1, <1>9, <2>2, <2>3, <2>4, <2>5 DEF Submits
<1>10. ASSUME CreateMembership(q), Moved(q, "write token", TokenOf(q), req[q].run)
       PROVE  Backed(y)'
  <2>1. x.pc = "create membership" /\ x.kind # "ensure"
    BY <1>1, <1>3, <1>10 DEF CreateMembership, At, Backed
  <2>2. y.pc = "write token" /\ y.kind = x.kind /\ y.holder = x.holder /\ y.token = x.token
    BY <1>m, <1>t, <1>10
  <2>3. x.token # NoToken
    BY <1>3, <2>1 DEF Backed, Writes
  <2>4. Belongs(x.holder, x.token)'
    <3>1. CASE x.kind = "join"
      <4>1. x.holder \in joined'
        BY <1>1, <1>10, <3>1 DEF CreateMembership, HolderOf, Is
      <4> QED
        BY <4>1 DEF Belongs
    <3>2. CASE x.kind # "join"
      BY <1>3, <1>4, <2>1, <3>2 DEF Backed, Writes
    <3> QED
      BY <3>1, <3>2
  <2> QED
    BY <2>1, <2>2, <2>3, <2>4 DEF Backed, Writes
<1>w. ASSUME x.pc \in {"write membership", "write ownership", "write token"}
      PROVE  /\ x.token # NoToken /\ Belongs(x.holder, x.token)'
             /\ x.holder \in Holders
  <2>1. x.token # NoToken /\ Belongs(x.holder, x.token)
    BY <1>3, <1>w DEF Backed, Writes
  <2> QED
    BY <1>4, <1>5, <1>w, <2>1
<1>11. ASSUME UpsertMembership(q), Moved(q, "write ownership", TokenOf(q), req[q].run)
       PROVE  Backed(y)'
  <2>1. x.pc = "write membership"
    BY <1>1, <1>11 DEF UpsertMembership, At
  <2>2. y.pc = "write ownership" /\ y.kind = x.kind /\ y.holder = x.holder /\ y.token = x.token
    BY <1>m, <1>t, <1>11
  <2>3. membership'[x.holder] = x.token
    <3>1. membership \in [Holders -> TokenIds]
      BY DEF RecordsTypeOK
    <3> QED
      BY <3>1, <1>t, <1>w, <1>11, <2>1 DEF UpsertMembership
  <2> QED
    BY <1>w, <2>1, <2>2, <2>3 DEF Backed, Writes
<1>12. ASSUME UpsertOwnership(q), Moved(q, "write token", TokenOf(q), req[q].run)
       PROVE  Backed(y)'
  <2>1. x.pc = "write ownership"
    BY <1>1, <1>12 DEF UpsertOwnership, At
  <2>2. y.pc = "write token" /\ y.kind = x.kind /\ y.holder = x.holder /\ y.token = x.token
    BY <1>m, <1>t, <1>12
  <2>3. membership[x.holder] # NoToken /\ membership' = membership
    BY <1>3, <1>12, <2>1 DEF Backed, UpsertOwnership
  <2>4. PICK new : new = [brand |-> Brand(x.holder), token |-> x.token, wallet |-> Wallet(x.holder)]
    OBVIOUS
  <2>5. new \in ownership'
    BY <1>t, <1>12, <2>4 DEF UpsertOwnership, OwnershipWith
  <2>6. OwnershipKnown(Brand(x.holder), x.token)'
    BY <2>4, <2>5 DEF OwnershipKnown
  <2> QED
    BY <1>w, <2>1, <2>2, <2>3, <2>6 DEF Backed, Writes
<1>13. ASSUME UpsertToken(q), x.kind = "ensure", Moved(q, "write ledger", TokenOf(q), req[q].run)
       PROVE  Backed(y)'
  <2>1. x.pc = "write token"
    BY <1>1, <1>13 DEF UpsertToken, At
  <2>2. y.pc = "write ledger" /\ y.kind = x.kind /\ y.holder = x.holder /\ y.token = x.token
    BY <1>m, <1>t, <1>13
  <2>3. membership[x.holder] # NoToken /\ OwnershipKnown(Brand(x.holder), x.token)
    BY <1>3, <1>13, <2>1 DEF Backed
  <2>4. membership' = membership
    BY <1>13 DEF UpsertToken
  <2>5. OwnershipKnown(Brand(x.holder), x.token)'
    BY <2>3 DEF Grows, RowsKept
  <2>6. PICK new : new = [token |-> x.token, holder |-> x.holder]
    OBVIOUS
  <2>7. new \in tokens'
    BY <1>t, <1>13, <2>6 DEF UpsertToken, TokensWith
  <2>8. TokenKnown(x.token)'
    BY <2>6, <2>7 DEF TokenKnown
  <2> QED
    BY <1>w, <2>1, <2>2, <2>3, <2>4, <2>5, <2>8 DEF Backed, Writes
<1>14. Backed(y)'
  BY <1>1, <1>6, <1>7, <1>8, <1>9, <1>10, <1>11, <1>12, <1>13, HandlerSteps
<1> QED
  BY <1>2, <1>14 DEF Backed, Belongs, Genuine, OwnershipKnown, TokenKnown

(* The step of a request that writes leaves the tables as they should be.  *)
LEMMA WriterKeepsRows ==
  ASSUME RecordsTypeOK, RecordsInv, Grows, NEW q \in Requests, Handle(q)
  PROVE  RowsBelong' /\ LedgerLast' /\ KeysUnique'
<1>h. PICK h : h = req[q].holder
  OBVIOUS
<1>u. PICK t : t = req[q].token
  OBVIOUS
<1>p. Placed(req[q]) /\ Backed(req[q])
  BY DEF RecordsTypeOK, RecordsInv, AllBacked
<1>t. TokenOf(q) = t /\ HolderOf(q) = h
  BY <1>h, <1>u DEF TokenOf, HolderOf
<1>4. \A g, u : Belongs(g, u) => Belongs(g, u)'
  BY BelongingStays
<1>w. ASSUME req[q].pc \in Writes
      PROVE  /\ h \in Holders /\ t # NoToken
             /\ ~(req[q].pc = "create membership" /\ req[q].kind = "join") => Belongs(h, t)'
  BY <1>h, <1>u, <1>p, <1>4, <1>w DEF Placed, Backed, Writes
<1>f. membership \in [Holders -> TokenIds] /\ legacyToken \in [Holders -> TokenIds]
  BY DEF RecordsTypeOK
<1>r. MembershipsBelong /\ LegacyBelongs /\ OwnedBelongs /\ MetadataBelongs /\ LedgerLast /\ KeysUnique
  BY DEF RecordsInv, RowsBelong
<1>m. membership' = membership => MembershipsBelong'
  <2> SUFFICES ASSUME membership' = membership, NEW g \in Holders, membership'[g] # NoToken
               PROVE  Belongs(g, membership[g])'
    BY DEF MembershipsBelong
  <2>1. PICK u : u = membership[g]
    OBVIOUS
  <2>2. Belongs(g, u)'
    BY <1>r, <1>4, <2>1 DEF MembershipsBelong
  <2> QED
    BY <2>1, <2>2 DEF Belongs, Genuine
<1>l. legacyToken' = legacyToken => LegacyBelongs'
  <2> SUFFICES ASSUME legacyToken' = legacyToken, NEW g \in Holders, legacyToken'[g] # NoToken
               PROVE  Belongs(g, legacyToken[g])'
    BY DEF LegacyBelongs
  <2>1. PICK u : u = legacyToken[g]
    OBVIOUS
  <2>2. Belongs(g, u)'
    BY <1>r, <1>4, <2>1 DEF LegacyBelongs
  <2> QED
    BY <2>1, <2>2 DEF Belongs, Genuine
<1>o. ownership' = ownership => OwnedBelongs'
  <2>1. ownership' = ownership => \A g : OwnedBy(g)' = OwnedBy(g)
    BY DEF OwnedBy
  <2>2. \A g \in Holders : \A u \in OwnedBy(g) : u # NoToken /\ Belongs(g, u)'
    BY <1>r, <1>4 DEF OwnedBelongs
  <2> QED
    BY <2>1, <2>2 DEF OwnedBelongs
<1>d. tokens' = tokens => MetadataBelongs'
  BY <1>r, <1>4 DEF MetadataBelongs
<1>e. legacyToken' = legacyToken => LedgerLast'
  <2> SUFFICES ASSUME legacyToken' = legacyToken, NEW g \in Holders, legacyToken'[g] # NoToken
               PROVE  /\ membership'[g] # NoToken
                      /\ TokenKnown(legacyToken[g])'
                      /\ OwnershipKnown(Brand(g), legacyToken[g])'
    BY DEF LedgerLast
  <2>1. PICK u : u = legacyToken[g]
    OBVIOUS
  <2>2. membership[g] # NoToken /\ TokenKnown(u) /\ OwnershipKnown(Brand(g), u)
    BY <1>r, <2>1 DEF LedgerLast
  <2>3. membership'[g] # NoToken /\ TokenKnown(u)' /\ OwnershipKnown(Brand(g), u)'
    BY <2>2 DEF Grows, RowsKept
  <2> QED
    BY <2>1, <2>3 DEF TokenKnown, OwnershipKnown
<1>k. ownership' = ownership /\ tokens' = tokens => KeysUnique'
  BY <1>r DEF KeysUnique
<1>1. CASE KeepTables
  BY <1>1, <1>m, <1>l, <1>o, <1>d, <1>e, <1>k DEF KeepTables, tables, RowsBelong
<1>2. CASE CreateMembership(q) \/ UpsertMembership(q)
  <2>1. UNCHANGED <<ownership, tokens, legacyToken>>
    BY <1>2 DEF CreateMembership, UpsertMembership
  <2>2. h \in Holders /\ membership' = [membership EXCEPT ![h] = t]
    BY <1>2, <1>t, <1>w DEF CreateMembership, UpsertMembership, At, Writes
  <2>3. Belongs(h, t)'
    <3>1. CASE req[q].pc = "create membership" /\ req[q].kind = "join"
      <4>1. h \in joined'
        BY <1>2, <1>t, <3>1 DEF CreateMembership, UpsertMembership, At, Is
      <4> QED
        BY <4>1 DEF Belongs
    <3>2. CASE ~(req[q].pc = "create membership" /\ req[q].kind = "join")
      BY <1>2, <1>w, <3>2 DEF CreateMembership, UpsertMembership, At, Writes
    <3> QED
      BY <3>1, <3>2
  <2>4. MembershipsBelong'
    <3> SUFFICES ASSUME NEW g \in Holders, membership'[g] # NoToken
                 PROVE  Belongs(g, membership[g])'
      BY DEF MembershipsBelong
    <3>1. PICK u : u = membership'[g]
      OBVIOUS
    <3>2. CASE g = h
      <4>1. u = t
        BY <1>f, <2>2, <3>1, <3>2
      <4> QED
        BY <2>3, <3>1, <3>2, <4>1 DEF Belongs, Genuine
    <3>3. CASE g # h
      <4>1. u = membership[g]
        BY <1>f, <2>2, <3>1, <3>3
      <4>2. Belongs(g, u)'
        BY <1>r, <1>4, <3>1, <4>1 DEF MembershipsBelong
      <4> QED
        BY <3>1, <4>2 DEF Belongs, Genuine
    <3> QED
      BY <3>2, <3>3
  <2> QED
    BY <1>l, <1>o, <1>d, <1>e, <1>k, <2>1, <2>4 DEF RowsBelong
<1>3. CASE UpsertOwnership(q)
  <2>1. UNCHANGED <<membership, tokens, legacyToken>>
    BY <1>3 DEF UpsertOwnership
  <2>2. h \in Holders /\ t # NoToken /\ Belongs(h, t)'
    BY <1>3, <1>w DEF UpsertOwnership, At, Writes
  <2>3. PICK new : new = [brand |-> Brand(h), token |-> t, wallet |-> Wallet(h)]
    OBVIOUS
  <2>4. ownership' = {o \in ownership : ~(o.brand = Brand(h) /\ o.token = t)} \cup {new}
    BY <1>3, <1>t, <2>3 DEF UpsertOwnership, OwnershipWith
  <2>5. new.brand = Brand(h) /\ new.token = t /\ new.wallet = Wallet(h)
    BY <2>3
  <2>6. OwnedBelongs'
    <3> SUFFICES ASSUME NEW g \in Holders, NEW o \in ownership',
                        o.brand = Brand(g), o.wallet = Wallet(g)
                 PROVE  o.token # NoToken /\ Belongs(g, o.token)'
      BY DEF OwnedBelongs, OwnedBy
    <3>1. CASE o = new
      <4>1. g = h
        BY <2>2, <2>5, <3>1, HoldersApart
      <4> QED
        BY <2>2, <2>5, <3>1, <4>1
    <3>2. CASE o # new
      <4>1. o \in ownership
        BY <2>4, <3>2
      <4>2. o.token \in OwnedBy(g)
        BY <4>1 DEF OwnedBy
      <4> QED
        BY <1>r, <1>4, <4>2 DEF OwnedBelongs
    <3> QED
      BY <3>1, <3>2
  <2>7. KeysUnique'
    <3>1. \A o, p \in ownership' : o.brand = p.brand /\ o.token = p.token => o = p
      BY <1>r, <2>4, <2>5 DEF KeysUnique
    <3> QED
      BY <1>r, <2>1, <3>1 DEF KeysUnique
  <2> QED
    BY <1>m, <1>l, <1>d, <1>e, <2>1, <2>6, <2>7 DEF RowsBelong
<1>5. CASE UpsertToken(q)
  <2>1. UNCHANGED <<membership, ownership, legacyToken>>
    BY <1>5 DEF UpsertToken
  <2>2. Belongs(h, t)'
    BY <1>5, <1>w DEF UpsertToken, At, Writes
  <2>3. PICK new : new = [token |-> t, holder |-> h]
    OBVIOUS
  <2>4. tokens' = {r \in tokens : r.token # t} \cup {new}
    BY <1>5, <1>t, <2>3 DEF UpsertToken, TokensWith
  <2>5. new.token = t /\ new.holder = h
    BY <2>3
  <2>6. MetadataBelongs'
    BY <1>r, <1>4, <2>2, <2>4, <2>5 DEF MetadataBelongs
  <2>7. KeysUnique'
    <3>1. \A r, s \in tokens' : r.token = s.token => r = s
      BY <1>r, <2>4, <2>5 DEF KeysUnique
    <3> QED
      BY <1>r, <2>1, <3>1 DEF KeysUnique
  <2> QED
    BY <1>m, <1>l, <1>o, <1>e, <2>1, <2>6, <2>7 DEF RowsBelong
<1>6. CASE UpsertLedger(q)
  <2>1. UNCHANGED <<membership, ownership, tokens>>
    BY <1>6 DEF UpsertLedger
  <2>2. req[q].pc = "write ledger" /\ legacyToken' = [legacyToken EXCEPT ![h] = t]
    BY <1>6, <1>t DEF UpsertLedger, At
  <2>3. h \in Holders /\ Belongs(h, t)'
    BY <1>w, <2>2 DEF Writes
  <2>4. membership[h] # NoToken /\ TokenKnown(t) /\ OwnershipKnown(Brand(h), t)
    BY <1>h, <1>u, <1>p, <2>2 DEF Backed
  <2>5. membership'[h] # NoToken /\ TokenKnown(t)' /\ OwnershipKnown(Brand(h), t)'
    BY <2>3, <2>4 DEF Grows, RowsKept
  <2>6. ASSUME NEW g \in Holders, legacyToken'[g] # NoToken
        PROVE  /\ Belongs(g, legacyToken[g])'
               /\ membership'[g] # NoToken
               /\ TokenKnown(legacyToken[g])'
               /\ OwnershipKnown(Brand(g), legacyToken[g])'
    <3>1. PICK u : u = legacyToken'[g]
      OBVIOUS
    <3>2. Belongs(g, u)' /\ membership'[g] # NoToken /\ TokenKnown(u)' /\ OwnershipKnown(Brand(g), u)'
      <4>1. CASE g = h
        <5>1. u = t
          BY <1>f, <2>2, <3>1, <4>1
        <5> QED
          BY <2>3, <2>5, <4>1, <5>1
      <4>2. CASE g # h
        <5>1. u = legacyToken[g]
          BY <1>f, <2>2, <3>1, <4>2
        <5>2. Belongs(g, u) /\ membership[g] # NoToken /\ TokenKnown(u) /\ OwnershipKnown(Brand(g), u)
          BY <1>r, <2>6, <3>1, <5>1 DEF LegacyBelongs, LedgerLast
        <5> QED
          BY <1>4, <5>2 DEF Grows, RowsKept
      <4> QED
        BY <4>1, <4>2
    <3> QED
      BY <3>1, <3>2 DEF Belongs, Genuine, TokenKnown, OwnershipKnown
  <2>7. LegacyBelongs' /\ LedgerLast'
    BY <2>6 DEF LegacyBelongs, LedgerLast
  <2> QED
    BY <1>m, <1>o, <1>d, <1>k, <2>1, <2>7 DEF RowsBelong
<1> QED
  BY <1>1, <1>2, <1>3, <1>5, <1>6, HandlerSteps DEF Local, Submits

(* Requests know what they have to, and the tables say what belongs.       *)
LEMMA RecordsInvAlways == RecordsSpec => []RecordsInv
<1>1. RecordsInit => RecordsInv
  <2> SUFFICES ASSUME RecordsInit
               PROVE  RecordsInv
    OBVIOUS
  <2>1. AllBacked
    BY DEF RecordsInit, AllBacked, Backed, Unused, Writes
  <2>2. DemoUnmined
    BY DEF RecordsInit, DemoUnmined
  <2>3. \A h \in Holders : membership[h] = NoToken /\ legacyToken[h] = NoToken
    BY DEF RecordsInit
  <2>4. ownership = {} /\ tokens = {}
    BY DEF RecordsInit
  <2>5. RowsBelong
    BY <2>3, <2>4 DEF RowsBelong, MembershipsBelong, LegacyBelongs, OwnedBelongs,
                      MetadataBelongs, OwnedBy
  <2>6. LedgerLast /\ KeysUnique
    BY <2>3, <2>4 DEF LedgerLast, KeysUnique
  <2> QED
    BY <2>1, <2>2, <2>5, <2>6 DEF RecordsInv
<1>2. RecordsTypeOK /\ RecordsInv /\ [RecordsNext]_recordsVars => RecordsInv'
  <2> SUFFICES ASSUME RecordsTypeOK, RecordsInv, [RecordsNext]_recordsVars
               PROVE  RecordsInv'
    OBVIOUS
  <2>1. Grows
    BY RecordsGrow DEF RecordsInv
  <2>2. ASSUME NEW p \in Requests, req'[p] = req[p]
        PROVE  Backed(req[p])'
    <3>1. PICK x : x = req[p]
      OBVIOUS
    <3>2. Placed(x) /\ Backed(x)
      BY <3>1 DEF RecordsTypeOK, RecordsInv, AllBacked
    <3>3. Backed(x)' /\ req'[p] = x
      BY <2>1, <2>2, <3>1, <3>2, BackingStays
    <3> QED
      BY <3>3 DEF Backed, Belongs, Genuine, OwnershipKnown, TokenKnown
  <2>3. ASSUME NEW q \in Requests, Handle(q)
        PROVE  RecordsInv'
    <3>1. \A p \in Requests \ {q} : req'[p] = req[p]
      BY <2>3, HandlerSteps
      DEF Starts, Looks, Finds, Answered, Submits, Moved, Over
    <3>2. Backed(req[q])'
      BY <2>1, <2>3, ActorBacked
    <3>3. AllBacked'
      BY <2>2, <3>1, <3>2 DEF AllBacked
    <3>4. RowsBelong' /\ LedgerLast' /\ KeysUnique'
      BY <2>1, <2>3, WriterKeepsRows
    <3>5. DemoUnmined'
      <4>1. demo' = demo
        BY <2>1 DEF Grows
      <4>2. CASE runs' = runs
        BY <4>1, <4>2 DEF RecordsInv, DemoUnmined
      <4>3. CASE Submits(q)
        <5>1. req[q].holder \in Holders
          BY <4>3 DEF RecordsTypeOK, Placed, Submits
        <5>2. /\ DOMAIN runs' = DOMAIN runs \cup {Len(runs) + 1}
              /\ \A r \in DOMAIN runs : runs'[r] = runs[r]
              /\ runs'[Len(runs) + 1].token = NoToken
          BY <4>3, <5>1, NewRunAdds DEF Submits
        <5> QED
          BY <4>1, <5>2 DEF RecordsInv, DemoUnmined
      <4> QED
        BY <2>3, <4>2, <4>3, HandlerSteps
        DEF Local, KeepMints, CreateMembership, UpsertMembership, UpsertOwnership,
            UpsertToken, UpsertLedger
    <3> QED
      BY <3>3, <3>4, <3>5 DEF RecordsInv
  <2>4. ASSUME UNCHANGED tables, UNCHANGED <<demo, req, joined>>, demo => runs' = runs
        PROVE  RecordsInv'
    <3>1. AllBacked'
      BY <2>2, <2>4 DEF AllBacked
    <3>2. DemoUnmined'
      BY <2>4 DEF RecordsInv, DemoUnmined
    <3>3. UNCHANGED <<membership, ownership, tokens, legacyToken>>
      BY <2>4 DEF tables
    <3>4. LedgerLast' /\ KeysUnique'
      BY <3>3 DEF RecordsInv, LedgerLast, KeysUnique, TokenKnown, OwnershipKnown
    <3>5. \A h, t : Belongs(h, t) => Belongs(h, t)'
      BY <2>1, BelongingStays
    <3>6. ASSUME NEW h \in Holders, membership'[h] # NoToken
          PROVE  Belongs(h, membership[h])'
      <4>1. PICK t : t = membership[h]
        OBVIOUS
      <4>2. Belongs(h, t)'
        BY <3>3, <3>5, <3>6, <4>1 DEF RecordsInv, RowsBelong, MembershipsBelong
      <4> QED
        BY <3>3, <4>1, <4>2 DEF Belongs, Genuine
    <3>7. ASSUME NEW h \in Holders, legacyToken'[h] # NoToken
          PROVE  Belongs(h, legacyToken[h])'
      <4>1. PICK t : t = legacyToken[h]
        OBVIOUS
      <4>2. Belongs(h, t)'
        BY <3>3, <3>5, <3>7, <4>1 DEF RecordsInv, RowsBelong, LegacyBelongs
      <4> QED
        BY <3>3, <4>1, <4>2 DEF Belongs, Genuine
    <3>8. \A h \in Holders : \A t \in OwnedBy(h)' : t # NoToken /\ Belongs(h, t)'
      <4>1. \A h : OwnedBy(h)' = OwnedBy(h)
        BY <3>3 DEF OwnedBy
      <4> QED
        BY <3>5, <4>1 DEF RecordsInv, RowsBelong, OwnedBelongs
    <3>9. \A r \in tokens' : Belongs(r.holder, r.token)'
      BY <3>3, <3>5 DEF RecordsInv, RowsBelong, MetadataBelongs
    <3>10. RowsBelong'
      BY <3>6, <3>7, <3>8, <3>9
      DEF RowsBelong, MembershipsBelong, LegacyBelongs, OwnedBelongs, MetadataBelongs
    <3> QED
      BY <3>1, <3>2, <3>4, <3>10 DEF RecordsInv
  <2>5. ASSUME NEW r \in DOMAIN runs, Mine(r) \/ Settle(r)
        PROVE  RecordsInv'
    BY <2>4, <2>5, ChainSteps DEF KeepTables
  <2>6. CASE UNCHANGED recordsVars
    BY <2>4, <2>6 DEF recordsVars
  <2> QED
    BY <2>3, <2>5, <2>6 DEF RecordsNext
<1> QED
  BY <1>1, <1>2, RecordsTypeCorrect, PTL DEF RecordsSpec

(* One mint gives a holder at most one token.                              *)
LEMMA OneMintOneToken ==
  ASSUME RecordsTypeOK, NEW h \in Holders, Cardinality(MintsFor(h)) <= 1,
         NEW t, NEW u, Genuine(h, t), Genuine(h, u)
  PROVE  t = u
<1>1. CASE demo
  BY <1>1 DEF Genuine
<1>2. CASE ~demo
  <2>1. PICK r \in DOMAIN runs : runs[r].holder = h /\ runs[r].token = t
    BY <1>2 DEF Genuine
  <2>2. PICK s \in DOMAIN runs : runs[s].holder = h /\ runs[s].token = u
    BY <1>2 DEF Genuine
  <2>3. r \in MintsFor(h) /\ s \in MintsFor(h)
    BY <2>1, <2>2 DEF MintsFor
  <2>4. IsFiniteSet(MintsFor(h)) /\ Cardinality(MintsFor(h)) \in Nat
    BY RunsCounted DEF MintsFor
  <2>5. r = s
    <3>1. SUFFICES ASSUME r # s
                   PROVE  FALSE
      OBVIOUS
    <3>2. IsFiniteSet({r, s}) /\ Cardinality({r, s}) = 2
      <4>1. IsFiniteSet({r}) /\ Cardinality({r}) = 1
        BY FS_Singleton
      <4>2. {r, s} = {r} \cup {s} /\ s \notin {r}
        BY <3>1
      <4>3. PICK S : S = {r}
        OBVIOUS
      <4>4. IsFiniteSet(S \cup {s}) /\ Cardinality(S \cup {s}) = Cardinality(S) + 1
        BY <4>1, <4>2, <4>3, FS_AddElement
      <4> QED
        BY <4>1, <4>2, <4>3, <4>4
    <3>3. Cardinality({r, s}) <= Cardinality(MintsFor(h))
      BY <2>3, <2>4, FS_Subset
    <3> QED
      BY <2>4, <3>2, <3>3
  <2> QED
    BY <2>1, <2>2, <2>5
<1> QED
  BY <1>1, <1>2

(* What the four tables say of a wallet is true, complete and the same,    *)
(* however the handlers that write them one by one overlap or are cut off. *)
THEOREM RecordsGenuineAlways == RecordsSpec => []RecordsGenuine
<1>1. RecordsTypeOK /\ RecordsInv => RecordsGenuine
  <2> SUFFICES ASSUME RecordsTypeOK, RecordsInv
               PROVE  RecordsGenuine
    OBVIOUS
  <2>r. RowsBelong /\ LedgerLast /\ KeysUnique
    BY DEF RecordsInv
  <2>1. \A h \in Holders \ joined : \A t \in TokensOf(h) : Genuine(h, t) /\ t # NoToken
    BY <2>r DEF RowsBelong, MembershipsBelong, LegacyBelongs, OwnedBelongs, TokensOf, Belongs
  <2>2. Truthful
    BY <2>r, <2>1 DEF RowsBelong, MetadataBelongs, Belongs, Truthful
  <2>3. ASSUME NEW h \in Holders \ joined, Cardinality(MintsFor(h)) <= 1
        PROVE  TokensOf(h) = NamedFor(h) /\ Cardinality(TokensOf(h)) <= 1
    <3>1. \A t, u \in TokensOf(h) : t = u
      BY <2>1, <2>3, OneMintOneToken
    <3>2. TokensOf(h) = NamedFor(h)
      <4>1. CASE membership[h] # NoToken
        BY <3>1, <4>1 DEF TokensOf, NamedFor
      <4>2. CASE membership[h] = NoToken
        <5>1. legacyToken[h] = NoToken
          BY <2>r, <4>2 DEF LedgerLast
        <5> QED
          BY <4>2, <5>1 DEF TokensOf, NamedFor
      <4> QED
        BY <4>1, <4>2
    <3>3. Cardinality(TokensOf(h)) <= 1
      <4>1. CASE TokensOf(h) = {}
        BY <4>1, FS_EmptySet
      <4>2. ASSUME NEW t \in TokensOf(h)
            PROVE  Cardinality(TokensOf(h)) <= 1
        <5>1. TokensOf(h) = {t}
          BY <3>1
        <5>2. Cardinality({t}) = 1
          BY FS_Singleton
        <5> QED
          BY <5>1, <5>2
      <4> QED
        BY <4>1, <4>2
    <3> QED
      BY <3>2, <3>3
  <2>4. RoutesAgree
    BY <2>3 DEF RoutesAgree
  <2> QED
    BY <2>r, <2>2, <2>4 DEF RecordsGenuine
<1> QED
  BY <1>1, RecordsTypeCorrect, RecordsInvAlways, PTL

(* The mints of one contract are numbered as they are mined.               *)
Minted == {r \in DOMAIN runs : runs[r].token # NoToken}

Numbered ==
  Shared => \A r \in Minted : /\ \E n \in Nat : n <= Cardinality(Minted) /\ runs[r].token = Id(n)
                              /\ \A s \in Minted : runs[s].token = runs[r].token => s = r

LEMMA NumberedAlways == RecordsSpec => []Numbered
<1>1. RecordsInit => Numbered
  BY DEF RecordsInit, Numbered, Minted
<1>2. RecordsTypeOK /\ Numbered /\ [RecordsNext]_recordsVars => Numbered'
  <2> SUFFICES ASSUME RecordsTypeOK, Numbered, [RecordsNext]_recordsVars, Shared
               PROVE  Numbered'
    BY DEF Numbered
  <2>0. ASSUME Minted' = Minted, \A r \in Minted : runs'[r].token = runs[r].token
        PROVE  Numbered'
    BY <2>0 DEF Numbered
  <2>1. CASE UNCHANGED runs
    BY <2>0, <2>1 DEF Minted
  <2>2. ASSUME NEW q \in Requests, Submits(q)
        PROVE  Numbered'
    <3>1. req[q].holder \in Holders
      BY <2>2 DEF RecordsTypeOK, Placed, Submits
    <3>2. /\ DOMAIN runs' = DOMAIN runs \cup {Len(runs) + 1}
          /\ \A r \in DOMAIN runs : runs'[r] = runs[r]
          /\ runs'[Len(runs) + 1].token = NoToken
          /\ Len(runs) + 1 \notin DOMAIN runs
      BY <2>2, <3>1, NewRunAdds DEF Submits
    <3> QED
      BY <2>0, <3>2 DEF Minted
  <2>3. ASSUME NEW q \in Requests, Handle(q)
        PROVE  Numbered'
    BY <2>1, <2>2, <2>3, HandlerSteps
    DEF Local, KeepMints, CreateMembership, UpsertMembership, UpsertOwnership,
        UpsertToken, UpsertLedger
  <2>4. ASSUME NEW r \in DOMAIN runs, Mine(r) \/ Settle(r)
        PROVE  Numbered'
    <3>1. /\ RunsAs(r)
          /\ \/ /\ runs[r].token = NoToken
                /\ runs'[r].token = Id(MintedAt(Brand(runs[r].holder)) + 1)
             \/ runs'[r].token = runs[r].token
      BY <2>4, ChainSteps
    <3>2. CASE runs'[r].token = runs[r].token
      BY <2>0, <3>1, <3>2 DEF RunsAs, Minted
    <3>3. CASE /\ runs[r].token = NoToken
               /\ runs'[r].token = Id(MintedAt(Brand(runs[r].holder)) + 1)
      <4>1. MintedAt(Brand(runs[r].holder)) = Cardinality(Minted)
        BY DEF MintedAt, Minted
      <4>2. PICK k : k = Cardinality(Minted)
        OBVIOUS
      <4>3. Minted \in SUBSET DOMAIN runs
        BY DEF Minted
      <4>4. IsFiniteSet(Minted) /\ k \in Nat
        BY <4>2, <4>3, RunsCounted
      <4>5. Id(k + 1) # NoToken
        BY <4>4, TokensApart
      <4>6. runs'[r].token = Id(k + 1)
        BY <3>3, <4>1, <4>2
      <4>7. Minted' = Minted \cup {r} /\ r \notin Minted
        BY <3>1, <3>3, <4>5, <4>6 DEF RunsAs, Minted
      <4>8. Cardinality(Minted') = k + 1
        BY <4>2, <4>4, <4>7, FS_AddElement
      <4>9. \A s \in Minted : /\ runs'[s].token = runs[s].token
                              /\ \E n \in Nat : n <= k /\ runs[s].token = Id(n)
                              /\ \A u \in Minted : runs[u].token = runs[s].token => u = s
        BY <3>1, <4>2, <4>7 DEF Numbered, RunsAs, Minted
      <4>10. \A s \in Minted : runs[s].token # Id(k + 1)
        <5> SUFFICES ASSUME NEW s \in Minted
                     PROVE  runs[s].token # Id(k + 1)
          OBVIOUS
        <5>1. PICK n \in Nat : n <= k /\ runs[s].token = Id(n)
          BY <4>9
        <5>2. n # k + 1 /\ k + 1 \in Nat
          BY <4>4, <5>1
        <5> QED
          BY <5>1, <5>2, TokensApart
      <4>11. ASSUME NEW s \in Minted'
             PROVE  /\ \E n \in Nat : n <= k + 1 /\ runs'[s].token = Id(n)
                    /\ \A u \in Minted' : runs'[u].token = runs'[s].token => u = s
        <5>1. CASE s = r
          BY <4>4, <4>6, <4>7, <4>9, <4>10, <5>1
        <5>2. CASE s # r
          <6>1. s \in Minted
            BY <4>7, <5>2
          <6>2. PICK n \in Nat : n <= k /\ runs[s].token = Id(n)
            BY <4>9, <6>1
          <6>3. n <= k + 1 /\ runs'[s].token = Id(n)
            BY <4>4, <4>9, <6>1, <6>2
          <6> QED
            BY <4>6, <4>7, <4>9, <4>10, <6>1, <6>3
        <5> QED
          BY <5>1, <5>2
      <4> QED
        BY <4>8, <4>11 DEF Numbered
    <3> QED
      BY <3>1, <3>2, <3>3
  <2>5. CASE UNCHANGED recordsVars
    BY <2>1, <2>5 DEF recordsVars
  <2> QED
    BY <2>3, <2>4, <2>5 DEF RecordsNext
<1> QED
  BY <1>1, <1>2, RecordsTypeCorrect, PTL DEF RecordsSpec

(* Holders have different tokens, if the brands share a contract.          *)
THEOREM NoSharedTokenAlways == RecordsSpec => []NoSharedToken
<1>1. RecordsTypeOK /\ RecordsInv /\ Numbered => NoSharedToken
  <2> SUFFICES ASSUME RecordsTypeOK, RecordsInv, Numbered, Shared \/ demo,
                      NEW h \in Holders \ joined, NEW g \in Holders \ joined,
                      membership[h] = membership[g], membership[h] # NoToken
               PROVE  h = g
    BY DEF NoSharedToken
  <2>1. Genuine(h, membership[h]) /\ Genuine(g, membership[g])
    BY DEF RecordsInv, RowsBelong, MembershipsBelong, Belongs
  <2>2. CASE demo
    BY <2>1, <2>2, TokensApart DEF Genuine
  <2>3. CASE ~demo /\ Shared
    <3>1. PICK r \in DOMAIN runs : runs[r].holder = h /\ runs[r].token = membership[h]
      BY <2>1, <2>3 DEF Genuine
    <3>2. PICK s \in DOMAIN runs : runs[s].holder = g /\ runs[s].token = membership[g]
      BY <2>1, <2>3 DEF Genuine
    <3>3. r \in Minted /\ s \in Minted
      BY <3>1, <3>2 DEF Minted
    <3> QED
      BY <2>3, <3>1, <3>2, <3>3 DEF Numbered
  <2> QED
    BY <2>2, <2>3
<1> QED
  BY <1>1, RecordsTypeCorrect, RecordsInvAlways, NumberedAlways, PTL

(* Whoever is about to submit a mint saw none open, and none came between. *)
DecidersSawNone == \A h \in Holders \ overlapped : Deciding(h) # {} => Pending(h) = {}
OneOpen         == \A h \in Holders \ overlapped : \A r, s \in Pending(h) :
                     runs[r].by = "ensure" /\ runs[s].by = "ensure" => r = s

(* However many requests ensure a token, at most one mint of theirs is     *)
(* open, unless two of them looked at the same time.                       *)
THEOREM OneOpenMintAlways == RecordsSpec => []OneOpenMint
<1>1. RecordsInit => DecidersSawNone /\ OneOpen
  BY DEF RecordsInit, DecidersSawNone, OneOpen, Pending
<1>2. RecordsTypeOK /\ DecidersSawNone /\ OneOpen /\ [RecordsNext]_recordsVars
        => (DecidersSawNone /\ OneOpen)'
  <2> SUFFICES ASSUME RecordsTypeOK, DecidersSawNone, OneOpen, [RecordsNext]_recordsVars
               PROVE  (DecidersSawNone /\ OneOpen)'
    OBVIOUS
  <2> DEFINE Good == (DecidersSawNone /\ OneOpen)'
  <2>1. ASSUME NEW q \in Requests, \A p \in Requests \ {q} : req'[p] = req[p],
               UNCHANGED <<runs, overlapped>>,
               /\ req'[q].kind = "ensure" /\ req'[q].pc \in {"submit", "demo"}
                 => Pending(req'[q].holder) = {}
        PROVE  Good
    <3>1. \A h : Pending(h)' = Pending(h)
      BY <2>1 DEF Pending
    <3>2. ASSUME NEW h \in Holders \ overlapped, NEW p \in Deciding(h)'
          PROVE  Pending(h) = {}
      <4>1. CASE p = q
        BY <2>1, <3>2, <4>1 DEF Deciding, Is, HolderOf
      <4>2. CASE p # q
        <5>1. p \in Deciding(h)
          BY <2>1, <3>2, <4>2 DEF Deciding, Is, HolderOf
        <5> QED
          BY <3>2, <5>1 DEF DecidersSawNone
      <4> QED
        BY <4>1, <4>2
    <3>3. DecidersSawNone'
      BY <2>1, <3>1, <3>2 DEF DecidersSawNone
    <3>4. OneOpen'
      BY <2>1, <3>1 DEF OneOpen
    <3> QED
      BY <3>3, <3>4
  <2>2. ASSUME NEW q \in Requests, Submits(q)
        PROVE  Good
    <3>1. req[q].holder \in Holders
      BY <2>2 DEF RecordsTypeOK, Placed, Submits
    <3>2. PICK h : h = req[q].holder
      OBVIOUS
    <3>3. PICK new : new = Len(runs) + 1
      OBVIOUS
    <3>4. /\ DOMAIN runs' = DOMAIN runs \cup {new}
          /\ \A r \in DOMAIN runs : runs'[r] = runs[r]
          /\ new \notin DOMAIN runs
          /\ runs'[new].holder = h /\ runs'[new].by = req[q].kind
          /\ overlapped \subseteq overlapped'
          /\ h \in overlapped' \/ Deciding(h) \subseteq {q}
      BY <2>2, <3>1, <3>2, <3>3, NewRunAdds DEF Submits
    <3>5. /\ \A p \in Requests \ {q} : req'[p] = req[p]
          /\ req'[q].pc \notin {"submit", "demo"}
      BY <2>2 DEF Submits, Moved, Over
    <3>6. \A g : Deciding(g)' \subseteq Deciding(g) \ {q}
      BY <3>5 DEF Deciding, Is, HolderOf
    <3>7. \A g : g # h => Pending(g)' = Pending(g)
      BY <3>4 DEF Pending
    <3>8. Pending(h)' \subseteq Pending(h) \cup {new}
      BY <3>4 DEF Pending
    <3>9. \A g : Pending(g) \subseteq DOMAIN runs
      BY DEF Pending
    <3>10. DecidersSawNone'
      <4> SUFFICES ASSUME NEW g \in Holders, g \notin overlapped', Deciding(g)' # {}
                   PROVE  Pending(g)' = {}
        BY DEF DecidersSawNone
      <4>1. g \notin overlapped /\ Deciding(g) # {}
        BY <3>4, <3>6
      <4>2. g # h
        BY <3>4, <3>6
      <4> QED
        BY <3>7, <4>1, <4>2 DEF DecidersSawNone
    <3>11. OneOpen'
      <4> SUFFICES ASSUME NEW g \in Holders, g \notin overlapped',
                          NEW r \in Pending(g)', NEW s \in Pending(g)',
                          runs'[r].by = "ensure", runs'[s].by = "ensure"
                   PROVE  r = s
        BY DEF OneOpen
      <4>1. g \notin overlapped
        BY <3>4
      <4>2. CASE r \in Pending(g) /\ s \in Pending(g)
        BY <3>4, <3>9, <4>1, <4>2 DEF OneOpen
      <4>3. CASE ~(r \in Pending(g) /\ s \in Pending(g))
        <5>1. g = h /\ req[q].kind = "ensure"
          BY <3>4, <3>7, <3>8, <4>3
        <5>2. q \in Deciding(h)
          BY <2>2, <3>2, <5>1 DEF Submits, Deciding, Is, HolderOf
        <5>3. Pending(h) = {}
          BY <4>1, <5>1, <5>2 DEF DecidersSawNone
        <5> QED
          BY <3>8, <5>1, <5>3
      <4> QED
        BY <4>2, <4>3
    <3> QED
      BY <3>10, <3>11
  <2>3. ASSUME NEW q \in Requests, Starts(q) \/ Looks(q) \/ Answered(q) \/ Over(q), Local
        PROVE  Good
    <3>1. UNCHANGED <<runs, overlapped>>
      BY <2>3 DEF Local, KeepMints
    <3>2. \A p \in Requests \ {q} : req'[p] = req[p]
      BY <2>3 DEF Starts, Looks, Finds, Answered, Moved, Over
    <3>3. req'[q].kind = "ensure" /\ req'[q].pc \in {"submit", "demo"}
            => Pending(req'[q].holder) = {}
      BY <2>3 DEF Starts, Looks, Finds, Answered, Moved, Over
    <3> QED
      BY <2>1, <3>1, <3>2, <3>3
  <2>4. ASSUME NEW q \in Requests, NEW pc, pc \in Writes, KeepMints,
               Moved(q, pc, TokenOf(q), req[q].run) \/ Over(q)
        PROVE  Good
    <3>1. UNCHANGED <<runs, overlapped>>
      BY <2>4 DEF KeepMints
    <3>2. /\ \A p \in Requests \ {q} : req'[p] = req[p]
          /\ req'[q].pc \notin {"submit", "demo"}
      BY <2>4 DEF Moved, Over, Writes
    <3> QED
      BY <2>1, <3>1, <3>2
  <2>5. ASSUME NEW q \in Requests, Handle(q)
        PROVE  Good
    <3>1. "write token" \in Writes /\ "write ownership" \in Writes /\ "write ledger" \in Writes
      BY DEF Writes
    <3>2. CreateMembership(q) \/ UpsertMembership(q) \/ UpsertOwnership(q) \/ UpsertToken(q)
            \/ UpsertLedger(q) => KeepMints
      BY DEF CreateMembership, UpsertMembership, UpsertOwnership, UpsertToken, UpsertLedger
    <3> HIDE DEF Good
    <3> QED
      BY <2>2, <2>3, <2>4, <2>5, <3>1, <3>2, HandlerSteps
  <2>6. ASSUME NEW r \in DOMAIN runs, Mine(r) \/ Settle(r)
        PROVE  Good
    <3>1. /\ UNCHANGED <<req, overlapped>> /\ RunsAs(r)
          /\ runs'[r].open = runs[r].open \/ ~runs'[r].open
      BY <2>6, ChainSteps
    <3>2. \A h : Deciding(h)' = Deciding(h)
      BY <3>1 DEF Deciding, Is, HolderOf
    <3>3. /\ \A h : Pending(h)' \subseteq Pending(h)
          /\ \A s \in DOMAIN runs : runs'[s].by = runs[s].by
          /\ \A h : Pending(h) \subseteq DOMAIN runs
      BY <3>1 DEF RunsAs, Pending
    <3>4. DecidersSawNone'
      BY <3>1, <3>2, <3>3 DEF DecidersSawNone
    <3>5. OneOpen'
      <4> SUFFICES ASSUME NEW h \in Holders \ overlapped,
                          NEW s \in Pending(h)', NEW u \in Pending(h)',
                          runs'[s].by = "ensure", runs'[u].by = "ensure"
                   PROVE  s = u
        BY <3>1 DEF OneOpen
      <4>1. s \in Pending(h) /\ u \in Pending(h) /\ runs[s].by = "ensure" /\ runs[u].by = "ensure"
        BY <3>3
      <4> QED
        BY <4>1 DEF OneOpen
    <3> QED
      BY <3>4, <3>5
  <2>7. CASE UNCHANGED recordsVars
    BY <2>7 DEF recordsVars, DecidersSawNone, OneOpen, Deciding, Pending, Is, HolderOf
  <2> HIDE DEF Good
  <2>8. Good
    BY <2>5, <2>6, <2>7 DEF RecordsNext, Good
  <2> QED
    BY <2>8 DEF Good
<1>3. OneOpen => OneOpenMint
  <2> SUFFICES ASSUME OneOpen, NEW h \in Holders \ overlapped
               PROVE  Cardinality({r \in Pending(h) : runs[r].by = "ensure"}) <= 1
    BY DEF OneOpenMint
  <2>1. PICK S : S = {r \in Pending(h) : runs[r].by = "ensure"}
    OBVIOUS
  <2>2. \A r, s \in S : r = s
    BY <2>1 DEF OneOpen
  <2>3. CASE S = {}
    BY <2>1, <2>3, FS_EmptySet
  <2>4. ASSUME NEW r \in S
        PROVE  Cardinality(S) <= 1
    <3>1. S = {r}
      BY <2>2
    <3>2. Cardinality({r}) = 1
      BY FS_Singleton
    <3> QED
      BY <3>1, <3>2
  <2>5. Cardinality(S) <= 1
    BY <2>3, <2>4, FS_EmptySet
  <2> QED
    BY <2>1, <2>5
<1> QED
  BY <1>1, <1>2, <1>3, RecordsTypeCorrect, PTL DEF RecordsSpec
=============================================================================
