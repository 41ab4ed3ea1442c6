--------------------------- MODULE SponsorCredits ---------------------------
(***************************************************************************)
(* The sponsorship credits of one brand, in units of the column's last     *)
(* decimal, and all who write them.  A request that spends reads the brand first, submits   *)
(* workflows and may wait for them for minutes, and then writes the column *)
(* back as what it read less the cost.  The billing callback does the same *)
(* with a sum, the x402 route increments the column in place.              *)
(*                                                                         *)
(* The wallet is the same in all requests: member is its brandMembership.  *)
(***************************************************************************)
EXTENDS Integers

CONSTANTS
  Spenders,     \* requests and queue items that spend
  Callbacks,    \* deliveries to POST /billing/x402/webhook
  Half,         \* units in half a credit; 5000 in a Decimal(20, 4)
  Initially,    \* credits of the brand at first
  Amounts,      \* amounts of payments, any the route takes; a tiny one is rounded to 0
  Reported,     \* amounts a callback states, any number at all
  MaxPayments   \* bound: payments started

ASSUME CreditsAssumption ==
  /\ Half \in Nat \ {0}
  /\ Initially \in Nat
  /\ Amounts \subseteq Nat
  /\ Reported \subseteq Int
  /\ MaxPayments \in Nat

\* Costs: 1 credit for a mint, half a credit for a reward or a lootbox.
MintCost   == 2 * Half
RewardCost == Half

\* runMintAction, runQuestRewardAction, POST /brands/:brandId/join,
\* POST /brands/:brandId/lootbox/open, processZealyEvent, executeQuestReward.
\* runLootboxAction checks and charges as runQuestRewardAction does and is a
\* "reward action" here; runUpdateXpAction would charge half a credit without any
\* check.  Nothing creates an item for either of them.
Kinds == {"mint action", "reward action", "join", "open", "event", "execute"}

VARIABLES
  credits,    \* brand.sponsorshipCredits
  member,     \* whether the wallet has a membership
  run,        \* whether the zealyEvent has its workflowRunId
  spender,    \* each spending request: [kind, pc, base, run]
  callback,   \* each callback: [pc, base]
  payments,   \* payments that were started, and thereby completed
  toppedUp,   \* history: the sum of all positive amounts credited
  takenBack,  \* history: the sum of all negative ones
  charged,    \* history: the sum of all costs charged
  overlapped  \* history: a write came between the read and a write of another

vars == <<credits, member, run, spender, callback, payments, toppedUp, takenBack,
          charged, overlapped>>

IdleSpender  == [kind |-> "join", pc |-> "idle", base |-> 0, run |-> FALSE]
IdleCallback == [pc |-> "idle", base |-> 0]

Init ==
  /\ credits = Initially
  /\ member \in BOOLEAN
  /\ run = FALSE
  /\ spender = [p \in Spenders |-> IdleSpender]
  /\ callback = [c \in Callbacks |-> IdleCallback]
  /\ payments = 0
  /\ toppedUp = 0
  /\ takenBack = 0
  /\ charged = 0
  /\ overlapped = FALSE
-----------------------------------------------------------------------------
At(p, pc)  == spender[p].pc = pc
Is(p, ks)  == spender[p].kind \in ks
Base(p)    == spender[p].base
Goto(p, pc) == spender' = [spender EXCEPT ![p].pc = pc]

\* Those that hold a value they have read and may still write.
HoldingSpenders  == {p \in Spenders : ~(At(p, "idle") \/ At(p, "done"))}
HoldingCallbacks == {c \in Callbacks : callback[c].pc = "read"}

Money    == <<credits, toppedUp, takenBack, charged, overlapped>>
NoMoney  == UNCHANGED <<callback, payments, Money>>

\* Every request starts with a read of the brand.  That of the event is read
\* with it.
Begin(p) ==
  /\ At(p, "idle")
  /\ \E k \in Kinds :
       spender' = [spender EXCEPT ![p] = [kind |-> k, pc |-> "read", base |-> credits,
                                          run |-> run]]
  /\ UNCHANGED <<member, run>> /\ NoMoney

\* Mutant: the balance is not looked at.
NoCheck(p) == TRUE

\* What the balance must be for a mint; executeQuestReward wants the reward as well.
EnoughToMint(p) ==
  /\ Is(p, {"mint action"})   => Base(p) >= MintCost
  /\ Is(p, {"execute"})       => Base(p) >= MintCost + RewardCost
  /\ Is(p, {"join", "event"}) => Base(p) > 0

\* The mint is submitted and, but for join, waited for.  join does not ask for
\* a membership.
SubmitMint(p) ==
  /\ At(p, "read")
  /\ \/ Is(p, {"mint action", "execute", "event"}) /\ ~member
     \/ Is(p, {"join"})
  /\ EnoughToMint(p)
  /\ Goto(p, IF Is(p, {"join"}) THEN "pay mint" ELSE "minted")
  /\ UNCHANGED <<member, run>> /\ NoMoney

\* The membership; only the worker's is an upsert, the others throw if there
\* is one by now.
Enroll(p) ==
  /\ \/ At(p, "minted") /\ Is(p, {"mint action"})
     \/ At(p, "minted") /\ ~member
     \/ At(p, "enroll") /\ ~member
  /\ member' = TRUE
  /\ Goto(p, IF At(p, "minted") THEN "pay mint" ELSE "done")
  /\ UNCHANGED run /\ NoMoney

\* Mutant: what is left is not remembered.
ChargeForgetful(p, cost, pc) ==
  /\ credits' = Base(p) - cost
  /\ charged' = charged + cost
  /\ overlapped' = (overlapped \/ HoldingSpenders # {p} \/ HoldingCallbacks # {})
  /\ spender' = [spender EXCEPT ![p].pc = pc]
  /\ UNCHANGED <<member, callback, payments, toppedUp, takenBack>>

\* The column is written as what was read less the cost.
Charge(p, cost, pc) ==
  /\ credits' = Base(p) - cost
  /\ charged' = charged + cost
  /\ overlapped' = (overlapped \/ HoldingSpenders # {p} \/ HoldingCallbacks # {})
  /\ spender' = [spender EXCEPT ![p].pc = pc, ![p].base = Base(p) - cost]
  /\ UNCHANGED <<member, callback, payments, toppedUp, takenBack>>

PayMint(p) ==
  /\ At(p, "pay mint")
  /\ Charge(p, MintCost, CASE Is(p, {"join"})        -> "enroll"
                           [] Is(p, {"mint action"}) -> "done"
                           [] OTHER                  -> "reward")
  /\ UNCHANGED run

\* processZealyEvent looks at the balance again after a mint, executeQuestReward
\* does not.
EnoughToReward(p) ==
  /\ Is(p, {"reward action"}) => Base(p) >= RewardCost
  /\ Is(p, {"open", "event"}) => Base(p) > 0
  /\ Is(p, {"execute"})       => At(p, "reward") \/ Base(p) >= RewardCost

\* The reward or the lootbox is submitted, for a wallet with a token.
SubmitReward(p) ==
  /\ \/ At(p, "read") /\ Is(p, {"reward action", "open", "event", "execute"}) /\ member
     \/ At(p, "reward")
  /\ ~spender[p].run \/ ~Is(p, {"event"})
  /\ EnoughToReward(p)
  /\ Goto(p, IF Is(p, {"event"}) THEN "store run" ELSE "pay reward")
  /\ UNCHANGED <<member, run>> /\ NoMoney

\* An event that was submitted before is only waited for, and costs no more.
ResumeReward(p) ==
  /\ At(p, "reward") \/ (At(p, "read") /\ member)
  /\ Is(p, {"event"}) /\ spender[p].run
  /\ Goto(p, "done")
  /\ UNCHANGED <<member, run>> /\ NoMoney

StoreRun(p) ==
  /\ At(p, "store run")
  /\ run' = TRUE
  /\ Goto(p, "pay reward")
  /\ UNCHANGED member /\ NoMoney

\* The worker pays after the wait, the others before it.
PayReward(p) ==
  /\ At(p, "pay reward")
  /\ Charge(p, RewardCost, "done")
  /\ UNCHANGED run

\* A check fails, an await throws, or the server stops.
GiveUp(p) ==
  /\ p \in HoldingSpenders
  /\ Goto(p, "done")
  /\ UNCHANGED <<member, run>> /\ NoMoney
-----------------------------------------------------------------------------
(* Payments                                                                *)

Credited(amount) ==
  /\ toppedUp'  = toppedUp + (IF amount > 0 THEN amount ELSE 0)
  /\ takenBack' = takenBack + (IF amount < 0 THEN -amount ELSE 0)
  /\ UNCHANGED <<member, run, spender, charged>>

\* POST /brands/:brandId/billing/x402/start, outside production: the payment is
\* created as completed and the column incremented, in one transaction.
StartPayment(amount) ==
  /\ payments < MaxPayments
  /\ payments' = payments + 1
  /\ credits' = credits + amount
  /\ overlapped' = (overlapped \/ HoldingSpenders # {} \/ HoldingCallbacks # {})
  /\ Credited(amount) /\ UNCHANGED callback

\* The callback finds the payment and the brand.  That the payment may be
\* completed already is not looked at.
CallbackRead(c) ==
  /\ callback[c].pc = "idle"
  /\ payments > 0
  /\ callback' = [callback EXCEPT ![c] = [pc |-> "read", base |-> credits]]
  /\ UNCHANGED <<member, run, spender, payments, Money>>

\* Mutant: the amount is added twice.
CallbackCreditTwice(c, amount) ==
  /\ callback[c].pc = "read"
  /\ credits' = callback[c].base + 2 * amount
  /\ overlapped' = (overlapped \/ HoldingSpenders # {} \/ HoldingCallbacks # {c})
  /\ callback' = [callback EXCEPT ![c].pc = "done"]
  /\ Credited(amount) /\ UNCHANGED payments

\* The amount is the one it states, of either sign, or else that of the payment.
CallbackCredit(c, amount) ==
  /\ callback[c].pc = "read"
  /\ credits' = callback[c].base + amount
  /\ overlapped' = (overlapped \/ HoldingSpenders # {} \/ HoldingCallbacks # {c})
  /\ callback' = [callback EXCEPT ![c].pc = "done"]
  /\ Credited(amount) /\ UNCHANGED payments

\* It reports something other than success, or fails.
CallbackEnd(c) ==
  /\ callback[c].pc = "read"
  /\ callback' = [callback EXCEPT ![c].pc = "done"]
  /\ UNCHANGED <<member, run, spender, payments, Money>>
-----------------------------------------------------------------------------
Spend(p) ==
  \/ Begin(p) \/ SubmitMint(p) \/ Enroll(p) \/ PayMint(p)
  \/ SubmitReward(p) \/ ResumeReward(p) \/ StoreRun(p) \/ PayReward(p) \/ GiveUp(p)

Deliver(c) ==
  CallbackRead(c) \/ (\E amount \in Amounts \cup Reported : CallbackCredit(c, amount)) \/ CallbackEnd(c)

Next ==
  \/ \E p \in Spenders : Spend(p)
  \/ \E c \in Callbacks : Deliver(c)
  \/ \E amount \in Amounts : StartPayment(amount)

Spec == Init /\ [][Next]_vars
-----------------------------------------------------------------------------
(* Properties                                                              *)

SpenderPc == {"idle", "read", "minted", "enroll", "pay mint", "reward", "store run",
              "pay reward", "done"}

TypeOK ==
  /\ credits \in Int
  /\ member \in BOOLEAN
  /\ run \in BOOLEAN
  /\ spender \in [Spenders -> [kind : Kinds, pc : SpenderPc, base : Int, run : BOOLEAN]]
  /\ callback \in [Callbacks -> [pc : {"idle", "read", "done"}, base : Int]]
  /\ payments \in 0..MaxPayments
  /\ toppedUp \in Nat
  /\ takenBack \in Nat
  /\ charged \in Nat
  /\ overlapped \in BOOLEAN

\* However many requests overlap, whatever they read before, a brand never owes
\* the price of a mint, but for what callbacks take back: join and
\* processZealyEvent ask for any credit at all, as little as one unit, before a
\* mint that costs a whole one.
OwesLessThanMint == credits + takenBack > -MintCost

\* No stale write makes a brand richer than its payments.
NoCreditFromNothing == credits <= Initially + toppedUp

\* As long as no write came between the read and the write of another, the
\* balance is what was paid less what was charged, whichever requests gave up
\* and after whichever step.
ExactUnlessOverlapped == ~overlapped => credits = Initially + toppedUp - takenBack - charged
=============================================================================
