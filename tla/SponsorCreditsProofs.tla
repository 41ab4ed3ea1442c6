------------------------ MODULE SponsorCreditsProofs ------------------------
(***************************************************************************)
(* What holds of the credits for any number of requests, callbacks and     *)
(* payments, and any amounts; of the page that buys them, for any number   *)
(* of submissions; and of the pages that set the brand's NFTs up, for any  *)
(* numbers of packs, contracts and requests.                               *)
(***************************************************************************)
EXTENDS SponsorCredits, TopUp, NftPages, FiniteSetTheorems, TLAPS

(* What costs anything costs some units, and a mint more than a reward.     *)
LEMMA Costs == MintCost \in Nat /\ RewardCost \in Nat /\ RewardCost > 0 /\ MintCost > RewardCost
BY CreditsAssumption DEF MintCost, RewardCost

(* What an amount adds to the sums of what was paid and taken back.        *)
LEMMA CreditedSums ==
  ASSUME toppedUp \in Nat, takenBack \in Nat, NEW amount \in Int, Credited(amount)
  PROVE  /\ toppedUp' \in Nat /\ takenBack' \in Nat
         /\ toppedUp' >= toppedUp /\ toppedUp' >= toppedUp + amount
         /\ takenBack' >= takenBack /\ amount + takenBack' >= takenBack
         /\ toppedUp' - takenBack' = toppedUp - takenBack + amount
BY DEF Credited

(* A balance that was paid for is paid for with an amount more.            *)
LEMMA StillPaid ==
  ASSUME NEW held \in Int, NEW paid \in Nat, NEW more \in Nat, NEW amount \in Int,
         held <= Initially + paid, more >= paid + amount
  PROVE  held + amount <= Initially + more
BY CreditsAssumption

(* Next, action by action.                                                 *)
LEMMA StepCases ==
  ASSUME [Next]_vars
  PROVE  \/ \E p \in Spenders : Spend(p)
         \/ \E c \in Callbacks : CallbackRead(c) \/ CallbackEnd(c)
         \/ \E c \in Callbacks, amount \in Amounts \cup Reported : CallbackCredit(c, amount)
         \/ \E amount \in Amounts : StartPayment(amount)
         \/ UNCHANGED vars
BY DEF Next, Deliver

SpenderRow  == [kind : Kinds, pc : SpenderPc, base : Int, run : BOOLEAN]
CallbackRow == [pc : {"idle", "read", "done"}, base : Int]

(* What a charge writes.                                                   *)
LEMMA ChargeTypes ==
  ASSUME TypeOK, NEW p \in Spenders, NEW cost \in Nat, NEW pc \in SpenderPc,
         Charge(p, cost, pc)
  PROVE  /\ spender' \in [Spenders -> SpenderRow]
         /\ credits' \in Int /\ charged' \in Nat
         /\ UNCHANGED <<callback, payments, toppedUp, takenBack>>
<1>1. spender[p] \in SpenderRow
  BY DEF TypeOK, SpenderRow
<1>2. spender[p].base - cost \in Int
  BY <1>1 DEF SpenderRow
<1>3. [spender[p] EXCEPT !.pc = pc, !.base = spender[p].base - cost] \in SpenderRow
  BY <1>1, <1>2 DEF SpenderRow
<1>4. spender' = [spender EXCEPT ![p] =
                    [spender[p] EXCEPT !.pc = pc, !.base = spender[p].base - cost]]
  BY DEF Charge, Base, TypeOK
<1> QED
  BY <1>2, <1>3, <1>4 DEF Charge, Base, TypeOK, SpenderRow

(* Both charges are of this kind.                                          *)
LEMMA PayIsCharge ==
  ASSUME NEW p \in Spenders, PayMint(p) \/ PayReward(p)
  PROVE  \E cost \in Nat, pc \in SpenderPc : Charge(p, cost, pc)
BY Costs DEF PayMint, PayReward, SpenderPc

(* A request steps within its row.                                         *)
LEMMA SpenderTypes ==
  ASSUME TypeOK, NEW p \in Spenders, Spend(p)
  PROVE  spender' \in [Spenders -> SpenderRow]
<1>0. ASSUME NEW pc \in SpenderPc, Goto(p, pc)
      PROVE  spender' \in [Spenders -> SpenderRow]
  BY <1>0 DEF TypeOK, SpenderRow, Goto
<1>1. CASE Begin(p)
  <2>1. PICK k \in Kinds :
          spender' = [spender EXCEPT ![p] = [kind |-> k, pc |-> "read", base |-> credits,
                                             run |-> run]]
    BY <1>1 DEF Begin
  <2>2. [kind |-> k, pc |-> "read", base |-> credits, run |-> run] \in SpenderRow
    BY DEF TypeOK, SpenderRow, SpenderPc
  <2> QED
    BY <2>1, <2>2 DEF TypeOK, SpenderRow
<1>2. CASE SubmitMint(p)
  BY <1>0, <1>2 DEF SubmitMint, SpenderPc
<1>3. CASE Enroll(p)
  BY <1>0, <1>3 DEF Enroll, SpenderPc
<1>4. CASE PayMint(p) \/ PayReward(p)
  BY <1>4, PayIsCharge, ChargeTypes
<1>5. CASE SubmitReward(p)
  BY <1>0, <1>5 DEF SubmitReward, SpenderPc
<1>6. CASE ResumeReward(p)
  BY <1>0, <1>6 DEF ResumeReward, SpenderPc
<1>7. CASE StoreRun(p)
  BY <1>0, <1>7 DEF StoreRun, SpenderPc
<1>8. CASE GiveUp(p)
  BY <1>0, <1>8 DEF GiveUp, SpenderPc
<1> QED
  BY <1>1, <1>2, <1>3, <1>4, <1>5, <1>6, <1>7, <1>8 DEF Spend

(* Every variable keeps its type.  The balance is only an integer: requests*)
(* that overlap may overdraw it.                                           *)
THEOREM CreditsTypeCorrect == Spec => []TypeOK
<1>1. Init => TypeOK
  <2> SUFFICES ASSUME Init
               PROVE  TypeOK
    OBVIOUS
  <2>1. spender \in [Spenders -> SpenderRow]
    BY DEF Init, IdleSpender, SpenderRow, Kinds, SpenderPc
  <2>2. /\ callback \in [Callbacks -> CallbackRow]
        /\ payments \in 0..MaxPayments /\ credits \in Int
        /\ toppedUp \in Nat /\ takenBack \in Nat /\ charged \in Nat
    BY CreditsAssumption DEF Init, IdleCallback, CallbackRow
  <2>3. member \in BOOLEAN /\ run \in BOOLEAN /\ overlapped \in BOOLEAN
    BY DEF Init
  <2> QED
    BY <2>1, <2>2, <2>3 DEF TypeOK, SpenderRow, CallbackRow
<1>2. TypeOK /\ [Next]_vars => TypeOK'
  <2> SUFFICES ASSUME TypeOK, [Next]_vars
               PROVE  TypeOK'
    OBVIOUS
  <2> USE CreditsAssumption, Costs DEF TypeOK, SpenderRow
  <2>1. ASSUME NEW p \in Spenders, Spend(p)
        PROVE  TypeOK'
    <3>1. spender' \in [Spenders -> SpenderRow]
      BY <2>1, SpenderTypes
    <3>2. member' \in BOOLEAN /\ run' \in BOOLEAN /\ overlapped' \in BOOLEAN
      BY <2>1 DEF Spend, Begin, SubmitMint, Enroll, PayMint, SubmitReward, ResumeReward,
                  StoreRun, PayReward, GiveUp, Charge, NoMoney, Money
    <3>3. CASE PayMint(p) \/ PayReward(p)
      <4>1. /\ credits' \in Int /\ charged' \in Nat
            /\ UNCHANGED <<callback, payments, toppedUp, takenBack>>
        BY <3>3, PayIsCharge, ChargeTypes
      <4> QED
        BY <3>1, <3>2, <4>1
    <3>4. CASE NoMoney
      <4>1. UNCHANGED <<credits, callback, payments, toppedUp, takenBack, charged>>
        BY <3>4 DEF NoMoney, Money
      <4> QED
        BY <3>1, <3>2, <4>1
    <3> QED
      BY <2>1, <3>3, <3>4 DEF Spend, Begin, SubmitMint, Enroll, SubmitReward, ResumeReward,
                              StoreRun, GiveUp
  <2>2. ASSUME NEW c \in Callbacks, CallbackRead(c) \/ CallbackEnd(c)
        PROVE  TypeOK'
    <3>1. /\ callback' \in [Callbacks -> CallbackRow]
          /\ UNCHANGED <<member, run, spender, payments, Money>>
      BY <2>2 DEF CallbackRead, CallbackEnd, CallbackRow
    <3> QED
      BY <3>1 DEF CallbackRow, Money
  <2>3. ASSUME NEW c \in Callbacks, NEW amount \in Amounts \cup Reported, CallbackCredit(c, amount)
        PROVE  TypeOK'
    <3>1. /\ callback' \in [Callbacks -> CallbackRow]
          /\ credits' \in Int /\ toppedUp' \in Nat /\ takenBack' \in Nat
          /\ UNCHANGED <<member, run, spender, charged, payments>>
      BY <2>3, CreditedSums DEF CallbackCredit, CallbackRow, Credited
    <3>2. overlapped' \in BOOLEAN
      BY <2>3 DEF CallbackCredit
    <3> QED
      BY <3>1, <3>2 DEF CallbackRow
  <2>4. ASSUME NEW amount \in Amounts, StartPayment(amount)
        PROVE  TypeOK'
    <3>1. /\ payments' \in 0..MaxPayments
          /\ credits' \in Int /\ toppedUp' \in Nat /\ takenBack' \in Nat
          /\ UNCHANGED <<member, run, spender, charged, callback>>
      BY <2>4, CreditedSums DEF StartPayment, Credited
    <3>2. overlapped' \in BOOLEAN
      BY <2>4 DEF StartPayment
    <3> QED
      BY <3>1, <3>2
  <2>5. CASE UNCHANGED vars
    BY <2>5 DEF vars
  <2> QED
    BY <2>1, <2>2, <2>3, <2>4, <2>5, StepCases
<1> QED
  BY <1>1, <1>2, PTL DEF Spec

(* A step that does not charge keeps the value the request holds, unless   *)
(* it is the read itself, and leaves the money alone.                      *)
LEMMA OtherSpending ==
  ASSUME TypeOK, NEW p \in Spenders, Spend(p), ~PayMint(p), ~PayReward(p)
  PROVE  /\ UNCHANGED <<credits, callback, payments, toppedUp, takenBack, charged, overlapped>>
         /\ \A q \in Spenders \ {p} : spender'[q] = spender[q]
         /\ spender'[p].base = IF Begin(p) THEN credits ELSE spender[p].base
<1> USE DEF TypeOK, NoMoney, Money, Goto
<1>1. CASE Begin(p)
  <2>1. /\ UNCHANGED <<credits, callback, payments, toppedUp, takenBack, charged, overlapped>>
        /\ \A q \in Spenders \ {p} : spender'[q] = spender[q]
    BY <1>1 DEF Begin
  <2>2. spender'[p].base = credits
    BY <1>1 DEF Begin
  <2> QED
    BY <1>1, <2>1, <2>2
<1>2. CASE ~Begin(p)
  <2>1. /\ NoMoney
        /\ \E pc \in SpenderPc : Goto(p, pc)
    BY <1>2 DEF Spend, SubmitMint, Enroll, SubmitReward, ResumeReward, StoreRun, GiveUp,
               SpenderPc
  <2> QED
    BY <1>2, <2>1
<1> QED
  BY <1>1, <1>2

(* What a charge does to the others and to the money.                      *)
LEMMA ChargeSteps ==
  ASSUME TypeOK, NEW p \in Spenders, NEW cost \in Nat, NEW pc \in SpenderPc,
         Charge(p, cost, pc)
  PROVE  /\ credits' = spender[p].base - cost
         /\ charged' = charged + cost
         /\ spender'[p].base = credits'
         /\ spender'[p].pc = pc
         /\ spender'[p].kind = spender[p].kind
         /\ \A q \in Spenders \ {p} : spender'[q] = spender[q]
         /\ UNCHANGED <<callback, payments, toppedUp, takenBack>>
BY DEF Charge, TypeOK, Base

(* No balance that is stored or held exceeds what was ever paid.           *)
BasesPaid ==
  /\ credits <= Initially + toppedUp
  /\ \A p \in Spenders : spender[p].base <= Initially + toppedUp
  /\ \A c \in Callbacks : callback[c].base <= Initially + toppedUp

(* A stale write may lose a payment or a charge, but it never makes a      *)
(* brand richer than its payments: what is written was once the balance,   *)
(* less a cost or plus an amount that is counted.                          *)
THEOREM NoCreditFromNothingAlways == Spec => []NoCreditFromNothing
<1>1. Init => BasesPaid
  BY CreditsAssumption DEF Init, BasesPaid, IdleSpender, IdleCallback
<1>2. TypeOK /\ BasesPaid /\ [Next]_vars => BasesPaid'
  <2> SUFFICES ASSUME TypeOK, BasesPaid, [Next]_vars
               PROVE  BasesPaid'
    OBVIOUS
  <2> USE CreditsAssumption DEF BasesPaid
  <2>t. /\ credits \in Int /\ toppedUp \in Nat
        /\ \A p \in Spenders : spender[p].base \in Int
        /\ \A c \in Callbacks : callback[c].base \in Int
    BY DEF TypeOK
  <2>1. ASSUME NEW p \in Spenders, Spend(p), ~PayMint(p), ~PayReward(p)
        PROVE  BasesPaid'
    BY <2>1, OtherSpending
  <2>2. ASSUME NEW p \in Spenders, PayMint(p) \/ PayReward(p)
        PROVE  BasesPaid'
    <3>1. PICK cost \in Nat, pc \in SpenderPc : Charge(p, cost, pc)
      BY <2>2, PayIsCharge
    <3>2. credits' <= Initially + toppedUp'
      BY <2>t, <3>1, ChargeSteps
    <3> QED
      BY <3>1, <3>2, ChargeSteps
  <2>3. ASSUME NEW c \in Callbacks, CallbackRead(c) \/ CallbackEnd(c)
        PROVE  BasesPaid'
    BY <2>t, <2>3 DEF CallbackRead, CallbackEnd, Money, TypeOK
  <2>4. ASSUME NEW c \in Callbacks, NEW amount \in Amounts \cup Reported, CallbackCredit(c, amount)
        PROVE  BasesPaid'
    <3>1. /\ credits' = callback[c].base + amount
          /\ toppedUp' \in Nat /\ toppedUp' >= toppedUp /\ toppedUp' >= toppedUp + amount
          /\ amount \in Int
          /\ UNCHANGED spender
          /\ \A d \in Callbacks : callback'[d].base = callback[d].base
      BY <2>4, CreditedSums DEF CallbackCredit, Credited, TypeOK
    <3> QED
      BY <2>t, <3>1
  <2>5. ASSUME NEW amount \in Amounts, StartPayment(amount)
        PROVE  BasesPaid'
    <3>0. amount \in Int
      OBVIOUS
    <3>1. /\ credits' = credits + amount
          /\ UNCHANGED <<spender, callback>>
          /\ Credited(amount)
      BY <2>5 DEF StartPayment, Credited
    <3>2. toppedUp' \in Nat /\ toppedUp' >= toppedUp /\ toppedUp' >= toppedUp + amount
      BY <3>0, <3>1, CreditedSums DEF TypeOK
    <3>3. credits' <= Initially + toppedUp'
      BY <2>t, <3>0, <3>1, <3>2, StillPaid
    <3>4. \A p \in Spenders : spender'[p].base <= Initially + toppedUp'
      BY <2>t, <3>1, <3>2
    <3>5. \A c \in Callbacks : callback'[c].base <= Initially + toppedUp'
      BY <2>t, <3>1, <3>2
    <3> QED
      BY <3>3, <3>4, <3>5
  <2>6. CASE UNCHANGED vars
    BY <2>6 DEF vars
  <2> QED
    BY <2>1, <2>2, <2>3, <2>4, <2>5, <2>6, StepCases DEF Spend
<1>3. BasesPaid => NoCreditFromNothing
  BY DEF BasesPaid, NoCreditFromNothing
<1> QED
  BY <1>1, <1>2, <1>3, CreditsTypeCorrect, PTL DEF Spec

(* The bounds a request makes sure of: less than a mint owed, any credit   *)
(* at all, enough for a mint and a reward.                                 *)
AtWorst(base, back) == base + back > -MintCost
Some(base)          == base > 0
ForBoth(base)       == base >= MintCost + RewardCost

LEMMA Bounds ==
  ASSUME NEW back \in Nat, NEW base \in Int
  PROVE  /\ base >= RewardCost => Some(base)
         /\ base >= MintCost => Some(base)
         /\ ForBoth(base) => Some(base)
         /\ Some(base) => AtWorst(base, back)
         /\ Some(base) => AtWorst(base - MintCost, back)
         /\ Some(base) => AtWorst(base - RewardCost, back)
         /\ ForBoth(base) => Some(base - MintCost)
         /\ base >= 0 => AtWorst(base, back)
BY Costs DEF AtWorst, Some, ForBoth

(* What callbacks have taken back in all only grows, and a bound that counts*)
(* it in stays one.                                                        *)
LEMMA TakenBackGrows ==
  ASSUME NEW back \in Nat, NEW more \in Nat, more >= back, NEW base \in Int
  PROVE  AtWorst(base, back) => AtWorst(base, more)
BY Costs DEF AtWorst

(* What a request of a kind has made sure of when it is about to be charged*)
(* for what it has submitted.                                              *)
CoveredAs(kind, pc, base, back) ==
  /\ AtWorst(base, back)
  /\ pc \in {"minted", "pay mint", "store run", "pay reward"} => Some(base)
  /\ pc \in {"minted", "pay mint"} => kind \in {"mint action", "join", "execute", "event"}
  /\ pc \in {"minted", "pay mint"} /\ kind = "execute" => ForBoth(base)
  /\ pc = "reward" => kind \in {"event", "execute"}
  /\ pc = "reward" /\ kind = "execute" => Some(base)

Covered(p) == CoveredAs(spender[p].kind, spender[p].pc, spender[p].base, takenBack)

(* The balance and all values that requests hold are covered.              *)
AllCovered ==
  /\ AtWorst(credits, takenBack)
  /\ \A p \in Spenders : Covered(p)
  /\ \A c \in Callbacks : AtWorst(callback[c].base, takenBack)

(* A step of a request that does not charge keeps it covered: it asks for  *)
(* the balance before it submits.                                          *)
LEMMA SubmitsCovered ==
  ASSUME TypeOK, AtWorst(credits, takenBack), NEW p \in Spenders, Covered(p),
         Spend(p), ~PayMint(p), ~PayReward(p)
  PROVE  Covered(p)'
<1>t. /\ spender[p].base \in Int /\ takenBack \in Nat
      /\ CoveredAs(spender[p].kind, spender[p].pc, spender[p].base, takenBack)
  BY DEF TypeOK, Covered
<1>u. UNCHANGED takenBack
  BY OtherSpending
<1>g. ASSUME NEW pc \in SpenderPc, Goto(p, pc),
             CoveredAs(spender[p].kind, pc, spender[p].base, takenBack)
      PROVE  Covered(p)'
  <2>1. /\ spender'[p].pc = pc
        /\ spender'[p].kind = spender[p].kind
        /\ spender'[p].base = spender[p].base
    BY <1>g DEF Goto, TypeOK
  <2> QED
    BY <1>g, <1>u, <2>1 DEF Covered
<1>1. CASE Begin(p)
  <2>1. PICK k \in Kinds :
          spender' = [spender EXCEPT ![p] = [kind |-> k, pc |-> "read", base |-> credits,
                                             run |-> run]]
    BY <1>1 DEF Begin
  <2>2. spender'[p].kind = k /\ spender'[p].pc = "read" /\ spender'[p].base = credits
    BY <2>1 DEF TypeOK
  <2>3. CoveredAs(k, "read", credits, takenBack)
    BY DEF CoveredAs
  <2> QED
    BY <1>u, <2>2, <2>3 DEF Covered
<1>2. CASE SubmitMint(p)
  <2>0. /\ spender[p].kind \in {"mint action", "join", "execute", "event"}
        /\ spender[p].kind \in {"join", "event"} => spender[p].base > 0
        /\ spender[p].kind = "mint action" => spender[p].base >= MintCost
        /\ spender[p].kind = "execute" => ForBoth(spender[p].base)
    BY <1>2 DEF SubmitMint, EnoughToMint, Is, Base, ForBoth
  <2>1. Some(spender[p].base) /\ AtWorst(spender[p].base, takenBack)
    <3>1. Some(spender[p].base)
      BY <1>t, <2>0, Bounds DEF Some
    <3> QED
      BY <1>t, <3>1, Bounds
  <2>2. Goto(p, "pay mint") \/ Goto(p, "minted")
    BY <1>2 DEF SubmitMint
  <2>3. /\ CoveredAs(spender[p].kind, "pay mint", spender[p].base, takenBack)
        /\ CoveredAs(spender[p].kind, "minted", spender[p].base, takenBack)
    BY <2>0, <2>1 DEF CoveredAs
  <2> QED
    BY <1>g, <2>2, <2>3 DEF SpenderPc
<1>3. CASE Enroll(p)
  <2>1. \/ spender[p].pc = "minted" /\ Goto(p, "pay mint")
        \/ Goto(p, "done")
    BY <1>3 DEF Enroll, At
  <2>2. CoveredAs(spender[p].kind, "done", spender[p].base, takenBack)
    BY <1>t DEF CoveredAs
  <2>3. spender[p].pc = "minted" => CoveredAs(spender[p].kind, "pay mint", spender[p].base, takenBack)
    BY <1>t DEF CoveredAs
  <2> QED
    BY <1>g, <2>1, <2>2, <2>3 DEF SpenderPc
<1>4. CASE SubmitReward(p)
  <2>1. \/ spender[p].base > 0
        \/ spender[p].base >= RewardCost
        \/ spender[p].pc = "reward" /\ spender[p].kind = "execute"
    BY <1>t, <1>4 DEF SubmitReward, EnoughToReward, Is, At, Base, CoveredAs
  <2>2. Some(spender[p].base) /\ AtWorst(spender[p].base, takenBack)
    <3>1. Some(spender[p].base)
      BY <1>t, <2>1, Bounds DEF CoveredAs, Some
    <3> QED
      BY <1>t, <3>1, Bounds
  <2>3. Goto(p, "store run") \/ Goto(p, "pay reward")
    BY <1>4 DEF SubmitReward
  <2>4. /\ CoveredAs(spender[p].kind, "store run", spender[p].base, takenBack)
        /\ CoveredAs(spender[p].kind, "pay reward", spender[p].base, takenBack)
    BY <2>2 DEF CoveredAs
  <2> QED
    BY <1>g, <2>3, <2>4 DEF SpenderPc
<1>5. CASE StoreRun(p)
  <2>1. spender[p].pc = "store run" /\ Goto(p, "pay reward")
    BY <1>5 DEF StoreRun, At
  <2>2. CoveredAs(spender[p].kind, "pay reward", spender[p].base, takenBack)
    BY <1>t, <2>1 DEF CoveredAs
  <2> QED
    BY <1>g, <2>1, <2>2 DEF SpenderPc
<1>6. CASE ResumeReward(p) \/ GiveUp(p)
  <2>1. Goto(p, "done")
    BY <1>6 DEF ResumeReward, GiveUp
  <2>2. CoveredAs(spender[p].kind, "done", spender[p].base, takenBack)
    BY <1>t DEF CoveredAs
  <2> QED
    BY <1>g, <2>1, <2>2 DEF SpenderPc
<1> QED
  BY <1>1, <1>2, <1>3, <1>4, <1>5, <1>6 DEF Spend

(* Both charges leave the request covered and the balance above the bound. *)
LEMMA ChargesCovered ==
  ASSUME TypeOK, NEW p \in Spenders, Covered(p), PayMint(p) \/ PayReward(p)
  PROVE  Covered(p)' /\ AtWorst(credits, takenBack)'
<1>t. /\ spender[p].base \in Int /\ takenBack \in Nat
      /\ CoveredAs(spender[p].kind, spender[p].pc, spender[p].base, takenBack)
  BY DEF TypeOK, Covered
<1>g. ASSUME NEW cost \in Nat, NEW pc \in SpenderPc, Charge(p, cost, pc),
             CoveredAs(spender[p].kind, pc, spender[p].base - cost, takenBack)
      PROVE  Covered(p)' /\ AtWorst(credits, takenBack)'
  <2>1. /\ credits' = spender[p].base - cost
        /\ spender'[p].base = spender[p].base - cost
        /\ spender'[p].pc = pc
        /\ spender'[p].kind = spender[p].kind
        /\ UNCHANGED takenBack
    BY <1>g, ChargeSteps
  <2>2. AtWorst(credits, takenBack)'
    BY <1>g, <2>1 DEF CoveredAs
  <2> QED
    BY <1>g, <2>1, <2>2 DEF Covered
<1>c. MintCost \in Nat /\ RewardCost \in Nat
  BY Costs
<1>1. CASE PayMint(p)
  <2>1. spender[p].pc = "pay mint"
    BY <1>1 DEF PayMint, At
  <2>2. /\ AtWorst(spender[p].base - MintCost, takenBack)
        /\ spender[p].kind \in {"mint action", "join", "execute", "event"}
        /\ spender[p].kind = "execute" => Some(spender[p].base - MintCost)
    BY <1>t, <2>1, Bounds DEF CoveredAs
  <2>3. /\ CoveredAs(spender[p].kind, "enroll", spender[p].base - MintCost, takenBack)
        /\ CoveredAs(spender[p].kind, "done", spender[p].base - MintCost, takenBack)
    BY <2>2 DEF CoveredAs
  <2>4. spender[p].kind \notin {"join", "mint action"}
          => CoveredAs(spender[p].kind, "reward", spender[p].base - MintCost, takenBack)
    BY <2>2 DEF CoveredAs
  <2>5. \/ Charge(p, MintCost, "enroll")
        \/ Charge(p, MintCost, "done")
        \/ /\ Charge(p, MintCost, "reward")
           /\ spender[p].kind \notin {"join", "mint action"}
    BY <1>1 DEF PayMint, Is
  <2> QED
    BY <1>g, <1>c, <2>3, <2>4, <2>5 DEF SpenderPc
<1>2. CASE PayReward(p)
  <2>1. spender[p].pc = "pay reward" /\ Charge(p, RewardCost, "done")
    BY <1>2 DEF PayReward, At
  <2>2. AtWorst(spender[p].base - RewardCost, takenBack)
    BY <1>t, <2>1, Bounds DEF CoveredAs
  <2>3. CoveredAs(spender[p].kind, "done", spender[p].base - RewardCost, takenBack)
    BY <2>2 DEF CoveredAs
  <2> QED
    BY <1>g, <1>c, <2>1, <2>3 DEF SpenderPc
<1> QED
  BY <1>1, <1>2

(* A brand never owes the price of a mint, but for what callbacks take     *)
(* back: each request subtracts from the value it has checked itself.      *)
THEOREM OwesLessThanMintAlways == Spec => []OwesLessThanMint
<1>1. Init => AllCovered
  <2> SUFFICES ASSUME Init
               PROVE  AllCovered
    OBVIOUS
  <2>1. /\ credits \in Nat
        /\ 0 \in Int
        /\ \A p \in Spenders : spender[p].pc = "idle" /\ spender[p].base = 0
        /\ \A c \in Callbacks : callback[c].base = 0
    BY CreditsAssumption DEF Init, IdleSpender, IdleCallback
  <2>2. AtWorst(credits, takenBack) /\ AtWorst(0, takenBack)
    BY <2>1, Bounds, CreditsAssumption DEF Init
  <2>3. \A p \in Spenders : CoveredAs(spender[p].kind, "idle", 0, takenBack)
    BY <2>2 DEF CoveredAs
  <2> QED
    BY <2>1, <2>2, <2>3 DEF AllCovered, Covered
<1>2. TypeOK /\ AllCovered /\ [Next]_vars => AllCovered'
  <2> SUFFICES ASSUME TypeOK, AllCovered, [Next]_vars
               PROVE  AllCovered'
    OBVIOUS
  <2> USE CreditsAssumption DEF AllCovered
  <2>t. /\ credits \in Int /\ toppedUp \in Nat /\ takenBack \in Nat
        /\ \A c \in Callbacks : callback[c].base \in Int
        /\ \A p \in Spenders : spender[p].base \in Int
    BY DEF TypeOK
  <2>g. ASSUME takenBack' \in Nat, takenBack' >= takenBack, UNCHANGED spender,
               AtWorst(credits', takenBack'),
               \A d \in Callbacks : callback'[d].base \in {callback[d].base, credits}
        PROVE  AllCovered'
    <3>1. ASSUME NEW p \in Spenders
          PROVE  Covered(p)'
      <4>1. AtWorst(spender[p].base, takenBack')
        BY <2>t, <2>g, TakenBackGrows DEF Covered, CoveredAs
      <4>2. CoveredAs(spender[p].kind, spender[p].pc, spender[p].base, takenBack')
        BY <4>1 DEF Covered, CoveredAs
      <4> QED
        BY <2>g, <4>2 DEF Covered
    <3>2. ASSUME NEW d \in Callbacks
          PROVE  AtWorst(callback'[d].base, takenBack')
      BY <2>t, <2>g, TakenBackGrows
    <3> QED
      BY <2>g, <3>1, <3>2
  <2>1. ASSUME NEW p \in Spenders, Spend(p), ~PayMint(p), ~PayReward(p)
        PROVE  AllCovered'
    <3>1. Covered(p)'
      BY <2>1, SubmitsCovered
    <3>2. \A q \in Spenders \ {p} : Covered(q)'
      BY <2>1, OtherSpending DEF Covered
    <3> QED
      BY <2>1, <3>1, <3>2, OtherSpending
  <2>2. ASSUME NEW p \in Spenders, PayMint(p) \/ PayReward(p)
        PROVE  AllCovered'
    <3>1. PICK cost \in Nat, pc \in SpenderPc : Charge(p, cost, pc)
      BY <2>2, PayIsCharge
    <3>2. /\ \A q \in Spenders \ {p} : spender'[q] = spender[q]
          /\ UNCHANGED <<callback, takenBack>>
      BY <3>1, ChargeSteps
    <3>3. Covered(p)' /\ AtWorst(credits, takenBack)'
      BY <2>2, ChargesCovered
    <3>4. \A q \in Spenders \ {p} : Covered(q)'
      BY <3>2 DEF Covered
    <3> QED
      BY <3>2, <3>3, <3>4
  <2>3. ASSUME NEW c \in Callbacks, CallbackRead(c) \/ CallbackEnd(c)
        PROVE  AllCovered'
    <3>1. /\ UNCHANGED <<spender, credits, takenBack>>
          /\ \A d \in Callbacks : callback'[d].base \in {callback[d].base, credits}
      BY <2>3 DEF CallbackRead, CallbackEnd, Money, TypeOK
    <3> QED
      BY <2>t, <2>g, <3>1
  <2>4. ASSUME NEW c \in Callbacks, NEW amount \in Amounts \cup Reported, CallbackCredit(c, amount)
        PROVE  AllCovered'
    <3>0. amount \in Int
      OBVIOUS
    <3>1. /\ credits' = callback[c].base + amount
          /\ UNCHANGED spender
          /\ \A d \in Callbacks : callback'[d].base = callback[d].base
          /\ Credited(amount)
      BY <2>4 DEF CallbackCredit, Credited, TypeOK
    <3>2. takenBack' \in Nat /\ takenBack' >= takenBack /\ amount + takenBack' >= takenBack
      BY <2>t, <3>0, <3>1, CreditedSums
    <3>3. AtWorst(credits', takenBack')
      BY <2>t, <3>0, <3>1, <3>2, Costs DEF AtWorst
    <3> QED
      BY <2>g, <3>1, <3>2, <3>3
  <2>5. ASSUME NEW amount \in Amounts, StartPayment(amount)
        PROVE  AllCovered'
    <3>0. amount \in Int
      OBVIOUS
    <3>1. /\ credits' = credits + amount
          /\ UNCHANGED <<spender, callback>>
          /\ Credited(amount)
      BY <2>5 DEF StartPayment, Credited
    <3>2. takenBack' \in Nat /\ takenBack' >= takenBack /\ amount + takenBack' >= takenBack
      BY <2>t, <3>0, <3>1, CreditedSums
    <3>3. AtWorst(credits', takenBack')
      BY <2>t, <3>0, <3>1, <3>2, Costs DEF AtWorst
    <3> QED
      BY <2>g, <3>1, <3>2, <3>3
  <2>6. CASE UNCHANGED vars
    BY <2>6 DEF vars, Covered
  <2> QED
    BY <2>1, <2>2, <2>3, <2>4, <2>5, <2>6, StepCases DEF Spend
<1>3. AllCovered => OwesLessThanMint
  BY DEF AllCovered, AtWorst, OwesLessThanMint
<1> QED
  BY <1>1, <1>2, <1>3, CreditsTypeCorrect, PTL DEF Spec

(* Until two writers overlap, every value that somebody will write back is *)
(* the balance as it is.                                                   *)
Exact ==
  ~overlapped =>
    /\ credits = Initially + toppedUp - takenBack - charged
    /\ \A p \in HoldingSpenders : spender[p].base = credits
    /\ \A c \in HoldingCallbacks : callback[c].base = credits

(* As long as no write came between the read and the write of another, the *)
(* balance is what was paid less what was charged.                         *)
THEOREM ExactUnlessOverlappedAlways == Spec => []ExactUnlessOverlapped
<1>1. Init => Exact
  BY CreditsAssumption
  DEF Init, Exact, IdleSpender, IdleCallback, HoldingSpenders, HoldingCallbacks, At
<1>2. TypeOK /\ Exact /\ [Next]_vars => Exact'
  <2> SUFFICES ASSUME TypeOK, Exact, [Next]_vars, ~overlapped'
               PROVE  /\ credits' = Initially + toppedUp' - takenBack' - charged'
                      /\ \A p \in HoldingSpenders' : spender'[p].base = credits'
                      /\ \A c \in HoldingCallbacks' : callback'[c].base = credits'
    BY DEF Exact
  <2> USE CreditsAssumption DEF Exact, HoldingSpenders, HoldingCallbacks, At
  <2>t. credits \in Int /\ toppedUp \in Nat /\ takenBack \in Nat /\ charged \in Nat
    BY DEF TypeOK
  <2>1. ASSUME NEW p \in Spenders, Spend(p), ~PayMint(p), ~PayReward(p)
        PROVE  Exact'
    <3>1. spender[p].pc \in {"idle", "done"} => Begin(p)
      BY <2>1 DEF Spend, SubmitMint, Enroll, SubmitReward, ResumeReward, StoreRun, GiveUp
    <3> QED
      BY <2>1, <3>1, OtherSpending
  <2>2. ASSUME NEW p \in Spenders, PayMint(p) \/ PayReward(p)
        PROVE  Exact'
    <3>1. PICK cost \in Nat, pc \in SpenderPc : Charge(p, cost, pc)
      BY <2>2, PayIsCharge
    <3>2. ~overlapped /\ HoldingSpenders = {p} /\ HoldingCallbacks = {}
      BY <3>1 DEF Charge
    <3>3. credits' = Initially + toppedUp' - takenBack' - charged'
      BY <2>t, <3>1, <3>2, ChargeSteps
    <3>4. \A q \in Spenders \ {p} : spender'[q].pc \in {"idle", "done"}
      BY <3>1, <3>2, ChargeSteps
    <3> QED
      BY <3>1, <3>2, <3>3, <3>4, ChargeSteps
  <2>3. ASSUME NEW c \in Callbacks, CallbackRead(c) \/ CallbackEnd(c)
        PROVE  Exact'
    BY <2>3 DEF CallbackRead, CallbackEnd, Money, TypeOK
  <2>4. ASSUME NEW c \in Callbacks, NEW amount \in Amounts \cup Reported, CallbackCredit(c, amount)
        PROVE  Exact'
    <3>1. ~overlapped /\ HoldingSpenders = {} /\ HoldingCallbacks = {c}
      BY <2>4 DEF CallbackCredit
    <3>0. amount \in Int
      OBVIOUS
    <3>2. /\ credits' = credits + amount
          /\ Credited(amount)
          /\ UNCHANGED <<spender, charged>>
      BY <2>4, <3>1 DEF CallbackCredit, Credited
    <3>4. /\ toppedUp' \in Nat /\ takenBack' \in Nat
          /\ toppedUp' - takenBack' = toppedUp - takenBack + amount
      BY <2>t, <3>0, <3>2, CreditedSums
    <3>5. credits' = Initially + toppedUp' - takenBack' - charged'
      BY <2>t, <3>0, <3>1, <3>2, <3>4
    <3>3. HoldingCallbacks' = {}
      BY <2>4, <3>1 DEF CallbackCredit, TypeOK
    <3> QED
      BY <3>1, <3>2, <3>3, <3>5
  <2>5. ASSUME NEW amount \in Amounts, StartPayment(amount)
        PROVE  Exact'
    <3>1. ~overlapped /\ HoldingSpenders = {} /\ HoldingCallbacks = {}
      BY <2>5 DEF StartPayment
    <3>0. amount \in Int
      OBVIOUS
    <3>2. /\ credits' = credits + amount
          /\ Credited(amount)
          /\ UNCHANGED <<spender, charged, callback>>
      BY <2>5 DEF StartPayment, Credited
    <3>3. /\ toppedUp' \in Nat /\ takenBack' \in Nat
          /\ toppedUp' - takenBack' = toppedUp - takenBack + amount
      BY <2>t, <3>0, <3>2, CreditedSums
    <3>4. credits' = Initially + toppedUp' - takenBack' - charged'
      BY <2>t, <3>0, <3>1, <3>2, <3>3
    <3> QED
      BY <3>1, <3>2, <3>4
  <2>6. CASE UNCHANGED vars
    BY <2>6 DEF vars
  <2> QED
    BY <2>1, <2>2, <2>3, <2>4, <2>5, <2>6, StepCases DEF Spend
<1>3. Exact => ExactUnlessOverlapped
  BY DEF Exact, ExactUnlessOverlapped
<1> QED
  BY <1>1, <1>2, <1>3, CreditsTypeCorrect, PTL DEF Spec
-----------------------------------------------------------------------------
(* Buying credits (TopUp): an authorization names the submission it was    *)
(* made for, and that submission sends it only after it was signed and not *)
(* again after it was paid.                                                *)

\* What is sent with an authorization is sent after it was signed, by the submission
\* it was made for.
SentSigned ==
  \A f \in Flows : flow[f].auth # None =>
    /\ flow[f].auth.nonce = f
    /\ flow[f].pc \notin {"unused", "starting"}
    /\ flow[f].wire # "none" => flow[f].auth \in signed /\ flow[f].pc \in {"paying", "failed"}

\* A submission that paid has had its answer, or it is on its way: it sends nothing more.
Over(x) == \/ x.wire = "ok" /\ x.pc \in {"paying", "failed"}
           \/ x.wire = "none" /\ x.pc = "done"

PaidIsOver == \A i \in DOMAIN topUps : Over(flow[topUps[i].auth.nonce])

\* Nobody pays for a submission twice, or otherwise than it was signed.
PaidOnce ==
  /\ \A i \in DOMAIN topUps :
       /\ topUps[i].auth \in signed
       /\ topUps[i].auth.value = Required(topUps[i].amount)
       /\ topUps[i].time < topUps[i].auth.before
  /\ \A i, j \in DOMAIN topUps : topUps[i].auth.nonce = topUps[j].auth.nonce => i = j

TopUpInv == SentSigned /\ PaidIsOver /\ PaidOnce

LEMMA TopUpStepCases ==
  ASSUME [TopUpNext]_topUpVars
  PROVE  \/ \E f \in Flows :
              \/ \E amount \in Typed : Submit(f, amount)
              \/ Refuse(f) \/ Reselect(f) \/ SelectPortal(f) \/ Require(f)
              \/ Prompt(f) \/ Sign(f) \/ Credit(f) \/ Done(f) \/ Abandon(f)
         \/ LeaveBilling \/ Reload \/ SwitchPortal \/ TopUpTick
         \/ UNCHANGED topUpVars
  BY DEF TopUpNext, TopUpStep

LEMMA RequiredType ==
  ASSUME NEW n \in Nat
  PROVE  Required(n) \in Nat
  BY DEF Required

\* A step of one submission leaves the others alone.
LEMMA OneFlow ==
  ASSUME TopUpTypeOK, NEW f \in Flows,
         \/ \E amount \in Typed : Submit(f, amount)
         \/ Refuse(f) \/ Reselect(f) \/ SelectPortal(f) \/ Require(f)
         \/ Prompt(f) \/ Sign(f) \/ Credit(f) \/ Done(f) \/ Abandon(f)
  PROVE  /\ flow' \in [Flows -> FlowSet]
         /\ flow'[f].pc = "prompt" => flow'[f].auth \in Authorizations
         /\ \A g \in Flows \ {f} : flow'[g] = flow[g]
         /\ billing' \in Flows \cup {None}
<1>1. flow[f] \in FlowSet /\ (flow[f].pc = "prompt" => flow[f].auth \in Authorizations)
  BY DEF TopUpTypeOK
<1>2. billing' \in Flows \cup {None}
  BY DEF Submit, Refuse, Reselect, SelectPortal, Require, Prompt, Sign, Credit, Done, Abandon,
         Released, TopUpTypeOK
<1>3. SUFFICES /\ flow' \in [Flows -> FlowSet]
               /\ flow'[f].pc = "prompt" => flow'[f].auth \in Authorizations
               /\ \A g \in Flows \ {f} : flow'[g] = flow[g]
  BY <1>2
<1>4. ASSUME NEW amount \in Typed, Submit(f, amount)
      PROVE  /\ flow' \in [Flows -> FlowSet]
             /\ flow'[f].pc = "prompt" => flow'[f].auth \in Authorizations
             /\ \A g \in Flows \ {f} : flow'[g] = flow[g]
  <2>1. [Unused EXCEPT !.pc = "starting", !.amount = amount, !.wire = "request"] \in FlowSet
    BY TopUpAssumption DEF Unused, FlowSet
  <2>2. [Unused EXCEPT !.pc = "starting", !.amount = amount, !.wire = "request"].pc = "starting"
    BY DEF Unused
  <2> QED
    BY <1>4, <2>1, <2>2 DEF Submit, TopUpTypeOK
<1>5. CASE Refuse(f)
  BY <1>1, <1>5 DEF Refuse, TopUpTypeOK, FlowSet
<1>6. CASE Reselect(f)
  BY <1>1, <1>6 DEF Reselect, TopUpTypeOK, FlowSet
<1>7. CASE SelectPortal(f)
  BY <1>1, <1>7 DEF SelectPortal, TopUpTypeOK, FlowSet
<1>8. CASE Require(f)
  BY <1>1, <1>8 DEF Require, TopUpTypeOK, FlowSet
<1>9. CASE Prompt(f)
  <2>1. [nonce |-> f, value |-> Required(flow[f].amount), before |-> clock + Timeout]
          \in Authorizations
    <3>1. flow[f].amount \in Nat /\ clock + Timeout \in Nat
      BY <1>1, TopUpAssumption DEF TopUpTypeOK, FlowSet
    <3> QED
      BY <3>1, RequiredType DEF Authorizations
  <2> QED
    BY <1>1, <1>9, <2>1 DEF Prompt, TopUpTypeOK, FlowSet
<1>10. CASE Sign(f)
  BY <1>1, <1>10 DEF Sign, TopUpTypeOK, FlowSet
<1>11. CASE Credit(f)
  <2>1. PICK w \in {"ok", "rejected"} : flow' = [flow EXCEPT ![f].wire = w]
    BY <1>11 DEF Credit
  <2> QED
    BY <1>1, <2>1 DEF TopUpTypeOK, FlowSet
<1>12. CASE Done(f)
  BY <1>1, <1>12 DEF Done, TopUpTypeOK, FlowSet
<1>13. CASE Abandon(f)
  BY <1>1, <1>13 DEF Abandon, TopUpTypeOK, FlowSet
<1> QED
  BY <1>4, <1>5, <1>6, <1>7, <1>8, <1>9, <1>10, <1>11, <1>12, <1>13

(* Every submission, payment and authorization keeps its type.             *)
THEOREM TopUpTypeCorrect == TopUpSpec => []TopUpTypeOK
<1>1. TopUpInit => TopUpTypeOK
  BY TopUpAssumption DEF TopUpInit, TopUpTypeOK, Unused, FlowSet
<1>2. TopUpTypeOK /\ [TopUpNext]_topUpVars => TopUpTypeOK'
  <2> SUFFICES ASSUME TopUpTypeOK, [TopUpNext]_topUpVars
               PROVE  TopUpTypeOK'
    OBVIOUS
  <2>1. ASSUME NEW f \in Flows, NEW amount \in Typed, Submit(f, amount)
        PROVE  TopUpTypeOK'
    BY <2>1, OneFlow DEF Submit, TopUpTypeOK
  <2>2. ASSUME NEW f \in Flows,
               Refuse(f) \/ Reselect(f) \/ SelectPortal(f) \/ Require(f) \/ Prompt(f)
        PROVE  TopUpTypeOK'
    BY <2>2, OneFlow DEF Refuse, Reselect, SelectPortal, Require, Prompt, TopUpTypeOK
  <2>3. ASSUME NEW f \in Flows, Done(f) \/ Abandon(f)
        PROVE  TopUpTypeOK'
    BY <2>3, OneFlow DEF Done, Abandon, TopUpTypeOK
  <2>4. ASSUME NEW f \in Flows, Sign(f)
        PROVE  TopUpTypeOK'
    <3>1. signed' \subseteq Authorizations
      BY <2>4 DEF Sign, TopUpTypeOK, FlowSet
    <3> QED
      BY <2>4, <3>1, OneFlow DEF Sign, TopUpTypeOK
  <2>5. ASSUME NEW f \in Flows, Credit(f)
        PROVE  TopUpTypeOK'
    <3> DEFINE paid == [auth |-> flow[f].auth, amount |-> flow[f].amount, time |-> clock]
    <3>1. paid \in Payments
      BY <2>5, TopUpAssumption DEF Credit, TopUpTypeOK, FlowSet, Payments
    <3>2. topUps' = topUps \/ topUps' = Append(topUps, paid)
      BY <2>5 DEF Credit
    <3> HIDE DEF paid
    <3>3. topUps' \in Seq(Payments)
      BY <3>1, <3>2 DEF TopUpTypeOK
    <3>4. UNCHANGED <<billing, selected, clock, signed, switches>>
      BY <2>5 DEF Credit
    <3> QED
      BY <2>5, <3>3, <3>4, OneFlow DEF TopUpTypeOK
  <2>6. CASE Reload
    <3>1. \A f \in Flows : /\ [flow[f] EXCEPT !.pc = "failed"] \in FlowSet
                           /\ [flow[f] EXCEPT !.pc = "failed"].pc = "failed"
      BY DEF TopUpTypeOK, FlowSet
    <3> QED
      BY <2>6, <3>1 DEF Reload, TopUpTypeOK
  <2>7. CASE LeaveBilling \/ SwitchPortal \/ TopUpTick
    BY <2>7, TopUpAssumption DEF LeaveBilling, SwitchPortal, TopUpTick, TopUpTypeOK
  <2>8. CASE UNCHANGED topUpVars
    BY <2>8 DEF topUpVars, TopUpTypeOK
  <2> QED
    BY <2>1, <2>2, <2>3, <2>4, <2>5, <2>6, <2>7, <2>8, TopUpStepCases
<1> QED
  BY <1>1, <1>2, PTL DEF TopUpSpec

(* An authorization is signed before it is sent, and not sent after it was *)
(* paid.                                                                   *)
THEOREM TopUpInvAlways == TopUpSpec => []TopUpInv
<1>1. TopUpInit => TopUpInv
  BY DEF TopUpInit, TopUpInv, SentSigned, PaidIsOver, PaidOnce, Unused
<1>2. TopUpTypeOK /\ TopUpInv /\ [TopUpNext]_topUpVars => TopUpInv'
  <2> SUFFICES ASSUME TopUpTypeOK, TopUpInv, [TopUpNext]_topUpVars
               PROVE  SentSigned' /\ PaidIsOver' /\ PaidOnce'
    BY DEF TopUpInv
  <2>1. SentSigned /\ PaidIsOver /\ PaidOnce
    BY DEF TopUpInv
  <2>2. \A i \in DOMAIN topUps : topUps[i] \in Payments /\ topUps[i].auth.nonce \in Flows
    <3>1. \A i \in DOMAIN topUps : topUps[i] \in Payments
      BY DEF TopUpTypeOK
    <3> QED
      BY <3>1 DEF Payments, Authorizations
  \* A submission that did not pay yet may go on, and one that did may end.
  <2>3. ASSUME NEW f \in Flows, \A g \in Flows \ {f} : flow'[g] = flow[g],
               topUps' = topUps, signed \subseteq signed', Over(flow[f]) => Over(flow'[f])
        PROVE  PaidIsOver' /\ PaidOnce'
    <3>1. PaidIsOver'
      BY <2>1, <2>2, <2>3 DEF PaidIsOver
    <3>2. PaidOnce'
      BY <2>1, <2>3 DEF PaidOnce
    <3> QED
      BY <3>1, <3>2
  <2>4. ASSUME NEW f \in Flows, NEW amount \in Typed, Submit(f, amount)
        PROVE  SentSigned' /\ PaidIsOver' /\ PaidOnce'
    <3>1. /\ \A g \in Flows \ {f} : flow'[g] = flow[g]
          /\ flow'[f].auth = None /\ ~Over(flow[f])
          /\ UNCHANGED <<topUps, signed>>
      BY <2>4 DEF Submit, Unused, Over, TopUpTypeOK
    <3>2. SentSigned'
      BY <2>1, <3>1 DEF SentSigned
    <3> QED
      BY <2>3, <3>1, <3>2
  <2>5. ASSUME NEW f \in Flows,
               \/ Refuse(f) \/ Reselect(f) \/ SelectPortal(f) \/ Require(f)
               \/ Done(f) \/ Abandon(f)
        PROVE  SentSigned' /\ PaidIsOver' /\ PaidOnce'
    <3>1. /\ \A g \in Flows \ {f} : flow'[g] = flow[g]
          /\ UNCHANGED <<topUps, signed>>
      BY <2>5, OneFlow DEF Refuse, Reselect, SelectPortal, Require, Done, Abandon
    <3>2. Over(flow[f]) => Over(flow'[f])
      BY <2>5 DEF Refuse, Reselect, SelectPortal, Require, Done, Abandon, Alive, Over,
                  TopUpTypeOK, FlowSet
    <3>3. /\ flow'[f].auth = flow[f].auth
          /\ flow[f].pc \notin {"unused", "starting"} =>
               flow'[f].pc \notin {"unused", "starting"}
          /\ flow'[f].wire # "none" => flow[f].wire # "none"
          /\ flow'[f].wire # "none" /\ flow[f].pc \in {"paying", "failed"} =>
               flow'[f].pc \in {"paying", "failed"}
      BY <2>5 DEF Refuse, Reselect, SelectPortal, Require, Done, Abandon, Alive, TopUpTypeOK,
                  FlowSet
    <3>4. SentSigned'
      BY <2>1, <3>1, <3>3 DEF SentSigned
    <3> QED
      BY <2>3, <3>1, <3>2, <3>4
  <2>6. ASSUME NEW f \in Flows, Prompt(f)
        PROVE  SentSigned' /\ PaidIsOver' /\ PaidOnce'
    <3>1. /\ \A g \in Flows \ {f} : flow'[g] = flow[g]
          /\ UNCHANGED <<topUps, signed>>
      BY <2>6, OneFlow DEF Prompt
    <3>2. /\ flow'[f].auth.nonce = f /\ flow'[f].pc = "prompt" /\ flow'[f].wire = "none"
          /\ ~Over(flow[f])
      BY <2>6 DEF Prompt, Over, TopUpTypeOK, FlowSet
    <3>3. SentSigned'
      BY <2>1, <3>1, <3>2 DEF SentSigned
    <3> QED
      BY <2>3, <3>1, <3>2, <3>3
  <2>7. ASSUME NEW f \in Flows, Sign(f)
        PROVE  SentSigned' /\ PaidIsOver' /\ PaidOnce'
    <3>1. /\ \A g \in Flows \ {f} : flow'[g] = flow[g]
          /\ topUps' = topUps /\ signed' = signed \cup {flow[f].auth}
      BY <2>7, OneFlow DEF Sign
    <3>2. flow'[f].auth = flow[f].auth /\ flow'[f].pc = "paying" /\ ~Over(flow[f])
      BY <2>7 DEF Sign, Over, TopUpTypeOK, FlowSet
    <3>3. SentSigned'
      BY <2>1, <3>1, <3>2 DEF SentSigned
    <3> QED
      BY <2>3, <3>1, <3>2, <3>3
  <2>8. ASSUME NEW f \in Flows, Credit(f)
        PROVE  SentSigned' /\ PaidIsOver' /\ PaidOnce'
    <3> DEFINE paid == [auth |-> flow[f].auth, amount |-> flow[f].amount, time |-> clock]
    <3>1. /\ flow[f].auth # None /\ flow[f].wire = "request"
          /\ UNCHANGED signed
          /\ \A g \in Flows \ {f} : flow'[g] = flow[g]
      BY <2>8, OneFlow DEF Credit
    <3>2. /\ flow'[f].auth = flow[f].auth /\ flow'[f].pc = flow[f].pc
          /\ flow'[f].wire = IF Accepts(f) THEN "ok" ELSE "rejected"
      BY <2>8 DEF Credit, TopUpTypeOK, FlowSet
    <3>3. /\ flow[f].auth.nonce = f /\ flow[f].auth \in signed
          /\ flow[f].pc \in {"paying", "failed"}
      BY <2>1, <3>1 DEF SentSigned
    <3>4. SentSigned'
      BY <2>1, <3>1, <3>2, <3>3 DEF SentSigned
    <3>5. CASE Accepts(f)
      <4>1. topUps' = Append(topUps, paid)
        BY <2>8, <3>5 DEF Credit
      <4>2. /\ DOMAIN topUps' = DOMAIN topUps \cup {Len(topUps) + 1}
            /\ topUps'[Len(topUps) + 1] = paid
            /\ \A i \in DOMAIN topUps : topUps'[i] = topUps[i]
        <5> HIDE DEF paid
        <5> QED
          BY <4>1 DEF TopUpTypeOK
      <4>3. \A i \in DOMAIN topUps : topUps[i].auth.nonce # f
        BY <2>1, <3>1 DEF PaidIsOver, Over
      <4>4. Over(flow'[f]) /\ paid.auth.nonce = f
        BY <3>2, <3>3, <3>5 DEF Over
      <4>5. PaidIsOver'
        BY <2>1, <2>2, <3>1, <4>2, <4>3, <4>4 DEF PaidIsOver
      <4>6. /\ paid.auth \in signed
            /\ paid.auth.value = Required(paid.amount)
            /\ paid.time < paid.auth.before
        BY <3>3, <3>5 DEF Accepts
      <4>7. PaidOnce'
        <5> HIDE DEF paid
        <5> QED
          BY <2>1, <3>1, <4>2, <4>3, <4>4, <4>6 DEF PaidOnce
      <4> QED
        BY <3>4, <4>5, <4>7
    <3>6. CASE ~Accepts(f)
      <4>1. topUps' = topUps /\ ~Over(flow[f])
        BY <2>8, <3>1, <3>6 DEF Credit, Over
      <4> QED
        BY <2>3, <3>1, <3>4, <4>1
    <3> QED
      BY <3>5, <3>6
  <2>9. CASE Reload
    <3>1. /\ UNCHANGED <<topUps, signed>>
          /\ \A f \in Flows : \/ flow'[f] = flow[f]
                              \/ /\ flow[f].pc \in {"starting", "prompt", "paying"}
                                 /\ flow'[f].auth = flow[f].auth
                                 /\ flow'[f].wire = flow[f].wire
                                 /\ flow'[f].pc = "failed"
      BY <2>9 DEF Reload, Alive, TopUpTypeOK, FlowSet
    <3>2. SentSigned'
      BY <2>1, <3>1 DEF SentSigned
    <3>3. PaidIsOver'
      BY <2>1, <2>2, <3>1 DEF PaidIsOver, Over
    <3>4. PaidOnce'
      BY <2>1, <3>1 DEF PaidOnce
    <3> QED
      BY <3>2, <3>3, <3>4
  <2>10. CASE LeaveBilling \/ SwitchPortal \/ TopUpTick \/ UNCHANGED topUpVars
    <3>1. UNCHANGED <<flow, topUps, signed>>
      BY <2>10 DEF LeaveBilling, SwitchPortal, TopUpTick, topUpVars
    <3> QED
      BY <2>1, <3>1 DEF SentSigned, PaidIsOver, PaidOnce
  <2> QED
    BY <2>4, <2>5, <2>6, <2>7, <2>8, <2>9, <2>10, TopUpStepCases
<1> QED
  BY <1>1, <1>2, TopUpTypeCorrect, PTL DEF TopUpSpec

(* Every payment is for an authorization the wallet signed, of its value   *)
(* and while it was valid, and none is paid twice, for any number of       *)
(* submissions, amounts and portals selected (brands.ts:1787-2004,         *)
(* api.ts:473-612).                                                        *)
THEOREM PaidAsSignedAlways == TopUpSpec => []PaidAsSigned
<1>1. TopUpInv => PaidAsSigned
  BY DEF TopUpInv, PaidOnce, PaidAsSigned
<1> QED
  BY <1>1, TopUpInvAlways, PTL
-----------------------------------------------------------------------------
(* The two pages that write the nft settings, each from what it loaded.    *)

LEMMA NftStepCases ==
  ASSUME [NftPagesNext]_nftPagesVars
  PROVE  \/ \E r \in Requests :
              \/ OpenAssets(r) \/ ServePacks(r) \/ ServeSettings(r) \/ ShowLoad(r)
              \/ ServeAssets(r) \/ ShowAssets(r)
              \/ CreatePack(r) \/ ServeCreate(r) \/ ShowCreate(r) \/ ShowRefresh(r)
              \/ SetActivePack(r) \/ ServeActivate(r) \/ ShowActivate(r)
              \/ UploadBaseFile(r) \/ UploadLayerFile(r) \/ ServeUpload(r) \/ ShowUpload(r)
              \/ ShowRelist(r)
              \/ FailRead(r) \/ FailRefresh(r) \/ FailWrite(r)
         \/ \E pack \in PackIds : SelectPack(pack)
         \/ FormStep
         \/ UNCHANGED nftPagesVars
  BY DEF NftPagesNext, AssetsStep

LEMMA CallByKind ==
  ASSUME NEW x \in PageCalls
  PROVE  /\ x.kind \in {"idle", "load", "assets", "create", "refresh", "upload", "relist",
                        "activate"}
         /\ x.kind = "idle" => x = NoCall
         /\ x.kind = "load" => x \in LoadCalls
         /\ x.kind = "assets" => x \in AssetCalls
         /\ x.kind = "create" => x \in CreateCalls
         /\ x.kind = "refresh" /\ x.by = "create" => x \in CreatedCalls
         /\ x.kind = "refresh" /\ x.by # "create" => x \in UploadedCalls
         /\ x.kind = "upload" /\ x.by # "gone" => x \in UploadCalls
         /\ x.kind = "upload" /\ x.by = "gone" => x \in GoneUploads
         /\ x.kind = "relist" => x \in RelistCalls
         /\ x.kind = "activate" => x \in ActivateCalls
<1>1. /\ NoCall.kind = "idle"
      /\ \A y \in LoadCalls : y.kind = "load"
      /\ \A y \in AssetCalls : y.kind = "assets"
      /\ \A y \in CreateCalls : y.kind = "create"
      /\ \A y \in CreatedCalls : y.kind = "refresh" /\ y.by = "create"
      /\ \A y \in UploadedCalls : y.kind = "refresh" /\ y.by \in Uploads
      /\ \A y \in UploadCalls : y.kind = "upload" /\ y.by \in Uploads
      /\ \A y \in GoneUploads : y.kind = "upload" /\ y.by = "gone"
      /\ \A y \in RelistCalls : y.kind = "relist"
      /\ \A y \in ActivateCalls : y.kind = "activate"
  BY DEF NoCall, CallsOf, LoadCalls, AssetCalls, CreateCalls, CreatedCalls,
         UploadCalls, GoneUploads, RelistCalls, UploadedCalls, ActivateCalls
<1>2. "create" \notin Uploads /\ "gone" \notin Uploads
  BY DEF Uploads
<1> QED
  BY <1>1, <1>2 DEF PageCalls

LEMMA CallSubsets ==
  /\ NoCall \in PageCalls /\ LoadCalls \subseteq PageCalls /\ AssetCalls \subseteq PageCalls
  /\ CreateCalls \subseteq PageCalls /\ CreatedCalls \subseteq PageCalls
  /\ UploadCalls \subseteq PageCalls /\ GoneUploads \subseteq PageCalls /\ RelistCalls \subseteq PageCalls
  /\ UploadedCalls \subseteq PageCalls /\ ActivateCalls \subseteq PageCalls
  BY DEF PageCalls

\* What a call of the page is when it is begun.
LEMMA CallFields ==
  ASSUME NEW pack \in MaybePack
  PROVE  /\ pack # Null => Call("assets", "effect", pack) \in AssetCalls
         /\ Call("create", "form", Null) \in CreateCalls
         /\ \A copy \in Settings : pack # Null =>
              [Call("activate", "button", pack) EXCEPT !.copy = copy] \in ActivateCalls
         /\ \A kind \in Uploads, copy \in Known : pack # Null =>
              [Call("upload", kind, pack) EXCEPT !.copy = copy] \in UploadCalls
<1>1. pack # Null => Call("assets", "effect", pack) \in AssetCalls
  BY DEF Call, NoCall, AssetCalls, CallsOf, MaybePack, Showable
<1>2. Call("create", "form", Null) \in CreateCalls
  BY DEF Call, NoCall, CreateCalls, CallsOf, MaybePack
<1>3. \A copy \in Settings : pack # Null =>
        [Call("activate", "button", pack) EXCEPT !.copy = copy] \in ActivateCalls
  BY DEF Call, NoCall, ActivateCalls, CallsOf, MaybePack
<1>4. \A kind \in Uploads, copy \in Known : pack # Null =>
        [Call("upload", kind, pack) EXCEPT !.copy = copy] \in UploadCalls
  BY DEF Call, NoCall, UploadCalls, CallsOf, MaybePack
<1> QED
  BY <1>1, <1>2, <1>3, <1>4

LEMMA SelectType ==
  ASSUME NftPagesTypeOK, NEW pack \in MaybePack, NEW rest \in PageSet,
         NEW calls \in [Requests -> PageCalls], Select(pack, rest, calls)
  PROVE  /\ page' \in PageSet /\ request' \in [Requests -> PageCalls]
         /\ crossed' \in BOOLEAN /\ missed' \in BOOLEAN
<1>1. CASE pack = page.selected /\ page' = rest /\ request' = calls
            /\ UNCHANGED <<crossed, missed>>
  BY <1>1 DEF NftPagesTypeOK
<1>2. CASE /\ pack # page.selected /\ pack # Null
           /\ page' = [rest EXCEPT !.selected = pack]
           /\ \E q \in Requests :
                /\ calls[q] = NoCall
                /\ request' = [calls EXCEPT ![q] = Call("assets", "effect", pack)]
           /\ Crossing(calls)
           /\ UNCHANGED missed
  <2>1. page' \in PageSet
    BY <1>2 DEF PageSet
  <2>2. Call("assets", "effect", pack) \in PageCalls
    <3>1. Call("assets", "effect", pack) \in AssetCalls
      BY <1>2, CallFields
    <3> QED
      BY <3>1, CallSubsets
  <2>3. request' \in [Requests -> PageCalls]
    BY <1>2, <2>2
  <2>4. crossed' \in BOOLEAN /\ missed' \in BOOLEAN
    BY <1>2, Zenon DEF Crossing, NftPagesTypeOK
  <2> QED
    BY <2>1, <2>3, <2>4
<1> QED
  BY <1>1, <1>2 DEF Select

LEMMA ClearType ==
  ASSUME NEW rest \in PageSet, NEW calls \in [Requests -> PageCalls], Clear(rest, calls)
  PROVE  /\ page' \in PageSet /\ request' \in [Requests -> PageCalls]
         /\ crossed' \in BOOLEAN /\ missed' \in BOOLEAN
<1>1. page' \in PageSet
  BY DEF Clear, PageSet, MaybePack
<1>2. crossed' \in BOOLEAN /\ missed' \in BOOLEAN
  BY Zenon DEF Clear, Crossing
<1> QED
  BY <1>1, <1>2 DEF Clear

LEMMA SelectionType ==
  ASSUME NftPagesTypeOK, NEW seen \in Seq(PackIds), NEW copy \in Known
  PROVE  Selection(seen, copy) \in MaybePack
<1>1. page.selected \in MaybePack
  BY DEF NftPagesTypeOK, PageSet
<1>2. copy # Null => copy.active \in MaybePack
  BY DEF Known, Settings, MaybePack
<1>3. seen # <<>> => Head(seen) \in MaybePack
  BY DEF MaybePack
<1> QED
  BY <1>1, <1>2, <1>3 DEF Selection, MaybePack

LEMMA EndedType ==
  ASSUME NftPagesTypeOK, NEW r \in Requests
  PROVE  /\ Ended(r) \in [Requests -> PageCalls]
         /\ Ended(r)[r] = NoCall
         /\ \A q \in Requests \ {r} : Ended(r)[q] = request[q]
  BY CallSubsets DEF Ended, NftPagesTypeOK

LEMMA FinishedType ==
  ASSUME NftPagesTypeOK, NEW r \in Requests
  PROVE  /\ Finished(r) \in PageSet
         /\ Finished(r).selected = page.selected /\ Finished(r).shown = page.shown
         /\ Finished(r).copy = page.copy
  BY DEF Finished, NftPagesTypeOK, PageSet

LEMMA LeftType ==
  ASSUME NftPagesTypeOK, NEW r \in Requests
  PROVE  /\ Left(r) \in PageCalls
         /\ Left(r) = NoCall \/ Left(r).by = "gone"
         /\ Left(r).copy \in {Null, request[r].copy}
<1>1. request[r] \in PageCalls
  BY DEF NftPagesTypeOK
<1>2. CASE request[r].kind \in {"create", "upload", "activate"} /\ Waits(r)
  <2>1. Left(r) = [request[r] EXCEPT !.by = "gone"]
    BY <1>2 DEF Left
  <2>2. CASE request[r].kind = "create"
    <3>1. [request[r] EXCEPT !.by = "gone"] \in CreateCalls
      BY <1>1, <2>2, CallByKind DEF CreateCalls, CallsOf
    <3> QED
      BY <2>1, <3>1, CallSubsets DEF CreateCalls, CallsOf
  <2>3. CASE request[r].kind = "upload"
    <3>1. request[r] \in UploadCalls \cup GoneUploads /\ request[r].answer = Null
      BY <1>1, <1>2, <2>3, CallByKind DEF Waits
    <3>2. [request[r] EXCEPT !.by = "gone"] \in GoneUploads
      BY <3>1 DEF UploadCalls, GoneUploads, CallsOf
    <3> QED
      BY <2>1, <3>1, <3>2, CallSubsets DEF UploadCalls, GoneUploads, CallsOf
  <2>4. CASE request[r].kind = "activate"
    <3>1. request[r] \in ActivateCalls
      BY <1>1, <2>4, CallByKind
    <3>2. [request[r] EXCEPT !.by = "gone"] \in ActivateCalls
      BY <3>1 DEF ActivateCalls, CallsOf
    <3> QED
      BY <2>1, <3>1, <3>2, CallSubsets DEF ActivateCalls, CallsOf
  <2> QED
    BY <1>2, <2>2, <2>3, <2>4
<1>3. CASE ~(request[r].kind \in {"create", "upload", "activate"} /\ Waits(r))
  BY <1>3, CallSubsets DEF Left, NoCall
<1> QED
  BY <1>2, <1>3

\* What the assets page keeps.
TabTyped == /\ page \in PageSet
            /\ request \in [Requests -> PageCalls]
            /\ crossed \in BOOLEAN /\ missed \in BOOLEAN
            /\ events \in 0..MaxEvents

LEMMA TabUntyped == NftPagesTypeOK => TabTyped
  BY DEF NftPagesTypeOK, TabTyped

LEMMA CountedType ==
  ASSUME NftPagesTypeOK, Counted \/ UNCHANGED events
  PROVE  events' \in 0..MaxEvents
  BY NftPagesAssumption DEF NftPagesTypeOK, Counted

\* A call of the page that becomes another, answered or asked for the next thing.
LEMMA CallGoesOn ==
  ASSUME NEW x \in PageCalls
  PROVE  /\ \A seen \in Seq(PackIds) : x.kind \in {"load", "refresh"} =>
              [x EXCEPT !.answer = seen] \in PageCalls
         /\ \A copy \in Known : x.kind = "load" =>
              [x EXCEPT !.known = TRUE, !.copy = copy] \in PageCalls
         /\ x.kind = "load" => [x EXCEPT !.known = TRUE] \in PageCalls
         /\ \A shown \in SUBSET Assets : x.kind \in {"assets", "relist"} =>
              [x EXCEPT !.answer = shown] \in PageCalls
         /\ \A pack \in PackIds : x.kind = "create" => [x EXCEPT !.answer = pack] \in PageCalls
         /\ \A asset \in Assets : x.kind = "upload" /\ x.by # "gone" =>
              [x EXCEPT !.answer = asset] \in PageCalls
         /\ x.kind = "activate" => [x EXCEPT !.answer = "ok"] \in PageCalls
         /\ x.kind = "create" /\ x.answer # Null =>
              [x EXCEPT !.kind = "refresh", !.by = "create", !.pack = x.answer, !.answer = Null]
                \in PageCalls
         /\ x.kind = "upload" /\ x.by # "gone" =>
              [x EXCEPT !.kind = "relist", !.answer = Null] \in PageCalls
         /\ x.kind = "relist" =>
              [x EXCEPT !.kind = "refresh", !.pack = Null, !.answer = Null] \in PageCalls
<1>1. ASSUME x.kind = "load"
      PROVE  /\ \A seen \in Seq(PackIds) : [x EXCEPT !.answer = seen] \in LoadCalls
             /\ \A copy \in Known : [x EXCEPT !.known = TRUE, !.copy = copy] \in LoadCalls
             /\ [x EXCEPT !.known = TRUE] \in LoadCalls
  BY <1>1, CallByKind DEF LoadCalls, CallsOf, Listed
<1>2. ASSUME x.kind = "refresh", NEW seen \in Seq(PackIds)
      PROVE  [x EXCEPT !.answer = seen] \in CreatedCalls \cup UploadedCalls
  BY <1>2, CallByKind DEF CreatedCalls, UploadedCalls, CallsOf, Listed
<1>3. ASSUME x.kind \in {"assets", "relist"}, NEW shown \in SUBSET Assets
      PROVE  [x EXCEPT !.answer = shown] \in AssetCalls \cup RelistCalls
  BY <1>3, CallByKind DEF AssetCalls, RelistCalls, CallsOf, Showable
<1>4. ASSUME x.kind = "create"
      PROVE  /\ \A pack \in PackIds : [x EXCEPT !.answer = pack] \in CreateCalls
             /\ x.answer # Null =>
                  [x EXCEPT !.kind = "refresh", !.by = "create", !.pack = x.answer,
                            !.answer = Null] \in CreatedCalls
  BY <1>4, CallByKind DEF CreateCalls, CreatedCalls, CallsOf, MaybePack, Listed
<1>5. ASSUME x.kind = "upload", x.by # "gone"
      PROVE  /\ \A asset \in Assets : [x EXCEPT !.answer = asset] \in UploadCalls
             /\ [x EXCEPT !.kind = "relist", !.answer = Null] \in RelistCalls
  BY <1>5, CallByKind DEF UploadCalls, RelistCalls, CallsOf, Showable
<1>6. ASSUME x.kind = "relist"
      PROVE  [x EXCEPT !.kind = "refresh", !.pack = Null, !.answer = Null] \in UploadedCalls
  BY <1>6, CallByKind DEF RelistCalls, UploadedCalls, CallsOf, Listed
<1>7. ASSUME x.kind = "activate"
      PROVE  [x EXCEPT !.answer = "ok"] \in ActivateCalls
  BY <1>7, CallByKind DEF ActivateCalls, CallsOf
<1> QED
  BY <1>1, <1>2, <1>3, <1>4, <1>5, <1>6, <1>7, CallSubsets

LEMMA StoreType ==
  ASSUME NftPagesTypeOK, NEW contract \in Contracts, NEW active \in MaybePack,
         Store(contract, active)
  PROVE  config' \in Settings
<1>1. config # Null => config.active \in MaybePack
  BY DEF NftPagesTypeOK, Known, Settings, MaybePack
<1> QED
  BY <1>1 DEF Store, Settings, MaybePack

LEMMA AssetsPageTypes ==
  ASSUME NftPagesTypeOK, NEW r \in Requests,
         \/ OpenAssets(r) \/ ServePacks(r) \/ ServeSettings(r) \/ ShowLoad(r)
         \/ ServeAssets(r) \/ ShowAssets(r)
         \/ CreatePack(r) \/ ShowCreate(r) \/ ShowRefresh(r)
         \/ SetActivePack(r) \/ ShowActivate(r)
         \/ UploadBaseFile(r) \/ UploadLayerFile(r) \/ ShowUpload(r) \/ ShowRelist(r)
         \/ FailRead(r) \/ FailRefresh(r) \/ FailWrite(r)
  PROVE  TabTyped'
<1>1. request[r] \in PageCalls /\ page \in PageSet /\ request \in [Requests -> PageCalls]
  BY DEF NftPagesTypeOK
<1>2. events' \in 0..MaxEvents
  BY CountedType DEF OpenAssets, ServePacks, ServeSettings, ShowLoad, ServeAssets, ShowAssets,
     CreatePack, ShowCreate, ShowRefresh, SetActivePack, ShowActivate, UploadBaseFile,
     UploadLayerFile, Upload, ShowUpload, ShowRelist, FailRead, FailRefresh, FailWrite
<1>3. CASE OpenAssets(r)
  <2>1. NewPage \in PageSet
    BY DEF NewPage, PageSet, MaybePack, Known
  <2>2. Load \in PageCalls
    <3>1. Load \in LoadCalls
      BY DEF Load, NoCall, LoadCalls, CallsOf, Known, Listed
    <3> QED
      BY <3>1, CallSubsets
  <2>3. [q \in Requests |-> Left(q)] \in [Requests -> PageCalls]
    BY LeftType
  <2> QED
    BY <1>2, <1>3, <2>1, <2>2, <2>3 DEF OpenAssets, TabTyped
<1>4. CASE ServePacks(r) \/ ServeSettings(r) \/ ServeAssets(r) \/ ShowCreate(r)
  <2>1. config \in Known /\ packs \in Seq(PackIds) /\ AssetsOf(request[r].pack) \in SUBSET Assets
    BY DEF NftPagesTypeOK, AssetsOf
  <2>2. request' \in [Requests -> PageCalls]
    <3>1. CASE ServePacks(r)
      BY <1>1, <2>1, <3>1, CallGoesOn DEF ServePacks, Asks
    <3>2. CASE ServeSettings(r)
      BY <1>1, <2>1, <3>2, CallGoesOn DEF ServeSettings, Asks
    <3>3. CASE ServeAssets(r)
      BY <1>1, <2>1, <3>3, CallGoesOn DEF ServeAssets, Asks
    <3>4. CASE ShowCreate(r)
      BY <1>1, <3>4, CallGoesOn DEF ShowCreate, Asks, Waits
    <3> QED
      BY <1>4, <3>1, <3>2, <3>3, <3>4
  <2> QED
    BY <1>2, <1>4, <2>2 DEF ServePacks, ServeSettings, ServeAssets, ShowCreate, NftPagesTypeOK,
                             TabTyped
<1>5. CASE ShowLoad(r)
  <2>1. request[r].copy \in Known /\ request[r].answer \in Seq(PackIds)
    <3>1. request[r] \in LoadCalls /\ request[r].answer # Null
      BY <1>1, <1>5, CallByKind DEF ShowLoad, Asks, Waits
    <3> QED
      BY <3>1 DEF LoadCalls, CallsOf, Listed
  <2>2. [page EXCEPT !.copy = request[r].copy] \in PageSet
    BY <1>1, <2>1 DEF PageSet
  <2>3. Select(Selection(request[r].answer, request[r].copy),
               [page EXCEPT !.copy = request[r].copy], Ended(r))
    BY <1>5 DEF ShowLoad
  <2> QED
    BY <1>2, <2>1, <2>2, <2>3, SelectionType, SelectType, EndedType DEF TabTyped
<1>6. CASE ShowAssets(r) \/ ShowRelist(r)
  <2>1. request[r].answer \in SUBSET Assets
    <3>1. request[r] \in AssetCalls \cup RelistCalls /\ request[r].answer # Null
      BY <1>1, <1>6, CallByKind DEF ShowAssets, ShowRelist, Asks, Waits
    <3> QED
      BY <3>1 DEF AssetCalls, RelistCalls, CallsOf, Showable
  <2>2. page' \in PageSet
    BY <1>1, <1>6, <2>1 DEF ShowAssets, ShowRelist, PageSet
  <2>3. request' \in [Requests -> PageCalls]
    BY <1>1, <1>6, EndedType, CallGoesOn DEF ShowAssets, ShowRelist, Asks
  <2> QED
    BY <1>2, <1>6, <2>2, <2>3 DEF ShowAssets, ShowRelist, NftPagesTypeOK, TabTyped
<1>7. CASE CreatePack(r)
  <2>1. Call("create", "form", Null) \in PageCalls
    BY CallFields, CallSubsets DEF MaybePack
  <2> QED
    BY <1>1, <1>2, <1>7, <2>1 DEF CreatePack, NftPagesTypeOK, PageSet, TabTyped
<1>8. CASE ShowRefresh(r)
  <2>1. /\ request[r].answer \in Seq(PackIds) /\ request[r].copy \in Known
        /\ request[r].pack \in MaybePack
    <3>1. request[r] \in CreatedCalls \cup UploadedCalls /\ request[r].answer # Null
      BY <1>1, <1>8, CallByKind DEF ShowRefresh, Asks, Waits
    <3> QED
      BY <3>1 DEF CreatedCalls, UploadedCalls, CallsOf, Listed, Known, MaybePack
  <2> DEFINE pack == IF request[r].by = "create" THEN request[r].pack
                     ELSE Selection(request[r].answer, request[r].copy)
  <2>2. pack \in MaybePack
    BY <2>1, SelectionType
  <2>3. Select(pack, Finished(r), Ended(r))
    BY <1>8 DEF ShowRefresh
  <2> HIDE DEF pack
  <2> QED
    BY <1>2, <2>2, <2>3, FinishedType, EndedType, SelectType DEF TabTyped
<1>9. CASE SetActivePack(r)
  <2>1. page.copy \in Settings /\ page.selected \in PackIds
    BY <1>1, <1>9 DEF SetActivePack, CanActivate, PageSet, Known, MaybePack
  <2>2. [Call("activate", "button", page.selected) EXCEPT !.copy = page.copy] \in PageCalls
    BY <2>1, CallFields, CallSubsets, NftPagesAssumption DEF MaybePack
  <2> QED
    BY <1>1, <1>2, <1>9, <2>2 DEF SetActivePack, NftPagesTypeOK, PageSet, TabTyped
<1>10. CASE ShowActivate(r)
  <2>1. request[r] \in ActivateCalls
    BY <1>1, <1>10, CallByKind DEF ShowActivate, Asks
  <2>2. [request[r].copy EXCEPT !.active = request[r].pack] \in Known
    BY <2>1 DEF ActivateCalls, CallsOf, Settings, Known
  <2>3. page' \in PageSet
    BY <1>1, <1>10, <2>2 DEF ShowActivate, PageSet
  <2> QED
    BY <1>2, <1>10, <2>3, EndedType DEF ShowActivate, NftPagesTypeOK, TabTyped
<1>11. CASE UploadBaseFile(r) \/ UploadLayerFile(r)
  <2>1. PICK kind \in Uploads : Upload(r, kind)
    BY <1>11 DEF UploadBaseFile, UploadLayerFile, Uploads
  <2>2. page.selected \in PackIds /\ page.copy \in Known
    BY <1>1, <2>1 DEF Upload, PageSet, MaybePack
  <2>3. [Call("upload", kind, page.selected) EXCEPT !.copy = page.copy] \in PageCalls
    BY <2>2, CallFields, CallSubsets, NftPagesAssumption DEF MaybePack
  <2>4. page' \in PageSet
    BY <1>1, <2>1 DEF Upload, PageSet
  <2>5. crossed' \in BOOLEAN
    BY <2>1, Zenon DEF Upload, Crossing
  <2> QED
    BY <1>1, <1>2, <2>1, <2>3, <2>4, <2>5 DEF Upload, NftPagesTypeOK, TabTyped
<1>12. CASE ShowUpload(r)
  <2>1. request[r] \in UploadCalls /\ request[r].answer # Null
    <3>1. request[r].kind = "upload" /\ request[r].answer # Null
      BY <1>12 DEF ShowUpload, Asks, Waits
    <3>2. request[r] \in UploadCalls \cup GoneUploads
      BY <1>1, <3>1, CallByKind
    <3> QED
      BY <3>1, <3>2 DEF GoneUploads, CallsOf
  <2>2. /\ request[r].answer \in Assets /\ request[r].kind = "upload"
        /\ request[r].by # "gone"
    BY <2>1 DEF UploadCalls, CallsOf, Uploads
  <2>3. page' \in PageSet
    BY <1>1, <1>12, <2>2 DEF ShowUpload, PageSet
  <2>4. request' \in [Requests -> PageCalls]
    BY <1>1, <1>12, <2>2, CallGoesOn DEF ShowUpload
  <2> QED
    BY <1>2, <1>12, <2>3, <2>4 DEF ShowUpload, NftPagesTypeOK, TabTyped
<1>13. CASE FailRead(r)
  <2>1. CASE Clear(page, Ended(r))
    BY <1>1, <1>2, <2>1, EndedType, ClearType DEF TabTyped
  <2>2. CASE /\ request' = Ended(r) /\ missed' = (missed \/ Asks(r, "assets"))
             /\ UNCHANGED <<page, crossed>>
    <3>1. missed' \in BOOLEAN
      BY <2>2, Zenon
    <3> QED
      BY <1>2, <2>2, <3>1, EndedType DEF NftPagesTypeOK, TabTyped
  <2> QED
    BY <1>13, <2>1, <2>2 DEF FailRead
<1>14. CASE FailRefresh(r)
  <2>1. request[r].pack \in MaybePack
    <3>1. request[r] \in CreatedCalls \cup UploadedCalls
      BY <1>1, <1>14, CallByKind DEF FailRefresh, Asks
    <3> QED
      BY <3>1 DEF CreatedCalls, UploadedCalls, CallsOf, MaybePack
  <2>2. \A kept \in {page.shown, {}} : [Finished(r) EXCEPT !.shown = kept] \in PageSet
    BY <1>1, FinishedType DEF PageSet
  <2>3. CASE Clear(Finished(r), Ended(r))
    BY <1>2, <2>3, FinishedType, EndedType, ClearType DEF TabTyped
  <2>4. CASE page' = Finished(r) /\ request' = Ended(r) /\ UNCHANGED <<crossed, missed>>
    BY <1>2, <2>4, FinishedType, EndedType DEF NftPagesTypeOK, TabTyped
  <2>5. ASSUME NEW kept \in {page.shown, {}},
               /\ page' = [Finished(r) EXCEPT !.shown = kept]
               /\ request' = Ended(r)
               /\ missed' = (missed \/ kept # page.shown)
               /\ UNCHANGED crossed
        PROVE  TabTyped'
    <3>1. missed' \in BOOLEAN
      BY <2>5, Zenon
    <3> QED
      BY <1>2, <2>2, <2>5, <3>1, EndedType DEF NftPagesTypeOK, TabTyped
  <2>6. ASSUME NEW kept \in {page.shown, {}},
               Select(request[r].pack, [Finished(r) EXCEPT !.shown = kept], Ended(r))
        PROVE  TabTyped'
    BY <1>2, <2>1, <2>2, <2>6, EndedType, SelectType DEF TabTyped
  <2> QED
    BY <1>14, <2>3, <2>4, <2>5, <2>6 DEF FailRefresh
<1>15. CASE FailWrite(r)
  <2>1. page' \in PageSet
    BY <1>1, <1>15, FinishedType DEF FailWrite, PageSet
  <2>2. missed' \in BOOLEAN
    BY <1>15, Zenon DEF FailWrite
  <2> QED
    BY <1>2, <1>15, <2>1, <2>2, EndedType DEF FailWrite, NftPagesTypeOK, TabTyped
<1> QED
  BY <1>3, <1>4, <1>5, <1>6, <1>7, <1>8, <1>9, <1>10, <1>11, <1>12, <1>13, <1>14, <1>15

(* Every row, and everything the two pages hold, keeps its type.           *)
THEOREM NftPagesTypeCorrect == NftPagesSpec => []NftPagesTypeOK
<1>1. NftPagesInit => NftPagesTypeOK
  <2> SUFFICES ASSUME NftPagesInit PROVE NftPagesTypeOK
    OBVIOUS
  <2>1. /\ config \in Known
        /\ intended \in [contract : Contracts \cup {Null}, active : MaybePack]
    BY DEF NftPagesInit, Known, Settings, MaybePack
  <2>2. page \in PageSet /\ form \in FormSet
    BY DEF NftPagesInit, NewPage, NewForm, PageSet, FormSet, Known, MaybePack
  <2>3. request \in [Requests -> PageCalls]
    <3>1. Load \in LoadCalls
      BY DEF Load, NoCall, LoadCalls, CallsOf, Known, Listed
    <3> QED
      BY <3>1, CallSubsets DEF NftPagesInit
  <2>4. packs \in Seq(PackIds) /\ events \in 0..MaxEvents
    BY NftPagesAssumption DEF NftPagesInit
  <2>5. stored \subseteq Assets /\ IsFiniteSet(stored)
    BY FS_EmptySet DEF NftPagesInit
  <2> QED
    BY <2>1, <2>2, <2>3, <2>4, <2>5 DEF NftPagesInit, NftPagesTypeOK
<1>2. NftPagesTypeOK /\ [NftPagesNext]_nftPagesVars => NftPagesTypeOK'
  <2> SUFFICES ASSUME NftPagesTypeOK, [NftPagesNext]_nftPagesVars
               PROVE  NftPagesTypeOK'
    OBVIOUS
  <2>1. ASSUME NEW r \in Requests,
         \/ OpenAssets(r) \/ ServePacks(r) \/ ServeSettings(r) \/ ShowLoad(r)
         \/ ServeAssets(r) \/ ShowAssets(r)
         \/ CreatePack(r) \/ ShowCreate(r) \/ ShowRefresh(r)
         \/ SetActivePack(r) \/ ShowActivate(r)
         \/ UploadBaseFile(r) \/ UploadLayerFile(r) \/ ShowUpload(r) \/ ShowRelist(r)
         \/ FailRead(r) \/ FailRefresh(r) \/ FailWrite(r)
        PROVE  NftPagesTypeOK'
    <3>1. UNCHANGED <<settings, packs, stored, tabB>>
      BY <2>1 DEF OpenAssets, ServePacks, ServeSettings, ShowLoad, ServeAssets, ShowAssets,
         CreatePack, ShowCreate, ShowRefresh, SetActivePack, ShowActivate, UploadBaseFile,
         UploadLayerFile, Upload, ShowUpload, ShowRelist, FailRead, FailRefresh, FailWrite
    <3>2. TabTyped'
      BY <2>1, AssetsPageTypes
    <3> QED
      BY <3>1, <3>2 DEF NftPagesTypeOK, TabTyped, settings, tabB
  <2>2. ASSUME NEW r \in Requests, ServeCreate(r)
        PROVE  NftPagesTypeOK'
    <3>1. PICK pack \in PackIds : packs' = <<pack>> \o packs /\ request' = Answered(r, pack)
      BY <2>2 DEF ServeCreate
    <3>2. packs' \in Seq(PackIds)
      BY <3>1 DEF NftPagesTypeOK
    <3>3. request' \in [Requests -> PageCalls]
      BY <2>2, <3>1, EndedType, CallGoesOn DEF ServeCreate, Answered, Asks, NftPagesTypeOK
    <3> QED
      BY <2>2, <3>2, <3>3 DEF ServeCreate, NftPagesTypeOK, settings, tabB
  <2>3. ASSUME NEW r \in Requests, ServeActivate(r)
        PROVE  NftPagesTypeOK'
    <3>1. request[r] \in ActivateCalls
      BY <2>3, CallByKind DEF ServeActivate, Asks, NftPagesTypeOK
    <3>2. request[r].copy.contract \in Contracts /\ request[r].pack \in PackIds
      BY <3>1 DEF ActivateCalls, CallsOf, Settings
    <3>3. config' \in Known /\ intended' \in [contract : Contracts \cup {Null}, active : MaybePack]
      BY <2>3, <3>2, StoreType DEF ServeActivate, NftPagesTypeOK, Known, MaybePack
    <3>4. request' \in [Requests -> PageCalls]
      BY <2>3, EndedType, CallGoesOn DEF ServeActivate, Answered, Asks, NftPagesTypeOK
    <3>5. putBack' \in BOOLEAN
      BY <2>3, Zenon DEF ServeActivate
    <3> QED
      BY <2>3, <3>3, <3>4, <3>5 DEF ServeActivate, NftPagesTypeOK, tabB
  <2>4. ASSUME NEW r \in Requests, ServeUpload(r)
        PROVE  NftPagesTypeOK'
    <3> DEFINE asset == <<request[r].pack, Cardinality(stored) + 1>>
    <3>1. stored' = stored \cup {asset} /\ request' = Answered(r, asset)
      BY <2>4 DEF ServeUpload
    <3>2. asset \in Assets
      <4>1. request[r] \in UploadCalls \cup GoneUploads
        BY <2>4, CallByKind DEF ServeUpload, Asks, NftPagesTypeOK
      <4>2. request[r].pack \in PackIds
        BY <4>1 DEF UploadCalls, GoneUploads, CallsOf
      <4>3. Cardinality(stored) \in Nat
        BY FS_CardinalityType DEF NftPagesTypeOK
      <4> QED
        BY <4>2, <4>3 DEF Assets
    <3> HIDE DEF asset
    <3>3. stored' \subseteq Assets /\ IsFiniteSet(stored')
      BY <3>1, <3>2, FS_AddElement DEF NftPagesTypeOK
    <3>4. request' \in [Requests -> PageCalls]
      <4>1. /\ request[r] \in PageCalls /\ request[r].kind = "upload"
            /\ request \in [Requests -> PageCalls]
        BY <2>4 DEF ServeUpload, Asks, NftPagesTypeOK
      <4>2. request[r].by # "gone" => [request[r] EXCEPT !.answer = asset] \in PageCalls
        BY <3>2, <4>1, CallGoesOn
      <4> QED
        BY <3>1, <4>1, <4>2, EndedType DEF Answered
    <3> QED
      BY <2>4, <3>3, <3>4 DEF ServeUpload, NftPagesTypeOK, settings, tabB
  <2>5. ASSUME NEW pack \in PackIds, SelectPack(pack)
        PROVE  NftPagesTypeOK'
    <3>1. /\ page' \in PageSet /\ request' \in [Requests -> PageCalls]
          /\ crossed' \in BOOLEAN /\ missed' \in BOOLEAN
      BY <2>5, SelectType DEF SelectPack, NftPagesTypeOK, MaybePack
    <3> QED
      BY <2>5, <3>1 DEF SelectPack, NftPagesTypeOK, settings, tabB
  <2>6. CASE FormStep
    <3>1. form \in FormSet /\ config \in Known /\ saving \subseteq Saves
      BY DEF NftPagesTypeOK
    <3>2. CASE OpenForm \/ ServeForm \/ ShowForm \/ FailForm \/ FailSave
      <4>1. NewForm \in FormSet
        BY DEF NewForm, FormSet, Known
      <4>2. form' \in FormSet
        BY <3>1, <3>2, <4>1 DEF OpenForm, ServeForm, ShowForm, FailForm, FailSave, FormSet, Known
      <4>3. events' \in 0..MaxEvents
        BY <3>2, CountedType DEF OpenForm, ServeForm, ShowForm, FailForm, FailSave
      <4>4. saving' \subseteq Saves
        BY <3>1, <3>2 DEF OpenForm, ServeForm, ShowForm, FailForm, FailSave
      <4> QED
        BY <3>2, <4>2, <4>3, <4>4 DEF OpenForm, ServeForm, ShowForm, FailForm, FailSave,
                                      NftPagesTypeOK, settings, tabA
    <3>3. ASSUME NEW contract \in Contracts, Save(contract)
          PROVE  NftPagesTypeOK'
      <4>1. Payload(contract) \in Saves
        <5>1. form.copy # Null => form.copy.active \in MaybePack
          BY <3>1 DEF FormSet, Known, Settings, MaybePack
        <5>2. events \in Nat /\ Null \in MaybePack
          BY NftPagesAssumption DEF NftPagesTypeOK, MaybePack
        <5> QED
          BY <5>1, <5>2 DEF Payload, Saves
      <4>2. form' \in FormSet
        BY <3>1, <3>3, <4>1 DEF Save, FormSet
      <4> QED
        BY <3>1, <3>3, <4>1, <4>2, CountedType DEF Save, NftPagesTypeOK, settings, tabA
    <3>4. ASSUME NEW save \in saving, ServeSave(save)
          PROVE  NftPagesTypeOK'
      <4>1. save.contract \in Contracts /\ save.active \in MaybePack
        BY <3>1 DEF Saves
      <4>2. config' \in Known /\ intended' \in [contract : Contracts \cup {Null}, active : MaybePack]
        BY <3>4, <4>1, StoreType DEF ServeSave, NftPagesTypeOK, Known
      <4>3. putBack' \in BOOLEAN
        BY <3>4, Zenon DEF ServeSave
      <4> QED
        BY <3>4, <4>2, <4>3 DEF ServeSave, NftPagesTypeOK, tabA
    <3>5. CASE ShowSave
      <4>1. form.sent \in Saves
        BY <3>1, <3>5 DEF ShowSave, FormSet
      <4>2. form.copy # Null => form.copy.active \in MaybePack
        BY <3>1 DEF FormSet, Known, Settings, MaybePack
      <4>3. form' \in FormSet
        BY <3>1, <3>5, <4>1, <4>2 DEF ShowSave, FormSet, Saves, Known, Settings, MaybePack
      <4> QED
        BY <3>5, <4>3 DEF ShowSave, NftPagesTypeOK, settings, tabA
    <3> QED
      BY <2>6, <3>2, <3>3, <3>4, <3>5 DEF FormStep
  <2>7. CASE UNCHANGED nftPagesVars
    BY <2>7 DEF nftPagesVars, NftPagesTypeOK
  <2> QED
    BY <2>1, <2>2, <2>3, <2>4, <2>5, <2>6, <2>7, NftStepCases
<1> QED
  BY <1>1, <1>2, PTL DEF NftPagesSpec

\* While a brand has no settings, nobody has a copy of them or sends an active pack.
KnownExist ==
  config = Null =>
    /\ page.copy = Null /\ \A r \in Requests : request[r].copy = Null
    /\ form.copy = Null /\ form.read = Null
    /\ form.sent # Null => form.sent \in saving
    /\ \A save \in saving : save.active = Null
    /\ intended = [contract |-> Null, active |-> Null]

SettingsInv == KnownExist /\ SettingsKept

\* Every call is a record with these parts.
LEMMA CallParts ==
  ASSUME NEW x \in PageCalls
  PROVE  x = [kind |-> x.kind, by |-> x.by, pack |-> x.pack, copy |-> x.copy,
              known |-> x.known, answer |-> x.answer]
  BY DEF PageCalls, NoCall, CallsOf, LoadCalls, AssetCalls, CreateCalls, CreatedCalls,
         UploadCalls, GoneUploads, RelistCalls, UploadedCalls, ActivateCalls

LEMMA NoCopyMade ==
  ASSUME NftPagesTypeOK, config = Null, page.copy = Null,
         \A q \in Requests : request[q].copy = Null,
         NEW r \in Requests,
         \/ OpenAssets(r) \/ ServePacks(r) \/ ServeSettings(r) \/ ShowLoad(r)
         \/ ServeAssets(r) \/ ShowAssets(r)
         \/ CreatePack(r) \/ ServeCreate(r) \/ ShowCreate(r) \/ ShowRefresh(r)
         \/ SetActivePack(r) \/ ServeActivate(r) \/ ShowActivate(r)
         \/ UploadBaseFile(r) \/ UploadLayerFile(r) \/ ServeUpload(r) \/ ShowUpload(r)
         \/ ShowRelist(r)
         \/ FailRead(r) \/ FailRefresh(r) \/ FailWrite(r)
  PROVE  /\ page'.copy = Null /\ \A q \in Requests : request'[q].copy = Null
         /\ UNCHANGED <<settings, tabB>>
<1> DEFINE Copyless(calls) == \A q \in Requests : calls[q].copy = Null
<1>1. /\ page \in PageSet /\ request \in [Requests -> PageCalls] /\ request[r] \in PageCalls
      /\ NoCall.copy = Null
  BY DEF NftPagesTypeOK, NoCall
<1>2. Copyless(Ended(r))
  BY <1>1, EndedType
<1>3. ASSUME NEW pack, NEW rest \in PageSet, rest.copy = Null,
             NEW calls \in [Requests -> PageCalls], Copyless(calls), Select(pack, rest, calls)
      PROVE  page'.copy = Null /\ Copyless(request')
  BY <1>3 DEF Select, PageSet, Call, NoCall
<1>4. ASSUME NEW rest \in PageSet, rest.copy = Null, Clear(rest, Ended(r))
      PROVE  page'.copy = Null /\ Copyless(request')
  BY <1>2, <1>4 DEF Clear, PageSet
<1>5. ~ServeActivate(r) /\ ~ShowActivate(r)
  <2>1. request[r].kind # "activate"
    <3>1. request[r] \in ActivateCalls => request[r].copy \in Settings
      BY DEF ActivateCalls, CallsOf
    <3> QED
      BY <1>1, <3>1, CallByKind, NftPagesAssumption
  <2> QED
    BY <2>1 DEF ServeActivate, ShowActivate, Asks
<1>6. UNCHANGED <<settings, tabB>>
  BY <1>5 DEF OpenAssets, ServePacks, ServeSettings, ShowLoad, ServeAssets, ShowAssets, CreatePack,
     ServeCreate, ShowCreate, ShowRefresh, SetActivePack, UploadBaseFile, UploadLayerFile, Upload,
     ServeUpload, ShowUpload, ShowRelist, FailRead, FailRefresh, FailWrite
<1>7. CASE OpenAssets(r)
  <2>1. \A q \in Requests : Left(q).copy = Null
    BY LeftType
  <2> QED
    BY <1>1, <1>6, <1>7, <2>1 DEF OpenAssets, NewPage, Load
<1>8. CASE ServePacks(r) \/ ServeSettings(r) \/ ServeAssets(r) \/ ShowCreate(r) \/ ShowUpload(r)
  <2>1. request'[r].copy = Null /\ \A q \in Requests \ {r} : request'[q] = request[q]
    <3>1. CASE ServePacks(r) \/ ServeAssets(r) \/ ShowCreate(r) \/ ShowUpload(r)
      BY <1>1, <3>1, CallParts DEF ServePacks, ServeAssets, ShowCreate, ShowUpload
    <3>2. CASE ServeSettings(r)
      BY <1>1, <3>2, CallParts DEF ServeSettings
    <3> QED
      BY <1>8, <3>1, <3>2
  <2>2. page'.copy = Null
    BY <1>1, <1>8 DEF ServePacks, ServeSettings, ServeAssets, ShowCreate, ShowUpload, PageSet
  <2> QED
    BY <1>6, <2>1, <2>2
<1>9. CASE ShowLoad(r)
  <2>1. [page EXCEPT !.copy = request[r].copy] \in PageSet
    BY <1>1 DEF PageSet, Known
  <2>2. [page EXCEPT !.copy = request[r].copy].copy = Null
    BY <1>1 DEF PageSet
  <2> QED
    BY <1>2, <1>3, <1>6, <1>9, <2>1, <2>2, EndedType DEF ShowLoad
<1>10. CASE ShowAssets(r) \/ ShowRelist(r)
  <2>1. page'.copy = Null
    BY <1>1, <1>10 DEF ShowAssets, ShowRelist, PageSet
  <2>2. \A q \in Requests : request'[q].copy = Null
    BY <1>1, <1>2, <1>10, CallParts DEF ShowAssets, ShowRelist
  <2> QED
    BY <1>6, <2>1, <2>2
<1>11. CASE CreatePack(r) \/ SetActivePack(r) \/ UploadBaseFile(r) \/ UploadLayerFile(r)
  <2>1. page'.copy = Null
    BY <1>1, <1>11 DEF CreatePack, SetActivePack, UploadBaseFile, UploadLayerFile, Upload, PageSet
  <2>2. request'[r].copy = Null /\ \A q \in Requests \ {r} : request'[q] = request[q]
    <3>1. PICK kind, by, pack : \/ request' = [request EXCEPT ![r] = Call(kind, by, pack)]
                                \/ request' = [request EXCEPT ![r] = [Call(kind, by, pack)
                                                                EXCEPT !.copy = page.copy]]
      BY <1>11 DEF CreatePack, SetActivePack, UploadBaseFile, UploadLayerFile, Upload
    <3> QED
      BY <1>1, <3>1 DEF Call, NoCall
  <2> QED
    BY <1>6, <2>1, <2>2
<1>12. CASE ServeCreate(r) \/ ServeUpload(r)
  <2>1. PICK answer : page' = page /\ request' = Answered(r, answer)
    BY <1>12 DEF ServeCreate, ServeUpload
  <2> QED
    BY <1>1, <1>2, <1>6, <2>1 DEF Answered
<1>13. CASE ShowRefresh(r)
  BY <1>2, <1>3, <1>6, <1>13, FinishedType, EndedType DEF ShowRefresh
<1>14. CASE FailRead(r)
  BY <1>1, <1>2, <1>4, <1>6, <1>14 DEF FailRead
<1>15. CASE FailRefresh(r)
  <2>1. \A kept \in {page.shown, {}} : /\ [Finished(r) EXCEPT !.shown = kept] \in PageSet
                                       /\ [Finished(r) EXCEPT !.shown = kept].copy = Null
    BY <1>1, FinishedType DEF PageSet
  <2>2. CASE Clear(Finished(r), Ended(r))
    BY <1>4, <1>6, <2>2, FinishedType
  <2>3. CASE page' = Finished(r) /\ request' = Ended(r)
    BY <1>2, <1>6, <2>3, FinishedType
  <2>4. ASSUME NEW kept \in {page.shown, {}},
               \/ page' = [Finished(r) EXCEPT !.shown = kept] /\ request' = Ended(r)
               \/ Select(request[r].pack, [Finished(r) EXCEPT !.shown = kept], Ended(r))
        PROVE  page'.copy = Null /\ Copyless(request')
    BY <1>2, <1>3, <2>1, <2>4, EndedType
  <2> QED
    BY <1>6, <1>15, <2>2, <2>3, <2>4 DEF FailRefresh
<1>16. CASE FailWrite(r)
  <2>1. page'.copy = Null
    BY <1>1, <1>16, FinishedType DEF FailWrite, PageSet
  <2> QED
    BY <1>2, <1>6, <1>16, <2>1 DEF FailWrite
<1> QED
  BY <1>5, <1>7, <1>8, <1>9, <1>10, <1>11, <1>12, <1>13, <1>14, <1>15, <1>16

\* Only what the server stores changes the settings.
LEMMA SettingsStored ==
  ASSUME NEW r \in Requests,
         \/ OpenAssets(r) \/ ServePacks(r) \/ ServeSettings(r) \/ ShowLoad(r)
         \/ ServeAssets(r) \/ ShowAssets(r)
         \/ CreatePack(r) \/ ServeCreate(r) \/ ShowCreate(r) \/ ShowRefresh(r)
         \/ SetActivePack(r) \/ ShowActivate(r)
         \/ UploadBaseFile(r) \/ UploadLayerFile(r) \/ ServeUpload(r) \/ ShowUpload(r)
         \/ ShowRelist(r)
         \/ FailRead(r) \/ FailRefresh(r) \/ FailWrite(r)
  PROVE  UNCHANGED settings
  BY DEF OpenAssets, ServePacks, ServeSettings, ShowLoad, ServeAssets, ShowAssets, CreatePack,
     ServeCreate, ShowCreate, ShowRefresh, SetActivePack, ShowActivate, UploadBaseFile,
     UploadLayerFile, Upload, ServeUpload, ShowUpload, ShowRelist, FailRead, FailRefresh, FailWrite

(* While a brand has no settings nobody has a copy of them, and later they *)
(* are what was set last.                                                  *)
THEOREM SettingsInvAlways == NftPagesSpec => []SettingsInv
<1>1. NftPagesInit => SettingsInv
  <2> SUFFICES ASSUME NftPagesInit PROVE KnownExist /\ SettingsKept
    BY DEF SettingsInv
  <2>1. \A r \in Requests : request[r].copy = Null
    BY DEF NftPagesInit, Load, NoCall
  <2> QED
    BY <2>1 DEF NftPagesInit, KnownExist, SettingsKept, NewPage, NewForm
<1>2. NftPagesTypeOK /\ SettingsInv /\ [NftPagesNext]_nftPagesVars => SettingsInv'
  <2> SUFFICES ASSUME NftPagesTypeOK, SettingsInv, [NftPagesNext]_nftPagesVars
               PROVE  KnownExist' /\ SettingsKept'
    BY DEF SettingsInv
  <2>1. KnownExist /\ SettingsKept
    BY DEF SettingsInv
  <2>2. UNCHANGED settings => SettingsKept'
    BY <2>1 DEF SettingsKept, settings
  <2>3. config' \in Settings => KnownExist'
    BY NftPagesAssumption DEF KnownExist
  <2>4. ASSUME NEW r \in Requests,
         \/ OpenAssets(r) \/ ServePacks(r) \/ ServeSettings(r) \/ ShowLoad(r)
         \/ ServeAssets(r) \/ ShowAssets(r)
         \/ CreatePack(r) \/ ServeCreate(r) \/ ShowCreate(r) \/ ShowRefresh(r)
         \/ SetActivePack(r) \/ ShowActivate(r)
         \/ UploadBaseFile(r) \/ UploadLayerFile(r) \/ ServeUpload(r) \/ ShowUpload(r)
         \/ ShowRelist(r)
         \/ FailRead(r) \/ FailRefresh(r) \/ FailWrite(r)
        PROVE  KnownExist' /\ SettingsKept'
    <3>1. UNCHANGED settings
      BY <2>4, SettingsStored
    <3>2. CASE config = Null
      <4>1. page.copy = Null /\ \A q \in Requests : request[q].copy = Null
        BY <2>1, <3>2 DEF KnownExist
      <4>2. /\ page'.copy = Null /\ \A q \in Requests : request'[q].copy = Null
            /\ UNCHANGED tabB
        BY <2>4, <3>2, <4>1, NoCopyMade
      <4> QED
        BY <2>1, <2>2, <3>1, <3>2, <4>2 DEF KnownExist, settings, tabB
    <3>3. CASE config # Null
      BY <2>2, <3>1, <3>3 DEF KnownExist, settings
    <3> QED
      BY <3>2, <3>3
  <2>5. ASSUME NEW r \in Requests, ServeActivate(r)
        PROVE  KnownExist' /\ SettingsKept'
    <3>1. request[r] \in ActivateCalls
      BY <2>5, CallByKind DEF ServeActivate, Asks, NftPagesTypeOK
    <3>2. /\ request[r].copy \in Settings /\ request[r].copy.contract \in Contracts
          /\ request[r].pack \in PackIds
      BY <3>1 DEF ActivateCalls, CallsOf, Settings
    <3>3. config # Null
      BY <2>1, <3>2, NftPagesAssumption DEF KnownExist
    <3>4. config' \in Settings
      BY <2>5, <3>2, StoreType DEF ServeActivate, MaybePack
    <3>5. config' = [contract |-> request[r].copy.contract, active |-> request[r].pack]
      BY <2>5, <3>2, NftPagesAssumption DEF ServeActivate, Store
    <3>6. ASSUME ~putBack'
          PROVE  config' = intended'
      <4>1. ~putBack /\ config.contract = request[r].copy.contract
        BY <2>5, <3>6 DEF ServeActivate
      <4>2. intended = config
        BY <2>1, <3>3, <4>1 DEF SettingsKept
      <4>3. intended' = [intended EXCEPT !.active = request[r].pack]
        BY <2>5 DEF ServeActivate
      <4>4. config \in Settings
        BY <3>3 DEF NftPagesTypeOK, Known
      <4> QED
        BY <3>5, <4>1, <4>2, <4>3, <4>4 DEF Settings
    <3> QED
      BY <2>3, <3>4, <3>6 DEF SettingsKept
  <2>6. ASSUME NEW pack \in PackIds, SelectPack(pack)
        PROVE  KnownExist' /\ SettingsKept'
    <3>1. UNCHANGED <<settings, tabB>>
      BY <2>6 DEF SelectPack
    <3>2. page'.copy = page.copy /\ \A q \in Requests : request'[q].copy \in {Null, request[q].copy}
      <4>1. page \in PageSet /\ request \in [Requests -> PageCalls]
        BY DEF NftPagesTypeOK
      <4>2. PICK q \in Requests :
              /\ page' = [page EXCEPT !.selected = pack]
              /\ request' = [request EXCEPT ![q] = Call("assets", "effect", pack)]
        BY <2>6 DEF SelectPack, Select
      <4>3. Call("assets", "effect", pack).copy = Null
        BY DEF Call, NoCall
      <4> QED
        BY <4>1, <4>2, <4>3 DEF PageSet
    <3> QED
      BY <2>1, <2>2, <3>1, <3>2 DEF KnownExist, settings, tabB
  <2>7. ASSUME NEW save \in saving, ServeSave(save)
        PROVE  KnownExist' /\ SettingsKept'
    <3>1. save.contract \in Contracts /\ save.active \in MaybePack
      BY DEF NftPagesTypeOK, Saves
    <3>2. config' \in Settings
      BY <2>7, <3>1, StoreType DEF ServeSave
    <3>3. intended' = [intended EXCEPT !.contract = save.contract]
      BY <2>7 DEF ServeSave
    <3>4. CASE config = Null
      <4>1. save.active = Null /\ intended = [contract |-> Null, active |-> Null]
        BY <2>1, <3>4 DEF KnownExist
      <4>2. config' = [contract |-> save.contract, active |-> Null]
        BY <2>7, <3>4, <4>1 DEF ServeSave, Store
      <4> QED
        BY <2>3, <3>2, <3>3, <4>1, <4>2 DEF SettingsKept
    <3>5. CASE config # Null
      <4>1. config \in Settings
        BY <3>5 DEF NftPagesTypeOK, Known
      <4>2. ASSUME ~putBack'
            PROVE  config' = intended'
        <5>1. ~putBack /\ (save.active = Null \/ save.active = config.active)
          BY <2>7, <3>5, <4>2 DEF ServeSave
        <5>2. config = intended
          BY <2>1, <3>5, <5>1 DEF SettingsKept
        <5>3. config' = [contract |-> save.contract, active |-> config.active]
          BY <2>7, <3>5, <5>1 DEF ServeSave, Store
        <5> QED
          BY <3>3, <4>1, <5>2, <5>3 DEF Settings
      <4> QED
        BY <2>3, <3>2, <4>2 DEF SettingsKept
    <3> QED
      BY <3>4, <3>5
  <2>8. CASE OpenForm \/ ServeForm \/ ShowForm \/ FailForm \/ ShowSave \/ FailSave
    <3>1. UNCHANGED settings /\ UNCHANGED tabA
      BY <2>8 DEF OpenForm, ServeForm, ShowForm, FailForm, ShowSave, FailSave
    <3>2. ASSUME config = Null
          PROVE  /\ form'.copy = Null /\ form'.read = Null
                 /\ form'.sent # Null => form'.sent \in saving'
                 /\ saving' \subseteq saving
      <4>1. /\ form \in FormSet /\ form.copy = Null /\ form.read = Null
            /\ form.sent # Null => form.sent \in saving
        BY <2>1, <3>2 DEF KnownExist, NftPagesTypeOK
      <4>2. CASE OpenForm
        BY <4>2 DEF OpenForm, NewForm
      <4>3. CASE FailForm
        BY <4>1, <4>3 DEF FailForm, FormSet
      <4>4. CASE FailSave
        BY <4>1, <4>4 DEF FailSave, FormSet
      <4> QED
        BY <2>8, <3>2, <4>1, <4>2, <4>3, <4>4 DEF ServeForm, ShowForm, ShowSave
    <3> QED
      BY <2>1, <2>2, <3>1, <3>2 DEF KnownExist, settings, tabA
  <2>9. ASSUME NEW contract \in Contracts, Save(contract)
        PROVE  KnownExist' /\ SettingsKept'
    <3>1. /\ UNCHANGED settings /\ UNCHANGED tabA
          /\ saving' = saving \cup {Payload(contract)}
          /\ form' = [form EXCEPT !.sent = Payload(contract)]
      BY <2>9 DEF Save
    <3>2. /\ form'.copy = form.copy /\ form'.read = form.read
          /\ form'.sent = Payload(contract)
      BY <3>1 DEF NftPagesTypeOK, FormSet
    <3>3. form.copy = Null => Payload(contract).active = Null
      BY DEF Payload
    <3> QED
      BY <2>1, <2>2, <3>1, <3>2, <3>3 DEF KnownExist, settings, tabA
  <2>10. CASE UNCHANGED nftPagesVars
    BY <2>1, <2>10 DEF nftPagesVars, KnownExist, SettingsKept
  <2> QED
    BY <2>4, <2>5, <2>6, <2>7, <2>8, <2>9, <2>10, NftStepCases DEF FormStep
<1> QED
  BY <1>1, <1>2, NftPagesTypeCorrect, PTL DEF NftPagesSpec

(* Neither tab undoes what the other set, for any numbers of packs,        *)
(* contracts, requests and saves (nft/page.tsx:149-177,                    *)
(* assets/page.tsx:417-443, brands.ts:1182-1206).                          *)
THEOREM SettingsKeptAlways == NftPagesSpec => []SettingsKept
<1>1. SettingsInv => SettingsKept
  BY DEF SettingsInv
<1> QED
  BY <1>1, SettingsInvAlways, PTL

OfAssets(x) == x.kind \in AssetKinds
Gone(x)     == x.by = "gone"

\* What is under way about assets: one request, or only uploads whose page is gone.
Alone == \A q, r \in Requests :
           OfAssets(request[q]) /\ OfAssets(request[r]) /\ ~Gone(request[q]) => q = r

\* It is about the pack that is selected, and answered with what that holds now; while
\* there are uploads of a page that is gone, nothing was selected.
AboutSelected ==
  \A r \in Requests : OfAssets(request[r]) =>
    /\ Gone(request[r]) => page.selected = Null
    /\ ~Gone(request[r]) => request[r].pack = page.selected
    /\ request[r].kind # "upload" /\ request[r].answer # Null =>
         request[r].answer = AssetsOf(request[r].pack)

ShownKept ==
  ~missed /\ (\A r \in Requests : OfAssets(request[r]) => Gone(request[r]))
    => page.shown = AssetsOf(page.selected)

InOrder == ~crossed => Alone /\ AboutSelected /\ ShownKept

LEMMA NothingOfNull == NftPagesTypeOK => AssetsOf(Null) = {}
  BY NftPagesAssumption DEF NftPagesTypeOK, AssetsOf, Assets

\* Requests that end, or are about something else.
LEMMA Narrows ==
  ASSUME InOrder, UNCHANGED <<stored, crossed>>, page'.selected = page.selected,
         \A q \in Requests : request'[q] = request[q] \/ ~OfAssets(request'[q]),
         ~missed' => /\ ~missed /\ page'.shown = page.shown
                     /\ \A q \in Requests : \/ request'[q] = request[q]
                                            \/ ~OfAssets(request[q]) \/ Gone(request[q])
  PROVE  InOrder'
<1> SUFFICES ASSUME ~crossed' PROVE Alone' /\ AboutSelected' /\ ShownKept'
  BY DEF InOrder
<1>1. Alone /\ AboutSelected /\ ShownKept
  BY DEF InOrder
<1>2. Alone'
  BY <1>1 DEF Alone, OfAssets
<1>3. AboutSelected'
  BY <1>1 DEF AboutSelected, OfAssets, AssetsOf
<1>4. ShownKept'
  BY <1>1 DEF ShownKept, OfAssets, AssetsOf
<1> QED
  BY <1>2, <1>3, <1>4

\* A request about assets is begun.
LEMMA Asked ==
  ASSUME NEW calls \in [Requests -> PageCalls], NEW p \in Requests, NEW x, Crossing(calls),
         request' = [calls EXCEPT ![p] = x],
         x.kind \in {"assets", "upload"}, x.by # "gone", x.pack = page'.selected, x.answer = Null
  PROVE  InOrder'
<1> SUFFICES ASSUME ~crossed' PROVE Alone' /\ AboutSelected' /\ ShownKept'
  BY DEF InOrder
<1>1. \A q \in Requests : ~OfAssets(calls[q])
  BY DEF Crossing, OfAssets
<1>2. /\ request'[p] = x /\ OfAssets(x) /\ ~Gone(x)
      /\ \A q \in Requests \ {p} : ~OfAssets(request'[q])
  BY <1>1 DEF OfAssets, AssetKinds, Gone
<1>3. Alone'
  BY <1>2 DEF Alone, OfAssets
<1>4. AboutSelected'
  BY <1>2 DEF AboutSelected, OfAssets, Gone
<1>5. ShownKept'
  BY <1>2 DEF ShownKept, OfAssets, Gone
<1> QED
  BY <1>3, <1>4, <1>5

LEMMA Cleared ==
  ASSUME NftPagesTypeOK, NEW rest \in PageSet, NEW calls, Clear(rest, calls),
         UNCHANGED stored
  PROVE  InOrder'
<1> SUFFICES ASSUME ~crossed' PROVE Alone' /\ AboutSelected' /\ ShownKept'
  BY DEF InOrder
<1>1. \A q \in Requests : ~OfAssets(request'[q])
  BY DEF Clear, Crossing, OfAssets
<1>2. page'.selected = Null /\ page'.shown = {}
  BY DEF Clear, PageSet
<1>3. Alone' /\ AboutSelected'
  BY <1>1 DEF Alone, AboutSelected, OfAssets
<1>4. ShownKept'
  BY <1>2, NothingOfNull DEF ShownKept, AssetsOf
<1> QED
  BY <1>3, <1>4

\* rest is the page as it was but for what it knows and waits for, calls are its
\* requests but for one that is not about assets.
LEMMA Selected ==
  ASSUME NftPagesTypeOK, InOrder, NEW pack, NEW rest \in PageSet,
         NEW calls \in [Requests -> PageCalls], Select(pack, rest, calls), UNCHANGED stored,
         rest.selected = page.selected,
         pack = page.selected => rest.shown = page.shown,
         \A q \in Requests : \/ calls[q] = request[q]
                             \/ ~OfAssets(calls[q]) /\ ~OfAssets(request[q])
  PROVE  InOrder'
<1>1. CASE pack = page.selected /\ page' = rest /\ request' = calls
            /\ UNCHANGED <<crossed, missed>>
  BY <1>1, Narrows
<1>2. CASE /\ pack # page.selected /\ pack # Null
           /\ page' = [rest EXCEPT !.selected = pack]
           /\ \E q \in Requests :
                /\ calls[q] = NoCall
                /\ request' = [calls EXCEPT ![q] = Call("assets", "effect", pack)]
           /\ Crossing(calls)
           /\ UNCHANGED missed
  <2>1. PICK q \in Requests : request' = [calls EXCEPT ![q] = Call("assets", "effect", pack)]
    BY <1>2
  <2> DEFINE x == Call("assets", "effect", pack)
  <2>2. x.kind = "assets" /\ x.by = "effect" /\ x.pack = pack /\ x.answer = Null
    BY DEF Call, NoCall
  <2>3. page'.selected = pack
    BY <1>2 DEF PageSet
  <2>4. request' = [calls EXCEPT ![q] = x]
    BY <2>1
  <2> HIDE DEF x
  <2> QED
    BY <1>2, <2>2, <2>3, <2>4, Asked
<1> QED
  BY <1>1, <1>2 DEF Select

LEMMA NoCallIdle == ~OfAssets(NoCall)
  BY DEF OfAssets, AssetKinds, NoCall

\* What is shown last.
LEMMA ShownLast ==
  ASSUME NftPagesTypeOK, InOrder, NEW r \in Requests,
         OfAssets(request[r]), request[r].kind # "upload", request[r].answer # Null,
         UNCHANGED <<stored, crossed>>,
         page'.selected = page.selected, page'.shown = request[r].answer,
         ~OfAssets(request'[r]), \A q \in Requests \ {r} : request'[q] = request[q]
  PROVE  InOrder'
<1> SUFFICES ASSUME ~crossed' PROVE Alone' /\ AboutSelected' /\ ShownKept'
  BY DEF InOrder
<1>1. Alone /\ AboutSelected
  BY DEF InOrder
<1>2. ~Gone(request[r])
  <2>1. request[r] \in AssetCalls \cup RelistCalls
    BY CallByKind DEF OfAssets, AssetKinds, NftPagesTypeOK
  <2> QED
    BY <2>1 DEF AssetCalls, RelistCalls, CallsOf, Uploads, Gone
<1>3. \A q \in Requests : ~OfAssets(request'[q])
  BY <1>1, <1>2 DEF Alone, OfAssets
<1>4. page'.shown = AssetsOf(page.selected)
  BY <1>1, <1>2 DEF AboutSelected
<1>5. Alone' /\ AboutSelected'
  BY <1>3 DEF Alone, AboutSelected, OfAssets
<1>6. ShownKept'
  BY <1>4 DEF ShownKept, AssetsOf
<1> QED
  BY <1>5, <1>6

(* Unless requests about assets overlapped, the one under way is about the *)
(* pack that is selected and answered with what that holds; when there is  *)
(* none, that is what is shown.                                            *)
THEOREM InOrderAlways == NftPagesSpec => []InOrder
<1>1. NftPagesInit => InOrder
  <2> SUFFICES ASSUME NftPagesInit PROVE Alone /\ AboutSelected /\ ShownKept
    BY DEF InOrder
  <2>1. \A r \in Requests : ~OfAssets(request[r])
    BY DEF NftPagesInit, Load, NoCall, OfAssets, AssetKinds
  <2>2. page.shown = AssetsOf(page.selected)
    BY DEF NftPagesInit, NewPage, AssetsOf
  <2> QED
    BY <2>1, <2>2 DEF Alone, AboutSelected, ShownKept
<1>2. NftPagesTypeOK /\ InOrder /\ [NftPagesNext]_nftPagesVars => InOrder'
  <2> SUFFICES ASSUME NftPagesTypeOK, InOrder, [NftPagesNext]_nftPagesVars
               PROVE  InOrder'
    OBVIOUS
  <2>1. page \in PageSet /\ request \in [Requests -> PageCalls]
    BY DEF NftPagesTypeOK
  <2>2. ASSUME NEW r \in Requests,
               \/ ServePacks(r) \/ ServeSettings(r) \/ CreatePack(r) \/ ServeCreate(r)
               \/ ShowCreate(r) \/ SetActivePack(r) \/ ServeActivate(r) \/ ShowActivate(r)
        PROVE  InOrder'
    <3>1. UNCHANGED <<stored, crossed, missed>> /\ page'.selected = page.selected
          /\ page'.shown = page.shown
      BY <2>1, <2>2 DEF ServePacks, ServeSettings, CreatePack, ServeCreate, ShowCreate,
         SetActivePack, ServeActivate, ShowActivate, PageSet
    <3>2. \A q \in Requests \ {r} : request'[q] = request[q]
      BY <2>1, <2>2, EndedType DEF ServePacks, ServeSettings, CreatePack, ServeCreate, ShowCreate,
         SetActivePack, ServeActivate, ShowActivate, Answered
    <3>3. ~OfAssets(request[r])
      BY <2>2, NoCallIdle DEF ServePacks, ServeSettings, CreatePack, ServeCreate, ShowCreate,
         SetActivePack, ServeActivate, ShowActivate, Asks, OfAssets, AssetKinds
    <3>4. ~OfAssets(request'[r])
      <4>1. CASE ServePacks(r) \/ ServeSettings(r)
        <5>1. CASE ServePacks(r)
          BY <2>1, <3>3, <5>1, CallParts DEF ServePacks, OfAssets
        <5>2. CASE ServeSettings(r)
          <6>1. request' \in {[request EXCEPT ![r].known = TRUE, ![r].copy = config],
                              [request EXCEPT ![r].known = TRUE]}
            BY <5>2 DEF ServeSettings
          <6>2. request'[r].kind = request[r].kind
            BY <2>1, <6>1, CallParts
          <6> QED
            BY <3>3, <6>2 DEF OfAssets
        <5> QED
          BY <4>1, <5>1, <5>2
      <4>2. CASE CreatePack(r) \/ SetActivePack(r)
        <5> DEFINE made == Call("create", "form", Null)
                   sent == [Call("activate", "button", page.selected) EXCEPT !.copy = page.copy]
        <5>1. ~OfAssets(made) /\ ~OfAssets(sent)
          BY DEF Call, NoCall, OfAssets, AssetKinds
        <5>2. request' \in {[request EXCEPT ![r] = made], [request EXCEPT ![r] = sent]}
          BY <4>2 DEF CreatePack, SetActivePack
        <5> HIDE DEF made, sent
        <5> QED
          BY <2>1, <5>1, <5>2
      <4>3. CASE ServeCreate(r) \/ ServeActivate(r)
        <5>1. PICK answer : request' = Answered(r, answer)
          BY <4>3 DEF ServeCreate, ServeActivate
        <5>2. [request[r] EXCEPT !.answer = answer].kind = request[r].kind
          BY <2>1, CallParts
        <5> QED
          BY <2>1, <3>3, <5>1, <5>2, EndedType, NoCallIdle DEF Answered, OfAssets
      <4>4. CASE ShowCreate(r)
        BY <2>1, <4>4, CallParts DEF ShowCreate, OfAssets, AssetKinds
      <4>5. CASE ShowActivate(r)
        BY <4>5, EndedType, NoCallIdle DEF ShowActivate
      <4> QED
        BY <2>2, <4>1, <4>2, <4>3, <4>4, <4>5
    <3> QED
      BY <3>1, <3>2, <3>3, <3>4, Narrows
  <2>3. ASSUME NEW r \in Requests, OpenAssets(r)
        PROVE  InOrder'
    <3>1. \A q \in Requests : OfAssets(request'[q]) =>
                               Gone(request'[q]) /\ request'[q].kind = "upload"
      <4>1. \A q \in Requests : OfAssets(Left(q)) => Gone(Left(q)) /\ Left(q).kind = "upload"
        BY <2>1, NoCallIdle, CallParts DEF Left, OfAssets, AssetKinds, Gone
      <4>2. ~OfAssets(Load)
        BY DEF Load, NoCall, OfAssets, AssetKinds
      <4> QED
        BY <2>3, <4>1, <4>2 DEF OpenAssets
    <3>2. page'.selected = Null /\ page'.shown = {} /\ UNCHANGED stored
      BY <2>3 DEF OpenAssets, NewPage
    <3>3. Alone' /\ AboutSelected'
      BY <3>1, <3>2 DEF Alone, AboutSelected, OfAssets, Gone
    <3>4. ShownKept'
      BY <3>2, NothingOfNull DEF ShownKept, AssetsOf
    <3> QED
      BY <3>3, <3>4 DEF InOrder
  <2>4. ASSUME NEW r \in Requests, ShowLoad(r)
        PROVE  InOrder'
    <3> DEFINE rest == [page EXCEPT !.copy = request[r].copy]
    <3>1. request[r] \in LoadCalls
      BY <2>1, <2>4, CallByKind DEF ShowLoad, Asks
    <3>2. rest \in PageSet /\ rest.selected = page.selected /\ rest.shown = page.shown
      BY <2>1, <3>1 DEF PageSet, LoadCalls, CallsOf
    <3>3. PICK pack : Select(pack, rest, Ended(r)) /\ UNCHANGED stored
      BY <2>4 DEF ShowLoad
    <3>4. ~OfAssets(request[r])
      BY <2>4 DEF ShowLoad, Asks, OfAssets, AssetKinds
    <3> HIDE DEF rest
    <3> QED
      BY <3>2, <3>3, <3>4, EndedType, NoCallIdle, Selected
  <2>5. ASSUME NEW pack \in PackIds, SelectPack(pack)
        PROVE  InOrder'
    BY <2>1, <2>5, Selected DEF SelectPack
  <2>6. ASSUME NEW r \in Requests, ServeAssets(r)
        PROVE  InOrder'
    <3>1. UNCHANGED <<stored, crossed, missed, page>>
          /\ \A q \in Requests \ {r} : request'[q] = request[q]
      BY <2>1, <2>6 DEF ServeAssets
    <3>2. /\ request'[r].kind = request[r].kind /\ request'[r].by = request[r].by
          /\ request'[r].pack = request[r].pack
          /\ request'[r].answer = AssetsOf(request[r].pack)
      BY <2>1, <2>6, CallParts DEF ServeAssets
    <3>3. InOrder <=> (~crossed => Alone /\ AboutSelected /\ ShownKept)
      BY DEF InOrder
    <3>4. Alone => Alone'
      BY <3>1, <3>2 DEF Alone, OfAssets, Gone
    <3>5. AboutSelected => AboutSelected'
      BY <3>1, <3>2 DEF AboutSelected, OfAssets, Gone, AssetsOf
    <3>6. ShownKept => ShownKept'
      BY <3>1, <3>2 DEF ShownKept, OfAssets, Gone, AssetsOf
    <3> QED
      BY <3>1, <3>3, <3>4, <3>5, <3>6 DEF InOrder
  <2>7. ASSUME NEW r \in Requests, ShowAssets(r) \/ ShowRelist(r)
        PROVE  InOrder'
    <3>1. /\ OfAssets(request[r]) /\ request[r].kind # "upload" /\ request[r].answer # Null
          /\ UNCHANGED <<stored, crossed>>
      BY <2>7 DEF ShowAssets, ShowRelist, Asks, Waits, OfAssets, AssetKinds
    <3>2. page'.selected = page.selected /\ page'.shown = request[r].answer
      BY <2>1, <2>7 DEF ShowAssets, ShowRelist, PageSet
    <3>3. /\ ~OfAssets(request'[r])
          /\ \A q \in Requests \ {r} : request'[q] = request[q]
      <4>1. CASE ShowAssets(r)
        BY <4>1, EndedType, NoCallIdle DEF ShowAssets
      <4>2. CASE ShowRelist(r)
        BY <2>1, <4>2, CallParts DEF ShowRelist, OfAssets, AssetKinds
      <4> QED
        BY <2>7, <4>1, <4>2
    <3> QED
      BY <3>1, <3>2, <3>3, ShownLast
  <2>8. ASSUME NEW r \in Requests, ShowRefresh(r)
        PROVE  InOrder'
    <3>1. PICK pack : Select(pack, Finished(r), Ended(r)) /\ UNCHANGED stored
      BY <2>8 DEF ShowRefresh
    <3>2. ~OfAssets(request[r])
      BY <2>8 DEF ShowRefresh, Asks, OfAssets, AssetKinds
    <3> QED
      BY <3>1, <3>2, FinishedType, EndedType, NoCallIdle, Selected
  <2>9. ASSUME NEW r \in Requests, NEW kind \in Uploads, Upload(r, kind)
        PROVE  InOrder'
    <3> DEFINE x == [Call("upload", kind, page.selected) EXCEPT !.copy = page.copy]
    <3>1. /\ x.kind = "upload" /\ x.by = kind /\ x.pack = page.selected /\ x.answer = Null
          /\ kind # "gone"
      BY DEF Call, NoCall, Uploads
    <3>2. Crossing(request) /\ request' = [request EXCEPT ![r] = x]
      BY <2>9 DEF Upload
    <3>3. page'.selected = page.selected
      BY <2>1, <2>9 DEF Upload, PageSet
    <3> HIDE DEF x
    <3> QED
      BY <2>1, <3>1, <3>2, <3>3, Asked
  <2>10. ASSUME NEW r \in Requests, ServeUpload(r)
         PROVE  InOrder'
    <3>1. /\ request[r] \in UploadCalls \cup GoneUploads /\ request[r].kind = "upload"
          /\ OfAssets(request[r]) /\ request[r].answer = Null /\ request[r].pack # Null
      BY <2>1, <2>10, CallByKind, NftPagesAssumption
      DEF ServeUpload, Asks, Waits, OfAssets, AssetKinds, UploadCalls, GoneUploads, CallsOf
    <3>2. PICK asset : /\ asset[1] = request[r].pack
                       /\ stored' = stored \cup {asset} /\ request' = Answered(r, asset)
      BY <2>10 DEF ServeUpload
    <3>3. UNCHANGED <<page, crossed, missed>>
      BY <2>10 DEF ServeUpload
    <3>4. \A pack : pack # request[r].pack => AssetsOf(pack)' = AssetsOf(pack)
      BY <3>2 DEF AssetsOf
    <3>5. \A q \in Requests \ {r} : request'[q] = request[q]
      BY <2>1, <3>2, EndedType DEF Answered
    <3>6. SUFFICES ASSUME Alone, AboutSelected, ShownKept
                   PROVE  Alone' /\ AboutSelected' /\ ShownKept'
      BY <3>3 DEF InOrder
    <3>7. CASE Gone(request[r])
      <4>1. page.selected = Null /\ ~OfAssets(request'[r])
        BY <3>1, <3>2, <3>6, <3>7, EndedType, NoCallIdle DEF AboutSelected, Answered, Gone
      <4>2. \A q \in Requests : OfAssets(request[q]) => Gone(request[q])
        <5> SUFFICES ASSUME NEW q \in Requests, OfAssets(request[q]), ~Gone(request[q])
                     PROVE  FALSE
          OBVIOUS
        <5> QED
          BY <3>1, <3>6, <3>7 DEF Alone
      <4>3. AssetsOf(page.selected)' = AssetsOf(page.selected)
        BY <3>1, <3>3, <3>4, <4>1
      <4>4. \A q \in Requests : OfAssets(request'[q]) =>
                request'[q].kind = "upload" /\ Gone(request'[q])
        <5> SUFFICES ASSUME NEW q \in Requests, OfAssets(request'[q])
                     PROVE  request'[q].kind = "upload" /\ Gone(request'[q])
          OBVIOUS
        <5>1. request'[q] = request[q] /\ request[q] \in PageCalls
          BY <2>1, <3>5, <4>1
        <5>2. Gone(request[q])
          BY <4>2, <5>1
        <5> QED
          BY <5>1, <5>2, CallByKind
          DEF OfAssets, AssetKinds, Gone, AssetCalls, RelistCalls, CallsOf, Uploads
      <4>5. Alone' /\ AboutSelected'
        BY <3>3, <4>1, <4>4 DEF Alone, AboutSelected, OfAssets, Gone
      <4>6. ShownKept'
        BY <3>3, <3>6, <4>2, <4>3 DEF ShownKept
      <4> QED
        BY <4>5, <4>6
    <3>8. CASE ~Gone(request[r])
      <4>1. /\ request'[r].kind = "upload" /\ request'[r].by = request[r].by
            /\ request'[r].pack = request[r].pack
        <5>1. request' = [request EXCEPT ![r].answer = asset]
          BY <3>2, <3>8 DEF Answered, Gone
        <5> QED
          BY <2>1, <3>1, <5>1, CallParts
      <4>2. \A q \in Requests \ {r} : ~OfAssets(request'[q])
        BY <3>1, <3>5, <3>6, <3>8 DEF Alone, OfAssets
      <4>3. OfAssets(request'[r]) /\ ~Gone(request'[r])
        BY <3>8, <4>1 DEF OfAssets, AssetKinds, Gone
      <4>4. Alone'
        BY <4>2 DEF Alone, OfAssets
      <4>5. request[r].pack = page.selected
        BY <3>1, <3>6, <3>8 DEF AboutSelected
      <4>6. AboutSelected'
        BY <3>3, <4>1, <4>2, <4>3, <4>5 DEF AboutSelected, OfAssets, Gone
      <4>7. ShownKept'
        BY <4>3 DEF ShownKept, OfAssets, Gone
      <4> QED
        BY <4>4, <4>6, <4>7
    <3> QED
      BY <3>7, <3>8
  <2>11. ASSUME NEW r \in Requests, ShowUpload(r)
         PROVE  InOrder'
    <3>1. request[r] \in UploadCalls /\ OfAssets(request[r]) /\ ~Gone(request[r])
      <4>1. request[r] \in UploadCalls \cup GoneUploads /\ request[r].kind = "upload"
            /\ request[r].answer # Null
        BY <2>1, <2>11, CallByKind DEF ShowUpload, Asks, Waits
      <4>2. request[r] \in UploadCalls
        BY <4>1 DEF GoneUploads, CallsOf
      <4> QED
        BY <4>1, <4>2 DEF UploadCalls, CallsOf, Uploads, Gone, OfAssets, AssetKinds
    <3>2. /\ page'.selected = page.selected /\ UNCHANGED <<stored, crossed, missed>>
          /\ \A q \in Requests \ {r} : request'[q] = request[q]
      BY <2>1, <2>11 DEF ShowUpload, PageSet
    <3>3. /\ request'[r].kind = "relist" /\ request'[r].by = request[r].by
          /\ request'[r].pack = request[r].pack /\ request'[r].answer = Null
      BY <2>1, <2>11, CallParts DEF ShowUpload
    <3>4. OfAssets(request'[r]) /\ ~Gone(request'[r])
      BY <3>1, <3>3 DEF OfAssets, AssetKinds, Gone
    <3>5. SUFFICES ASSUME Alone, AboutSelected
                   PROVE  Alone' /\ AboutSelected' /\ ShownKept'
      BY <3>2 DEF InOrder
    <3>6. \A q \in Requests \ {r} : ~OfAssets(request'[q])
      BY <3>1, <3>2, <3>5 DEF Alone, OfAssets
    <3>7. request'[r].pack = page'.selected
      BY <3>1, <3>2, <3>3, <3>5 DEF AboutSelected
    <3>8. Alone'
      BY <3>6 DEF Alone, OfAssets
    <3>9. AboutSelected'
      BY <3>3, <3>4, <3>6, <3>7 DEF AboutSelected, OfAssets, Gone
    <3>10. ShownKept'
      BY <3>4 DEF ShownKept, OfAssets, Gone
    <3> QED
      BY <3>8, <3>9, <3>10
  <2>12. ASSUME NEW r \in Requests, FailRead(r)
         PROVE  InOrder'
    <3>1. UNCHANGED stored
      BY <2>12 DEF FailRead
    <3>2. CASE Clear(page, Ended(r))
      BY <2>1, <3>1, <3>2, Cleared
    <3>3. CASE /\ request' = Ended(r) /\ missed' = (missed \/ Asks(r, "assets"))
               /\ UNCHANGED <<page, crossed>>
      <4>1. \A q \in Requests : request'[q] = request[q] \/ ~OfAssets(request'[q])
        BY <3>3, EndedType, NoCallIdle
      <4>2. \A q \in Requests \ {r} : request'[q] = request[q]
        BY <3>3, EndedType
      <4>3. ~missed' => ~missed /\ ~OfAssets(request[r])
        BY <2>12, <3>3 DEF FailRead, Asks, OfAssets, AssetKinds
      <4> QED
        BY <3>1, <3>3, <4>1, <4>2, <4>3, Narrows
    <3> QED
      BY <2>12, <3>2, <3>3 DEF FailRead
  <2>13. ASSUME NEW r \in Requests, FailRefresh(r)
         PROVE  InOrder'
    <3>1. UNCHANGED stored
      BY <2>13 DEF FailRefresh
    <3>2. ~OfAssets(request[r])
      BY <2>13 DEF FailRefresh, Asks, OfAssets, AssetKinds
    <3>3. /\ Ended(r) \in [Requests -> PageCalls]
          /\ \A q \in Requests : \/ Ended(r)[q] = request[q]
                                 \/ ~OfAssets(Ended(r)[q]) /\ ~OfAssets(request[q])
      BY <3>2, EndedType, NoCallIdle
    <3>4. /\ Finished(r) \in PageSet
          /\ Finished(r).selected = page.selected /\ Finished(r).shown = page.shown
      BY FinishedType
    <3>5. CASE Clear(Finished(r), Ended(r))
      BY <3>1, <3>4, <3>5, Cleared
    <3>6. CASE page' = Finished(r) /\ request' = Ended(r) /\ UNCHANGED <<crossed, missed>>
      BY <3>1, <3>3, <3>4, <3>6, Narrows
    <3>7. ASSUME NEW kept \in {page.shown, {}}
          PROVE  LET left == [Finished(r) EXCEPT !.shown = kept]
                 IN left \in PageSet /\ left.selected = page.selected /\ left.shown = kept
      BY <2>1, <3>4 DEF PageSet
    <3>8. ASSUME NEW kept \in {page.shown, {}},
                 page' = [Finished(r) EXCEPT !.shown = kept], request' = Ended(r),
                 missed' = (missed \/ kept # page.shown), UNCHANGED crossed
          PROVE  InOrder'
      <4>1. page'.selected = page.selected /\ page'.shown = kept
        BY <3>7, <3>8
      <4> QED
        BY <3>1, <3>3, <3>8, <4>1, Narrows
    <3>9. ASSUME request[r].pack # page.selected, NEW kept \in {page.shown, {}},
                 Select(request[r].pack, [Finished(r) EXCEPT !.shown = kept], Ended(r))
          PROVE  InOrder'
      <4> DEFINE left == [Finished(r) EXCEPT !.shown = kept]
      <4>1. left \in PageSet /\ left.selected = page.selected
        BY <3>7
      <4>2. Select(request[r].pack, left, Ended(r))
        BY <3>9
      <4> HIDE DEF left
      <4> QED
        BY <3>1, <3>3, <3>9, <4>1, <4>2, Selected
    <3> QED
      <4>1. CASE request[r].by # "create"
        BY <2>13, <3>5, <3>6, <4>1 DEF FailRefresh
      <4>2. CASE request[r].by = "create" /\ request[r].pack = page.selected
        BY <2>13, <3>8, <4>2 DEF FailRefresh
      <4>3. CASE request[r].by = "create" /\ request[r].pack # page.selected
        BY <2>13, <3>9, <4>3 DEF FailRefresh
      <4> QED
        BY <4>1, <4>2, <4>3
  <2>14. ASSUME NEW r \in Requests, FailWrite(r)
         PROVE  InOrder'
    <3>1. /\ UNCHANGED <<stored, crossed>> /\ request' = Ended(r)
          /\ missed' = (missed \/ OfAssets(request[r]))
      BY <2>14 DEF FailWrite, OfAssets
    <3>2. page'.selected = page.selected /\ page'.shown = page.shown
      <4>1. CASE page' = Finished(r)
        BY <4>1, FinishedType
      <4>2. CASE page' \in {[page EXCEPT !.making = FALSE], [page EXCEPT !.activating = FALSE]}
        BY <2>1, <4>2 DEF PageSet
      <4> QED
        BY <2>14, <4>1, <4>2 DEF FailWrite
    <3>3. \A q \in Requests : request'[q] = request[q] \/ ~OfAssets(request'[q])
      BY <3>1, EndedType, NoCallIdle
    <3>4. \A q \in Requests \ {r} : request'[q] = request[q]
      BY <3>1, EndedType
    <3>5. ~missed' => ~missed /\ ~OfAssets(request[r])
      BY <3>1, Zenon
    <3> QED
      BY <3>1, <3>2, <3>3, <3>4, <3>5, Narrows
  <2>15. CASE FormStep \/ UNCHANGED nftPagesVars
    <3>1. UNCHANGED <<stored, tabA>>
      BY <2>15 DEF FormStep, OpenForm, ServeForm, ShowForm, FailForm, Save, ServeSave, ShowSave,
         FailSave, nftPagesVars, tabA
    <3> QED
      BY <3>1, Narrows DEF tabA
  <2> QED
    BY <2>2, <2>3, <2>4, <2>5, <2>6, <2>7, <2>8, <2>9, <2>10, <2>11, <2>12, <2>13, <2>14, <2>15,
       NftStepCases DEF UploadBaseFile, UploadLayerFile, Uploads
<1> QED
  BY <1>1, <1>2, NftPagesTypeCorrect, PTL DEF NftPagesSpec

(* For any numbers of packs, requests and uploads, what is shown when      *)
(* nothing is under way is what the selected pack holds, unless requests   *)
(* about assets overlapped or the last failed (assets/page.tsx:327-379,    *)
(* 445-590).                                                               *)
THEOREM ShownOfSelectedAlways == NftPagesSpec => []ShownOfSelected
<1>1. InOrder => ShownOfSelected
  BY NoCallIdle DEF InOrder, ShownKept, ShownOfSelected
<1> QED
  BY <1>1, InOrderAlways, PTL
=============================================================================
