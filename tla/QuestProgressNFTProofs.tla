----------------------- MODULE QuestProgressNFTProofs -----------------------
(***************************************************************************)
(* Proofs about QuestProgressNFT for every value of its constants.         *)
(***************************************************************************)
EXTENDS QuestProgressNFT, TLAPS, SequenceTheorems, FiniteSetTheorems

P == INSTANCE TargetBaseProofs WITH Calls <- NFTCalls

(* An authorized call is one of four, and verifies its authorization.      *)
LEMMA CallsVerify ==
  ASSUME NEW h, NEW signer, AuthorizedCall(h, signer)
  PROVE  TB!VerifyAuthorization(h, signer)
  BY DEF AuthorizedCall, MintBaseNFT, ApplyResult, SetActiveTraits, SetURIAuth

(* The contract keeps the discipline of TargetBase: its calls are          *)
(* authorized calls of TargetBase, its owner functions and the end of a    *)
(* mint leave the variables of TargetBase alone.                           *)
THEOREM RefinesTargetBase == Spec => ImplementsTargetBase
<1>1. Init => TB!Init
  BY DEF Init
<1>2. [Next]_vars => [TB!Next]_(TB!vars)
  <2> SUFFICES ASSUME [Next]_vars PROVE [TB!Next]_(TB!vars)
    OBVIOUS
  <2>1. ASSUME NEW h \in TB!AuthHashes, NEW k \in Keys, AuthorizedCall(h, k)
        PROVE  TB!Next
    BY <2>1, CallsVerify DEF TB!Next
  <2>2. CASE Administer \/ ChainStep
    BY <2>2 DEF Administer, ChainStep, TB!Next
  <2>3. CASE FinishMint \/ OwnerCall \/ UNCHANGED vars
    BY <2>3 DEF FinishMint, OwnerCall, SetTrait, SetURI, vars, targetVars, TB!vars,
                TB!adminVars, TB!replayVars, TB!outsideVars
  <2>4. QED
    BY <2>1, <2>2, <2>3 DEF Next
<1>3. QED
  BY <1>1, <1>2, PTL DEF Spec, TB!Spec, ImplementsTargetBase


(* TB, the instance the specification is written with, and P, the instance *)
(* the theorems of TargetBaseProofs come with, are the same formulas.      *)
LEMMA SameBase == TB!Spec => P!Spec
<1>1. TB!Init => P!Init
  BY DEF TB!Init, P!Init
<1>2. TB!AuthHashes = P!AuthHashes
  BY DEF TB!AuthHashes, P!AuthHashes
<1>3. ASSUME NEW h, NEW k, TB!VerifyAuthorization(h, k)
      PROVE  P!VerifyAuthorization(h, k)
  BY <1>3 DEF TB!VerifyAuthorization, P!VerifyAuthorization, TB!VerifyImplementation,
              P!VerifyImplementation, TB!adminVars, TB!outsideVars, P!adminVars, P!outsideVars
<1>4. ASSUME [TB!Next]_(TB!vars) PROVE [P!Next]_(P!vars)
  BY <1>2, <1>3, <1>4
     DEF TB!Next, P!Next, TB!vars, P!vars, TB!Administer, P!Administer,
         TB!ChainStep, P!ChainStep, TB!adminVars, TB!replayVars, TB!outsideVars,
         P!adminVars, P!replayVars, P!outsideVars,
         TB!SetDelegatedAccountImplementation, TB!UpdateMasterKey, TB!UpdateRecoveryKey,
         TB!EmergencyResetNonce, TB!AdvanceTime, TB!Delegate,
         P!SetDelegatedAccountImplementation, P!UpdateMasterKey, P!UpdateRecoveryKey,
         P!EmergencyResetNonce, P!AdvanceTime, P!Delegate
<1>5. QED
  BY <1>1, <1>4, PTL DEF TB!Spec, P!Spec

LEMMA BaseAssumption == P!TargetBaseAssumption
  BY NFTAssumption DEF P!TargetBaseAssumption

(* The types of TargetBase hold in the NFT contract.                       *)
LEMMA BaseTypeCorrect == Spec => []TB!TypeOK
<1>1. P!TypeOK => TB!TypeOK
  BY DEF P!TypeOK, TB!TypeOK, P!AuthHashes, TB!AuthHashes, P!LogEntries, TB!LogEntries
<1>2. QED
  BY <1>1, RefinesTargetBase, SameBase, BaseAssumption, P!TypeCorrect, PTL DEF ImplementsTargetBase

(* No authorization of the NFT contract runs twice: the theorem about      *)
(* TargetBase carries over through the refinement.                         *)
THEOREM NFTNoReplay == Spec => []TB!NoReplay
<1>1. P!NoReplay => TB!NoReplay
  BY DEF P!NoReplay, TB!NoReplay
<1>2. QED
  BY <1>1, RefinesTargetBase, SameBase, BaseAssumption, P!NoReplayAlways, PTL DEF ImplementsTargetBase
-----------------------------------------------------------------------------
(* What a call appends to the log.                                         *)
LEMMA CallLogs ==
  ASSUME TB!TypeOK, NEW h \in TB!AuthHashes, NEW k \in Keys, AuthorizedCall(h, k)
  PROVE  /\ Len(log) \in Nat /\ Len(log) < MaxLog
         /\ DOMAIN log = 1..Len(log)
         /\ DOMAIN log' = 1..(Len(log) + 1)
         /\ Len(log') = Len(log) + 1
         /\ \A i \in DOMAIN log : log'[i] = log[i]
         /\ log'[Len(log) + 1].auth = h
<1> DEFINE e == [auth |-> h, signer |-> k, epoch |-> epoch[h.sender]]
<1>1. log' = Append(log, e) /\ Len(log) < MaxLog
  BY CallsVerify DEF TB!VerifyAuthorization
<1>2. log \in Seq(TB!LogEntries) /\ e \in TB!LogEntries
  BY DEF TB!TypeOK, TB!LogEntries, TB!AuthHashes
<1>3. e.auth = h
  OBVIOUS
<1> HIDE DEF e
<1>4. QED
  BY <1>1, <1>2, <1>3

\* Steps that are no authorized call leave the log alone.
LEMMA OtherSteps ==
  ASSUME FinishMint \/ OwnerCall \/ Administer \/ ChainStep \/ UNCHANGED vars
  PROVE  log' = log /\ nextTokenId' = nextTokenId
  BY DEF FinishMint, OwnerCall, SetTrait, SetURI, Administer, ChainStep, vars, targetVars,
         nftVars, TB!Administer, TB!ChainStep, TB!SetDelegatedAccountImplementation,
         TB!UpdateMasterKey, TB!UpdateRecoveryKey, TB!EmergencyResetNonce, TB!AdvanceTime,
         TB!Delegate, TB!replayVars

(* There are at most as many tokens as authorized calls, and at most       *)
(* MaxLog of either: what keeps token ids within Tokens.                   *)
Bounded == /\ Len(log) <= MaxLog
           /\ nextTokenId \in Nat \ {0}
           /\ nextTokenId <= Len(log) + 1

LEMMA BoundedAlways == Spec => []Bounded
<1>1. Init => Bounded
  BY NFTAssumption DEF Init, TB!Init, Bounded
<1>2. TB!TypeOK /\ Bounded /\ [Next]_vars => Bounded'
  <2> SUFFICES ASSUME TB!TypeOK, Bounded, [Next]_vars
               PROVE  Bounded'
    OBVIOUS
  <2>1. ASSUME NEW h \in TB!AuthHashes, NEW k \in Keys, AuthorizedCall(h, k)
        PROVE  Bounded'
    <3>1. Len(log) \in Nat /\ Len(log) < MaxLog /\ Len(log') = Len(log) + 1
      BY <2>1, CallLogs
    <3>2. nextTokenId' \in {nextTokenId, nextTokenId + 1}
      BY <2>1 DEF AuthorizedCall, MintBaseNFT, ApplyResult, SetActiveTraits, SetURIAuth
    <3>3. QED
      BY <3>1, <3>2, NFTAssumption DEF Bounded
  <2>2. CASE FinishMint \/ OwnerCall \/ Administer \/ ChainStep \/ UNCHANGED vars
    BY <2>2, OtherSteps DEF Bounded
  <2>3. QED
    BY <2>1, <2>2 DEF Next
<1>3. QED
  BY <1>1, <1>2, BaseTypeCorrect, PTL DEF Spec
-----------------------------------------------------------------------------
\* The effect of a loop of _setTrait stays within the types.
LEMMA SetTraitsType ==
  ASSUME traits \in [Tokens -> [TraitKeys -> Values]], NEW t \in Tokens,
         NEW u, \A k \in DOMAIN u : k \in TraitKeys => u[k] \in Values, SetTraits(t, u)
  PROVE  traits' \in [Tokens -> [TraitKeys -> Values]]
  BY DEF SetTraits

\* Signed updates and the base traits are functions into Values.
LEMMA UpdateValues ==
  /\ \A u \in Updates : \A k \in DOMAIN u : u[k] \in Values
  /\ \A k \in DOMAIN BaseTraits : BaseTraits[k] \in Values
<1>1. ASSUME NEW u \in Updates, NEW k \in DOMAIN u
      PROVE  u[k] \in Values
  <2>1. PICK S \in SUBSET TraitKeys : u \in [S -> Values]
    BY NFTAssumption
  <2>2. QED
    BY <2>1
<1>2. \A k \in DOMAIN BaseTraits : BaseTraits[k] \in Values
  BY NFTAssumption DEF BaseTraits
<1>3. QED
  BY <1>1, <1>2

\* What a signed call can name.
LEMMA CallTypes ==
  ASSUME NEW h \in TB!AuthHashes
  PROVE  /\ h.call.fn = "mintBaseNFT" => h.call.brand \in Brands
         /\ h.call.fn \in ResultFns =>
              h.call.token \in Tokens /\ h.call.updates \in Updates /\ h.call.brand \in Brands
         /\ h.call.fn = "setActiveTraitsAuth" =>
              h.call.token \in Tokens /\ h.call.updates \in Updates
         /\ h.call.fn \in UriFns => h.call.uri \in URIs
<1>1. h.call \in NFTCalls
  BY DEF TB!AuthHashes
<1>2. QED
  BY <1>1 DEF NFTCalls, MintCalls, ResultCalls, TraitCalls, UriCalls, ResultFns, UriFns

\* The mint that returns is the last of the stack.
LEMMA TopFrame ==
  ASSUME TypeOK, FinishMint
  PROVE  /\ Len(minting) \in DOMAIN minting
         /\ minting[Len(minting)] \in [token : Tokens, brand : Brands, callback : BOOLEAN]
         /\ minting' \in Seq([token : Tokens, brand : Brands, callback : BOOLEAN])
         /\ DOMAIN minting' = 1..(Len(minting) - 1)
         /\ \A i \in DOMAIN minting' : i \in DOMAIN minting /\ minting'[i] = minting[i]
<1> DEFINE F == [token : Tokens, brand : Brands, callback : BOOLEAN]
<1>1. minting \in Seq(F) /\ minting # <<>>
  BY DEF TypeOK, FinishMint
<1>2. Len(minting) \in Nat \ {0} /\ Len(minting) \in DOMAIN minting
  BY <1>1
<1>3. minting' = SubSeq(minting, 1, Len(minting) - 1)
  BY DEF FinishMint
<1> HIDE DEF F
<1>4. minting[Len(minting)] \in F
  BY <1>1, <1>2
<1>5. minting' \in Seq(F) /\ DOMAIN minting' = 1..(Len(minting) - 1)
      /\ \A i \in 1..(Len(minting) - 1) : minting'[i] = minting[i]
  BY <1>1, <1>2, <1>3
<1>6. QED
  BY <1>1, <1>2, <1>4, <1>5 DEF F

(* All variables of the NFT contract stay within their types.              *)
THEOREM NFTTypeCorrect == Spec => []TypeOK
<1> DEFINE F == [token : Tokens, brand : Brands, callback : BOOLEAN]
<1>1. Init /\ TB!TypeOK => TypeOK
  BY NFTAssumption DEF Init, TypeOK, Tokens
<1>2. TypeOK /\ TB!TypeOK' /\ Bounded /\ [Next]_vars => TypeOK'
  <2> SUFFICES ASSUME TypeOK, TB!TypeOK', Bounded, [Next]_vars
               PROVE  TypeOK'
    OBVIOUS
  <2>0. MaxLog \in Nat /\ Len(log) \in 0..MaxLog /\ nextTokenId \in 1..(MaxLog + 1)
    <3>1. Len(log) \in Nat
      BY DEF TypeOK, TB!TypeOK
    <3>2. QED
      BY <3>1, NFTAssumption DEF Bounded
  <2>1. ASSUME NEW h \in TB!AuthHashes, NEW k \in Keys, AuthorizedCall(h, k)
        PROVE  TypeOK'
    <3>0. Len(log) < MaxLog
      BY <2>1, CallLogs DEF TypeOK
    <3>1. ASSUME NEW c \in BOOLEAN, MintBaseNFT(h, k, c) PROVE TypeOK'
      <4>1. nextTokenId \in Tokens
        BY <2>0, <3>0 DEF Bounded, Tokens
      <4>2. [token |-> nextTokenId, brand |-> h.call.brand, callback |-> c] \in F
        BY <3>1, <4>1, CallTypes DEF MintBaseNFT
      <4>3. minting' \in Seq(F)
        BY <3>1, <4>2 DEF MintBaseNFT, TypeOK
      <4>4. nextTokenId' \in 1..(MaxLog + 1)
        BY <3>1, <4>1, <2>0 DEF MintBaseNFT, Tokens
      <4>5. QED
        BY <3>1, <4>3, <4>4 DEF MintBaseNFT, TypeOK
    <3>2. CASE ApplyResult(h, k)
      <4>1. h.call.token \in Tokens /\ h.call.updates \in Updates
        BY <3>2, CallTypes DEF ApplyResult
      <4>2. traits' \in [Tokens -> [TraitKeys -> Values]]
        BY <3>2, <4>1, SetTraitsType, UpdateValues DEF ApplyResult, TypeOK
      <4>3. QED
        BY <3>2, <4>2 DEF ApplyResult, TypeOK
    <3>3. CASE SetActiveTraits(h, k)
      <4>1. h.call.token \in Tokens /\ h.call.updates \in Updates
        BY <3>3, CallTypes DEF SetActiveTraits
      <4>2. traits' \in [Tokens -> [TraitKeys -> Values]]
        BY <3>3, <4>1, SetTraitsType, UpdateValues DEF SetActiveTraits, TypeOK
      <4>3. QED
        BY <3>3, <4>2 DEF SetActiveTraits, TypeOK
    <3>4. CASE SetURIAuth(h, k)
      BY <3>4, CallTypes DEF SetURIAuth, TypeOK
    <3>5. QED
      BY <2>1, <3>1, <3>2, <3>3, <3>4 DEF AuthorizedCall
  <2>2. CASE FinishMint
    <3> DEFINE m == minting[Len(minting)]
    <3>1. m \in F /\ minting' \in Seq(F)
      BY <2>2, TopFrame
    <3>2. m.token \in Tokens /\ m.brand \in Brands
      BY <3>1
    <3> HIDE DEF m
    <3>3. /\ brandIds' = [brandIds EXCEPT ![m.token] = m.brand]
          /\ SetTraits(m.token, BaseTraits)
          /\ mintedAt' = [mintedAt EXCEPT ![m.token] = Len(log)]
          /\ ownerSet' \subseteq ownerSet
          /\ UNCHANGED <<nextTokenId, uris>>
      BY <2>2 DEF FinishMint, m
    <3>4. traits' \in [Tokens -> [TraitKeys -> Values]]
      BY <3>2, <3>3, SetTraitsType, UpdateValues DEF TypeOK
    <3>5. QED
      BY <2>0, <3>1, <3>2, <3>3, <3>4 DEF TypeOK
  <2>3. CASE OwnerCall
    <3>1. ASSUME NEW t \in Tokens, NEW w \in OwnerWrites, SetTrait(t, w[1], w[2])
          PROVE  TypeOK'
      <4>1. w[1] \in TraitKeys /\ w[2] \in Values
        BY NFTAssumption
      <4>2. SetTraits(t, [x \in {w[1]} |-> w[2]])
        BY <3>1 DEF SetTrait
      <4>3. traits' \in [Tokens -> [TraitKeys -> Values]]
        BY <4>1, <4>2, SetTraitsType DEF TypeOK
      <4>4. QED
        BY <3>1, <4>1, <4>3 DEF SetTrait, TypeOK
    <3>2. ASSUME NEW x \in DOMAIN uris, NEW uri \in URIs, SetURI(x, uri)
          PROVE  TypeOK'
      BY <3>2 DEF SetURI, TypeOK
    <3>3. QED
      BY <2>3, <3>1, <3>2 DEF OwnerCall
  <2>4. CASE Administer \/ ChainStep \/ UNCHANGED vars
    BY <2>4 DEF Administer, ChainStep, vars, nftVars, TypeOK
  <2>5. QED
    BY <2>1, <2>2, <2>3, <2>4 DEF Next
<1>3. QED
  BY <1>1, <1>2, BaseTypeCorrect, BoundedAlways, PTL DEF Spec
-----------------------------------------------------------------------------
(* One token for each authorization to mint: only a mint hands out an id,  *)
(* and it hands out one in the step that logs its authorization.           *)
THEOREM OneTokenPerMintAlways == Spec => []OneTokenPerMint
<1>1. Init => OneTokenPerMint
  <2> SUFFICES ASSUME Init PROVE OneTokenPerMint
    OBVIOUS
  <2>1. MintEntries = {} /\ nextTokenId = 1
    BY DEF Init, TB!Init, MintEntries
  <2>2. QED
    BY <2>1, FS_EmptySet DEF OneTokenPerMint
<1>2. TypeOK /\ OneTokenPerMint /\ [Next]_vars => OneTokenPerMint'
  <2> SUFFICES ASSUME TypeOK, OneTokenPerMint, [Next]_vars
               PROVE  OneTokenPerMint'
    OBVIOUS
  <2>1. IsFiniteSet(MintEntries) /\ Cardinality(MintEntries) \in Nat
    <3>1. Len(log) \in Nat /\ MintEntries \subseteq 1..Len(log)
      BY DEF TypeOK, TB!TypeOK, MintEntries
    <3>2. IsFiniteSet(1..Len(log))
      BY <3>1, FS_Interval
    <3>3. QED
      BY <3>1, <3>2, FS_Subset, FS_CardinalityType
  <2>2. ASSUME NEW h \in TB!AuthHashes, NEW k \in Keys, AuthorizedCall(h, k)
        PROVE  OneTokenPerMint'
    <3>1. /\ Len(log) \in Nat
          /\ DOMAIN log = 1..Len(log) /\ DOMAIN log' = 1..(Len(log) + 1)
          /\ \A i \in DOMAIN log : log'[i] = log[i]
          /\ log'[Len(log) + 1].auth = h
      BY <2>2, CallLogs DEF TypeOK
    <3>2. CASE \E c \in BOOLEAN : MintBaseNFT(h, k, c)
      <4>1. h.call.fn = "mintBaseNFT" /\ nextTokenId' = nextTokenId + 1
        BY <3>2 DEF MintBaseNFT
      <4>2. MintEntries' = MintEntries \cup {Len(log) + 1}
        BY <3>1, <4>1 DEF MintEntries
      <4>3. Len(log) + 1 \notin MintEntries
        BY <3>1 DEF MintEntries
      <4>4. Cardinality(MintEntries') = Cardinality(MintEntries) + 1
        BY <2>1, <4>2, <4>3, FS_AddElement
      <4>5. QED
        BY <2>1, <4>1, <4>4 DEF OneTokenPerMint, TypeOK
    <3>3. CASE ApplyResult(h, k) \/ SetActiveTraits(h, k) \/ SetURIAuth(h, k)
      <4>1. h.call.fn # "mintBaseNFT" /\ nextTokenId' = nextTokenId
        BY <3>3 DEF ApplyResult, SetActiveTraits, SetURIAuth, ResultFns, UriFns
      <4>2. MintEntries' = MintEntries
        BY <3>1, <4>1 DEF MintEntries
      <4>3. QED
        BY <4>1, <4>2 DEF OneTokenPerMint
    <3>4. QED
      BY <2>2, <3>2, <3>3 DEF AuthorizedCall
  <2>3. CASE FinishMint \/ OwnerCall \/ Administer \/ ChainStep \/ UNCHANGED vars
    <3>1. log' = log /\ nextTokenId' = nextTokenId
      BY <2>3, OtherSteps
    <3>2. QED
      BY <3>1 DEF OneTokenPerMint, MintEntries
  <2>4. QED
    BY <2>2, <2>3 DEF Next
<1>3. QED
  BY <1>1, <1>2, NFTTypeCorrect, PTL DEF Spec
-----------------------------------------------------------------------------
(* Ids that were not handed out are untouched; with MintStack this is      *)
(* inductive, because a mint pushes an id that nothing names yet.          *)
FreshIds == \A t \in Tokens : ~Exists(t) => brandIds[t] = NoBrand /\ ~Minted(t)

THEOREM MintStackAlways == Spec => [](MintStack /\ FreshIds)
<1>1. Init => MintStack /\ FreshIds
  BY DEF Init, MintStack, FreshIds, Minted, Tokens
<1>2. TypeOK /\ Bounded /\ MintStack /\ FreshIds /\ [Next]_vars => (MintStack /\ FreshIds)'
  <2> SUFFICES ASSUME TypeOK, Bounded, MintStack, FreshIds, [Next]_vars
               PROVE  (MintStack /\ FreshIds)'
    OBVIOUS
  <2>0. /\ nextTokenId \in Nat /\ Tokens \subseteq Nat
        /\ \A i \in DOMAIN minting : minting[i].token \in Tokens
    <3>1. \A i \in DOMAIN minting : minting[i].token \in Tokens
      <4> DEFINE F == [token : Tokens, brand : Brands, callback : BOOLEAN]
      <4>1. minting \in Seq(F)
        BY DEF TypeOK
      <4>2. \A m \in F : m.token \in Tokens
        OBVIOUS
      <4> HIDE DEF F
      <4>3. QED
        BY <4>1, <4>2
    <3>2. nextTokenId \in Nat
      BY DEF TypeOK
    <3>3. Tokens \subseteq Nat
      BY DEF Tokens
    <3>4. QED
      BY <3>1, <3>2, <3>3
  <2>1. ASSUME NEW h \in TB!AuthHashes, NEW k \in Keys, NEW c \in BOOLEAN,
               MintBaseNFT(h, k, c)
        PROVE  (MintStack /\ FreshIds)'
    <3> DEFINE F == [token : Tokens, brand : Brands, callback : BOOLEAN]
               m == [token |-> nextTokenId, brand |-> h.call.brand, callback |-> c]
    <3>1. /\ minting' = Append(minting, m)
          /\ nextTokenId' = nextTokenId + 1
          /\ UNCHANGED <<brandIds, mintedAt>>
      BY <2>1 DEF MintBaseNFT
    <3>2. minting \in Seq(F) /\ m.token = nextTokenId
      BY DEF TypeOK
    <3> HIDE DEF F, m
    <3>3. /\ Len(minting) \in Nat /\ DOMAIN minting = 1..Len(minting)
          /\ DOMAIN minting' = 1..(Len(minting) + 1)
          /\ \A i \in DOMAIN minting : minting'[i] = minting[i]
          /\ minting'[Len(minting) + 1] = m
      BY <3>1, <3>2
    <3>4. nextTokenId \in Tokens
      <4>1. Len(log) < MaxLog /\ Len(log) \in Nat
        BY <2>1, CallLogs DEF TypeOK, AuthorizedCall
      <4>2. QED
        BY <4>1, NFTAssumption DEF Bounded, Tokens
    <3>5. ~Exists(nextTokenId) /\ \A i \in DOMAIN minting : minting[i].token # nextTokenId
      BY <2>0 DEF Exists, MintStack
    <3>6. MintStack'
      <4>1. ASSUME NEW i \in DOMAIN minting'
            PROVE  /\ minting'[i].token < nextTokenId'
                   /\ brandIds[minting'[i].token] = NoBrand
                   /\ ~(mintedAt[minting'[i].token] > 0)
        <5>1. CASE i \in DOMAIN minting
          <6> DEFINE t == minting[i].token
          <6>1. t < nextTokenId /\ brandIds[t] = NoBrand /\ ~(mintedAt[t] > 0)
            BY <5>1 DEF MintStack, Exists, Minted
          <6>2. t \in Nat /\ minting'[i].token = t
            BY <5>1, <2>0, <3>3
          <6> HIDE DEF t
          <6>3. t < nextTokenId'
            BY <6>1, <6>2, <2>0, <3>1
          <6>4. QED
            BY <6>1, <6>2, <6>3
        <5>2. CASE i = Len(minting) + 1
          <6>1. minting'[i].token = nextTokenId
            BY <5>2, <3>2, <3>3
          <6>2. QED
            BY <6>1, <2>0, <3>1, <3>4, <3>5 DEF FreshIds, Minted
        <5>3. QED
          BY <5>1, <5>2, <3>3
      <4>2. ASSUME NEW i \in DOMAIN minting', NEW j \in DOMAIN minting',
                   minting'[j].token = minting'[i].token
            PROVE  j = i
        BY <4>2, <3>2, <3>3, <3>5 DEF MintStack
      <4>3. QED
        BY <4>1, <4>2, <3>1 DEF MintStack, Exists, Minted
    <3>7. FreshIds'
      <4>1. \A t \in Tokens : ~(t < nextTokenId') => ~(t < nextTokenId)
        BY <2>0, <3>1
      <4>2. QED
        BY <4>1, <3>1 DEF FreshIds, Exists, Minted
    <3>8. QED
      BY <3>6, <3>7
  <2>2. CASE FinishMint
    <3> DEFINE m == minting[Len(minting)]
    <3>1. /\ Len(minting) \in DOMAIN minting
          /\ m.token \in Tokens
          /\ DOMAIN minting' = 1..(Len(minting) - 1)
          /\ \A i \in DOMAIN minting' : i \in DOMAIN minting /\ minting'[i] = minting[i]
      BY <2>2, TopFrame
    <3>2. Exists(m.token)
      BY <3>1 DEF MintStack
    <3>3. \A i \in DOMAIN minting' : minting[i].token # m.token
      <4>1. \A i \in DOMAIN minting' : i # Len(minting)
        BY <3>1
      <4>2. QED
        BY <3>1, <4>1 DEF MintStack
    <3> HIDE DEF m
    <3>4. /\ brandIds' = [brandIds EXCEPT ![m.token] = m.brand]
          /\ mintedAt' = [mintedAt EXCEPT ![m.token] = Len(log)]
          /\ nextTokenId' = nextTokenId
      BY <2>2 DEF FinishMint, m
    <3>5. \A t \in Tokens \ {m.token} : brandIds'[t] = brandIds[t] /\ mintedAt'[t] = mintedAt[t]
      BY <3>4 DEF TypeOK
    <3>6. MintStack'
      BY <2>0, <3>1, <3>3, <3>4, <3>5 DEF MintStack, Exists, Minted
    <3>7. FreshIds'
      BY <3>2, <3>4, <3>5 DEF FreshIds, Exists, Minted
    <3>8. QED
      BY <3>6, <3>7
  <2>3. CASE UNCHANGED <<nextTokenId, brandIds, minting, mintedAt>>
    BY <2>3 DEF MintStack, FreshIds, Exists, Minted
  <2>4. QED
    BY <2>1, <2>2, <2>3
       DEF Next, AuthorizedCall, ApplyResult, SetActiveTraits, SetURIAuth, OwnerCall,
           SetTrait, SetURI, Administer, ChainStep, vars, nftVars
<1>3. QED
  BY <1>1, <1>2, NFTTypeCorrect, BoundedAlways, PTL DEF Spec
-----------------------------------------------------------------------------
(* Results stay with their brand: a result runs on a token that has its    *)
(* brand.  The only write of a brand is the end of a mint, and by          *)
(* MintStack that is the mint of a token whose brand is still NoBrand, so  *)
(* of a token that only results for brand 0 can have reached; they ran     *)
(* before the mint returned.                                               *)
THEOREM ResultsMatchBrandAlways == Spec => []ResultsMatchBrand
<1> DEFINE Match(i) ==
             LET call == log[i].auth.call IN
             \/ brandIds[call.token] = call.brand
             \/ call.brand = NoBrand /\ i <= mintedAt[call.token]
<1>1. Init => ResultsMatchBrand
  BY DEF Init, TB!Init, ResultsMatchBrand
<1>2. TypeOK /\ MintStack /\ ResultsMatchBrand /\ [Next]_vars => ResultsMatchBrand'
  <2> SUFFICES ASSUME TypeOK, MintStack, ResultsMatchBrand, [Next]_vars,
                      NEW i \in DOMAIN log', log'[i].auth.call.fn \in ResultFns
               PROVE  Match(i)'
    BY DEF ResultsMatchBrand
  <2>1. ASSUME NEW h \in TB!AuthHashes, NEW k \in Keys, AuthorizedCall(h, k)
        PROVE  Match(i)'
    <3>1. UNCHANGED <<brandIds, mintedAt>>
      BY <2>1 DEF AuthorizedCall, MintBaseNFT, ApplyResult, SetActiveTraits, SetURIAuth
    <3>2. /\ Len(log) \in Nat
          /\ DOMAIN log = 1..Len(log) /\ DOMAIN log' = 1..(Len(log) + 1)
          /\ \A j \in DOMAIN log : log'[j] = log[j]
          /\ log'[Len(log) + 1].auth = h
      BY <2>1, CallLogs DEF TypeOK
    <3>3. CASE i \in DOMAIN log
      BY <3>1, <3>2, <3>3 DEF ResultsMatchBrand
    <3>4. CASE i = Len(log) + 1
      <4>1. h.call.fn \in ResultFns
        BY <3>2, <3>4
      <4>2. ApplyResult(h, k)
        BY <2>1, <4>1 DEF AuthorizedCall, MintBaseNFT, SetActiveTraits, SetURIAuth,
                          ResultFns, UriFns
      <4>3. QED
        BY <3>1, <3>2, <3>4, <4>2 DEF ApplyResult
    <3>5. QED
      BY <3>2, <3>3, <3>4
  <2>2. CASE FinishMint
    <3> DEFINE m == minting[Len(minting)]
               t == log[i].auth.call.token
               b == log[i].auth.call.brand
    <3>1. log' = log
      BY <2>2, OtherSteps
    <3>2. brandIds[t] = b \/ (b = NoBrand /\ i <= mintedAt[t])
      BY <3>1 DEF ResultsMatchBrand
    <3>3. t \in Tokens /\ i \in 1..Len(log) /\ Len(log) \in Nat
      <4>1. log \in Seq(TB!LogEntries) /\ log[i] \in TB!LogEntries
        BY <3>1 DEF TypeOK, TB!TypeOK
      <4>2. log[i].auth \in TB!AuthHashes
        BY <4>1 DEF TB!LogEntries
      <4>3. t \in Tokens
        BY <3>1, <4>2, CallTypes
      <4>4. QED
        BY <3>1, <4>1, <4>3
    <3>4. brandIds[m.token] = NoBrand /\ ~Minted(m.token) /\ m.token \in Tokens
      BY <2>2, TopFrame DEF MintStack
    <3>5. /\ brandIds' = [brandIds EXCEPT ![m.token] = m.brand]
          /\ mintedAt' = [mintedAt EXCEPT ![m.token] = Len(log)]
      BY <2>2 DEF FinishMint
    <3> HIDE DEF m, t, b
    <3>6. brandIds'[t] = b \/ (b = NoBrand /\ i <= mintedAt'[t])
      <4>1. CASE t = m.token
        BY <3>2, <3>3, <3>4, <3>5, <4>1 DEF TypeOK, Minted
      <4>2. CASE t # m.token
        BY <3>2, <3>3, <3>5, <4>2 DEF TypeOK
      <4>3. QED
        BY <4>1, <4>2
    <3>7. QED
      BY <3>1, <3>6 DEF t, b
  <2>3. CASE OwnerCall \/ Administer \/ ChainStep \/ UNCHANGED vars
    <3>1. log' = log
      BY <2>3, OtherSteps
    <3>2. UNCHANGED <<brandIds, mintedAt>>
      BY <2>3 DEF OwnerCall, SetTrait, SetURI, Administer, ChainStep, vars, nftVars
    <3>3. QED
      BY <3>1, <3>2 DEF ResultsMatchBrand
  <2>4. QED
    BY <2>1, <2>2, <2>3 DEF Next
<1>3. QED
  BY <1>1, <1>2, NFTTypeCorrect, MintStackAlways, PTL DEF Spec

(* The brand of a minted token never changes: a mint returns only for a    *)
(* token that is not minted yet.                                           *)
THEOREM BrandFixedAlways == Spec => BrandFixed
<1> DEFINE Fixed == /\ \A t \in Tokens : Minted(t) => /\ Minted(t)'
                                                      /\ brandIds'[t] = brandIds[t]
                    /\ nextTokenId' >= nextTokenId
<1>1. TypeOK /\ MintStack /\ [Next]_vars => [Fixed]_vars
  <2> SUFFICES ASSUME TypeOK, MintStack, [Next]_vars PROVE Fixed
    OBVIOUS
  <2>0. nextTokenId \in Nat
    BY NFTAssumption DEF TypeOK
  <2>1. CASE FinishMint
    <3> DEFINE m == minting[Len(minting)]
    <3>1. ~Minted(m.token)
      BY <2>1, TopFrame DEF MintStack
    <3>2. /\ brandIds' = [brandIds EXCEPT ![m.token] = m.brand]
          /\ mintedAt' = [mintedAt EXCEPT ![m.token] = Len(log)]
          /\ nextTokenId' = nextTokenId
      BY <2>1 DEF FinishMint
    <3> HIDE DEF m
    <3>3. \A t \in Tokens : Minted(t) => brandIds'[t] = brandIds[t] /\ mintedAt'[t] = mintedAt[t]
      BY <3>1, <3>2 DEF TypeOK, Minted
    <3>4. QED
      BY <2>0, <3>2, <3>3 DEF Minted
  <2>2. CASE \E h \in TB!AuthHashes, k \in Keys : AuthorizedCall(h, k)
    <3>1. brandIds' = brandIds /\ mintedAt' = mintedAt
          /\ nextTokenId' \in {nextTokenId, nextTokenId + 1}
      BY <2>2 DEF AuthorizedCall, MintBaseNFT, ApplyResult, SetActiveTraits, SetURIAuth
    <3>2. QED
      BY <2>0, <3>1 DEF Minted
  <2>3. CASE OwnerCall \/ Administer \/ ChainStep \/ UNCHANGED vars
    <3>1. UNCHANGED <<brandIds, mintedAt, nextTokenId>>
      BY <2>3 DEF OwnerCall, SetTrait, SetURI, Administer, ChainStep, vars, nftVars
    <3>2. QED
      BY <2>0, <3>1 DEF Minted
  <2>4. QED
    BY <2>1, <2>2, <2>3 DEF Next
<1>2. QED
  BY <1>1, NFTTypeCorrect, MintStackAlways, PTL DEF Spec, BrandFixed
-----------------------------------------------------------------------------
(* The brand of a token                                                    *)

\* Which token was authorized for which brand: the n-th mint of the log made token n.
Authorized ==
  {<<Cardinality({j \in MintEntries : j <= i}), log[i].auth.call.brand>> : i \in MintEntries}

\* That holds of the minted tokens, and of what a mint in progress is going to write.
BrandsAuthorized ==
  /\ \A t \in Tokens : Minted(t) => <<t, brandIds[t]>> \in Authorized
  /\ \A i \in DOMAIN minting : <<minting[i].token, minting[i].brand>> \in Authorized

\* The log grows at its end, so the mints before an entry stay the same.
LEMMA AuthorizedStays == ASSUME TypeOK, [Next]_vars PROVE Authorized \subseteq Authorized'
<1>1. CASE UNCHANGED log
  BY <1>1 DEF Authorized, MintEntries
<1>2. ASSUME NEW h \in TB!AuthHashes, NEW k \in Keys, AuthorizedCall(h, k)
      PROVE  Authorized \subseteq Authorized'
  <2>1. /\ Len(log) \in Nat
        /\ DOMAIN log = 1..Len(log) /\ DOMAIN log' = 1..(Len(log) + 1)
        /\ \A i \in DOMAIN log : log'[i] = log[i]
    BY <1>2, CallLogs DEF TypeOK
  <2>2. /\ MintEntries \subseteq 1..Len(log) /\ MintEntries' \subseteq 1..(Len(log) + 1)
        /\ \A j \in 1..Len(log) : j \in MintEntries' <=> j \in MintEntries
    BY <2>1 DEF MintEntries
  <2>3. ASSUME NEW i \in MintEntries
        PROVE  /\ i \in MintEntries' /\ log'[i] = log[i]
               /\ {j \in MintEntries' : j <= i} = {j \in MintEntries : j <= i}
    <3>1. i \in 1..Len(log)
      BY <2>2
    <3>2. \A j \in MintEntries' : j <= i => j \in MintEntries
      <4>1. \A j \in 1..(Len(log) + 1) : j <= i => j \in 1..Len(log)
        BY <2>1, <3>1
      <4> QED
        BY <2>2, <4>1
    <3>3. \A j \in MintEntries : j \in MintEntries'
      BY <2>2
    <3>4. i \in MintEntries' /\ log'[i] = log[i]
      BY <2>1, <3>1, <3>3
    <3>5. {j \in MintEntries' : j <= i} = {j \in MintEntries : j <= i}
      BY <3>2, <3>3, Zenon
    <3> QED
      BY <3>4, <3>5
  <2> DEFINE before(i) == {j \in MintEntries : j <= i}
  <2>4. SUFFICES ASSUME NEW i \in MintEntries
                 PROVE  <<Cardinality(before(i)), log[i].auth.call.brand>> \in Authorized'
    BY DEF Authorized
  <2>5. <<Cardinality({j \in MintEntries' : j <= i}), log'[i].auth.call.brand>> \in Authorized'
    BY <2>3 DEF Authorized
  <2> QED
    BY <2>3, <2>5
<1> QED
  BY <1>1, <1>2, OtherSteps DEF Next

(* A token carries the brand its own mint authorization named, however     *)
(* mints nest: the frame of a mint holds the brand of the authorization    *)
(* that took its id, and only that frame writes the brand of that id.      *)
THEOREM BrandFromAuthorizationAlways == Spec => []BrandFromAuthorization
<1>1. Init => BrandsAuthorized
  BY DEF Init, BrandsAuthorized, Minted
<1>2. TypeOK /\ Bounded /\ OneTokenPerMint' /\ BrandsAuthorized /\ [Next]_vars => BrandsAuthorized'
  <2> SUFFICES ASSUME TypeOK, Bounded, OneTokenPerMint', BrandsAuthorized, [Next]_vars
               PROVE  BrandsAuthorized'
    OBVIOUS
  <2> DEFINE F == [token : Tokens, brand : Brands, callback : BOOLEAN]
  <2>0. minting \in Seq(F) /\ Authorized \subseteq Authorized'
    BY AuthorizedStays DEF TypeOK
  <2>1. ASSUME NEW h \in TB!AuthHashes, NEW k \in Keys, NEW c \in BOOLEAN,
               MintBaseNFT(h, k, c)
        PROVE  BrandsAuthorized'
    <3> DEFINE m == [token |-> nextTokenId, brand |-> h.call.brand, callback |-> c]
    <3>1. Len(log) \in Nat /\ Len(log) < MaxLog
          /\ DOMAIN log' = 1..(Len(log) + 1)
          /\ log'[Len(log) + 1].auth = h
      BY <2>1, CallLogs DEF TypeOK, AuthorizedCall
    <3>2. h.call.fn = "mintBaseNFT" /\ nextTokenId' = nextTokenId + 1 /\ nextTokenId \in Nat
          /\ UNCHANGED <<brandIds, mintedAt>> /\ minting' = Append(minting, m)
      BY <2>1, NFTAssumption DEF MintBaseNFT, TypeOK
    <3>3. Cardinality(MintEntries') = nextTokenId
      <4>1. nextTokenId' - 1 = Cardinality(MintEntries')
        BY DEF OneTokenPerMint
      <4> QED
        BY <3>2, <4>1
    <3>4. Len(log) + 1 \in MintEntries' /\ MintEntries' = {j \in MintEntries' : j <= Len(log) + 1}
      BY <3>1, <3>2 DEF MintEntries
    <3>5. <<nextTokenId, h.call.brand>> \in Authorized'
      BY <3>1, <3>3, <3>4 DEF Authorized
    <3>6. m.token = nextTokenId /\ m.brand = h.call.brand
      OBVIOUS
    <3>7. minting' = Append(minting, m) /\ m \in F
      <4>1. nextTokenId \in Tokens
        BY <3>1, <3>2, NFTAssumption DEF Bounded, Tokens
      <4> QED
        BY <2>1, <3>2, <4>1, CallTypes DEF MintBaseNFT
    <3> HIDE DEF F, m
    <3>8. /\ Len(minting) \in Nat /\ DOMAIN minting = 1..Len(minting)
          /\ DOMAIN minting' = 1..(Len(minting) + 1)
          /\ \A i \in DOMAIN minting : minting'[i] = minting[i]
          /\ minting'[Len(minting) + 1] = m
      BY <2>0, <3>7
    <3> QED
      BY <2>0, <3>2, <3>5, <3>6, <3>8 DEF BrandsAuthorized, Minted
  <2>2. CASE FinishMint
    <3> DEFINE m == minting[Len(minting)]
    <3>1. /\ Len(minting) \in DOMAIN minting /\ m.token \in Tokens
          /\ DOMAIN minting' = 1..(Len(minting) - 1)
          /\ \A i \in DOMAIN minting' : i \in DOMAIN minting /\ minting'[i] = minting[i]
      BY <2>2, TopFrame
    <3>2. <<m.token, m.brand>> \in Authorized
      BY <3>1 DEF BrandsAuthorized
    <3>3. /\ brandIds' = [brandIds EXCEPT ![m.token] = m.brand]
          /\ mintedAt' = [mintedAt EXCEPT ![m.token] = Len(log)]
      BY <2>2 DEF FinishMint
    <3> HIDE DEF F, m
    <3>4. ASSUME NEW i \in DOMAIN minting'
          PROVE  <<minting'[i].token, minting'[i].brand>> \in Authorized'
      BY <2>0, <3>1 DEF BrandsAuthorized
    <3>5. ASSUME NEW t \in Tokens, Minted(t)'
          PROVE  <<t, brandIds'[t]>> \in Authorized'
      BY <2>0, <3>1, <3>2, <3>3, <3>5 DEF TypeOK, BrandsAuthorized, Minted
    <3> QED
      BY <3>4, <3>5 DEF BrandsAuthorized
  <2>3. CASE UNCHANGED <<brandIds, minting, mintedAt>>
    BY <2>0, <2>3 DEF BrandsAuthorized, Minted
  <2> QED
    BY <2>1, <2>2, <2>3
       DEF Next, AuthorizedCall, ApplyResult, SetActiveTraits, SetURIAuth, OwnerCall,
           SetTrait, SetURI, Administer, ChainStep, vars, nftVars
<1>3. BrandsAuthorized => BrandFromAuthorization
  BY DEF BrandFromAuthorization, BrandsAuthorized, Authorized
<1> QED
  BY <1>1, <1>2, <1>3, NFTTypeCorrect, BoundedAlways, OneTokenPerMintAlways, PTL DEF Spec
-----------------------------------------------------------------------------
(* The traits of a token                                                   *)

\* What TraitsFollowLog says of one trait, and how the traits come to follow the log:
\* outside the base, from the first; the base from the end of the mint.
Derived(t, k) ==
  IF WritesOf(t, k) = {}
    THEN traits[t][k] = IF k \in BaseKeys THEN BaseTraits[k] ELSE 0
    ELSE \E i \in WritesOf(t, k) : /\ \A j \in WritesOf(t, k) : j <= i
                                   /\ traits[t][k] = log[i].auth.call.updates[k]

AllDerived ==
  \A t \in Tokens, k \in TraitKeys :
    (Minted(t) \/ k \notin BaseKeys) /\ <<t, k>> \notin ownerSet => Derived(t, k)

MintedBefore == \A t \in Tokens : mintedAt[t] <= Len(log)

\* A call that writes no trait k of token t.
LEMMA NotWritten ==
  ASSUME TypeOK, NEW h \in TB!AuthHashes, NEW signer \in Keys, AuthorizedCall(h, signer),
         NEW t \in Tokens, NEW k \in TraitKeys, UNCHANGED mintedAt,
         ~ /\ h.call.fn \in ResultFns \cup {"setActiveTraitsAuth"}
           /\ h.call.token = t /\ k \in DOMAIN h.call.updates,
         traits'[t][k] = traits[t][k], Derived(t, k)
  PROVE  Derived(t, k)'
<1>1. /\ Len(log) \in Nat
      /\ DOMAIN log = 1..Len(log) /\ DOMAIN log' = 1..(Len(log) + 1)
      /\ \A i \in DOMAIN log : log'[i] = log[i]
      /\ log'[Len(log) + 1].auth = h
  BY CallLogs DEF TypeOK
<1>2. WritesOf(t, k)' = WritesOf(t, k)
  BY <1>1 DEF WritesOf
<1>3. \A i \in WritesOf(t, k) : log'[i] = log[i]
  BY <1>1 DEF WritesOf
<1> QED
  BY <1>2, <1>3 DEF Derived

\* A call that writes it is the last to do so.
LEMMA Written ==
  ASSUME TypeOK, MintedBefore, NEW h \in TB!AuthHashes, NEW signer \in Keys,
         AuthorizedCall(h, signer), NEW t \in Tokens, NEW k \in TraitKeys, UNCHANGED mintedAt,
         h.call.fn \in ResultFns \cup {"setActiveTraitsAuth"},
         h.call.token = t, k \in DOMAIN h.call.updates,
         traits'[t][k] = h.call.updates[k]
  PROVE  Derived(t, k)'
<1> DEFINE n == Len(log) + 1
<1>1. /\ Len(log) \in Nat
      /\ DOMAIN log' = 1..n /\ log'[n].auth = h
  BY CallLogs DEF TypeOK
<1>2. mintedAt[t] \in Nat /\ mintedAt[t] < n
  BY <1>1 DEF MintedBefore, TypeOK
<1>3. n \in WritesOf(t, k)'
  BY <1>1, <1>2 DEF WritesOf
<1>4. \A j \in WritesOf(t, k)' : j <= n
  BY <1>1 DEF WritesOf
<1> QED
  BY <1>1, <1>3, <1>4 DEF Derived

(* The traits of a minted token can be recomputed from the authorizations  *)
(* that ran, those the owner wrote aside.                                  *)
THEOREM TraitsFollowLogAlways == Spec => []TraitsFollowLog
<1>1. Init => AllDerived /\ MintedBefore
  <2> SUFFICES ASSUME Init PROVE AllDerived /\ MintedBefore
    OBVIOUS
  <2>1. /\ log = <<>> /\ mintedAt = [t \in Tokens |-> 0]
        /\ traits = [t \in Tokens |-> [k \in TraitKeys |-> 0]]
    BY DEF Init, TB!Init
  <2>2. \A t \in Tokens, k \in TraitKeys : WritesOf(t, k) = {}
    BY <2>1 DEF WritesOf
  <2> QED
    BY <2>1, <2>2 DEF AllDerived, MintedBefore, Derived, Minted
<1>2. TypeOK /\ MintStack /\ AllDerived /\ MintedBefore /\ [Next]_vars
        => (AllDerived /\ MintedBefore)'
  <2> SUFFICES ASSUME TypeOK, MintStack, AllDerived, MintedBefore, [Next]_vars
               PROVE  (AllDerived /\ MintedBefore)'
    OBVIOUS
  <2>1. ASSUME NEW h \in TB!AuthHashes, NEW signer \in Keys, AuthorizedCall(h, signer)
        PROVE  (AllDerived /\ MintedBefore)'
    <3>1. UNCHANGED <<mintedAt, ownerSet>>
      BY <2>1 DEF AuthorizedCall, MintBaseNFT, ApplyResult, SetActiveTraits, SetURIAuth
    <3>2. Len(log) \in Nat /\ Len(log') = Len(log) + 1
      BY <2>1, CallLogs DEF TypeOK
    <3>3. MintedBefore'
      BY <3>1, <3>2 DEF MintedBefore, TypeOK
    <3> DEFINE Writes(t, k) == /\ h.call.fn \in ResultFns \cup {"setActiveTraitsAuth"}
                               /\ h.call.token = t /\ k \in DOMAIN h.call.updates
    <3>4. ASSUME NEW t \in Tokens, NEW k \in TraitKeys
          PROVE  traits'[t][k] = IF Writes(t, k) THEN h.call.updates[k] ELSE traits[t][k]
      <4>1. CASE ApplyResult(h, signer) \/ SetActiveTraits(h, signer)
        <5>1. SetTraits(h.call.token, h.call.updates)
              /\ h.call.fn \in ResultFns \cup {"setActiveTraitsAuth"}
          BY <4>1 DEF ApplyResult, SetActiveTraits
        <5> QED
          BY <5>1 DEF SetTraits, TypeOK
      <4>2. CASE \/ \E callback \in BOOLEAN : MintBaseNFT(h, signer, callback)
                 \/ SetURIAuth(h, signer)
        BY <4>2 DEF MintBaseNFT, SetURIAuth, UriFns, ResultFns
      <4> QED
        BY <2>1, <4>1, <4>2 DEF AuthorizedCall
    <3>5. ASSUME NEW t \in Tokens, NEW k \in TraitKeys, (Minted(t) \/ k \notin BaseKeys)',
                 <<t, k>> \notin ownerSet'
          PROVE  Derived(t, k)'
      <4>1. CASE Writes(t, k)
        BY <2>1, <3>1, <3>4, <4>1, Written
      <4>2. CASE ~Writes(t, k)
        <5>1. Derived(t, k)
          BY <3>1, <3>5 DEF AllDerived, Minted
        <5> QED
          BY <2>1, <3>1, <3>4, <4>2, <5>1, NotWritten
      <4> QED
        BY <4>1, <4>2
    <3> QED
      BY <3>3, <3>5 DEF AllDerived
  <2>2. CASE FinishMint
    <3> DEFINE m == minting[Len(minting)]
    <3>1. /\ m.token \in Tokens /\ ~Minted(m.token)
      BY <2>2, TopFrame DEF MintStack
    <3>2. /\ SetTraits(m.token, BaseTraits)
          /\ mintedAt' = [mintedAt EXCEPT ![m.token] = Len(log)]
          /\ ownerSet' = {w \in ownerSet : w[1] # m.token \/ w[2] \notin BaseKeys}
          /\ UNCHANGED log
      BY <2>2, OtherSteps DEF FinishMint
    <3> HIDE DEF m
    <3>3. Len(log) \in Nat /\ DOMAIN log = 1..Len(log)
      BY DEF TypeOK, TB!TypeOK
    <3>4. MintedBefore'
      BY <3>1, <3>2, <3>3 DEF MintedBefore, TypeOK
    <3>5. DOMAIN BaseTraits = BaseKeys
      BY DEF BaseTraits, BaseKeys
    <3>6. ASSUME NEW t \in Tokens, NEW k \in TraitKeys, (Minted(t) \/ k \notin BaseKeys)',
                 <<t, k>> \notin ownerSet'
          PROVE  Derived(t, k)'
      <4>1. CASE t = m.token /\ k \in BaseKeys
        <5>1. WritesOf(t, k)' = {}
          BY <3>1, <3>2, <3>3, <4>1 DEF WritesOf, TypeOK
        <5>2. traits'[t][k] = BaseTraits[k]
          BY <3>1, <3>2, <3>5, <4>1 DEF SetTraits, TypeOK
        <5> QED
          BY <4>1, <5>1, <5>2 DEF Derived
      <4>2. CASE t # m.token \/ k \notin BaseKeys
        <5>1. traits'[t][k] = traits[t][k]
          BY <3>1, <3>2, <3>5, <4>2 DEF SetTraits, TypeOK
        <5>2. <<t, k>> \notin ownerSet
          BY <3>2, <3>6, <4>2
        <5>3. Minted(t) \/ k \notin BaseKeys
          BY <3>2, <3>6, <4>2 DEF Minted, TypeOK
        <5>4. WritesOf(t, k)' = WritesOf(t, k)
          BY <3>2, <4>2 DEF WritesOf, TypeOK
        <5> QED
          BY <3>2, <5>1, <5>2, <5>3, <5>4 DEF AllDerived, Derived
      <4> QED
        BY <4>1, <4>2
    <3> QED
      BY <3>4, <3>6 DEF AllDerived
  <2>3. ASSUME NEW t \in Tokens, NEW w \in OwnerWrites, SetTrait(t, w[1], w[2])
        PROVE  (AllDerived /\ MintedBefore)'
    <3>1. /\ SetTraits(t, [k \in {w[1]} |-> w[2]])
          /\ ownerSet' = ownerSet \cup {<<t, w[1]>>}
          /\ UNCHANGED <<log, mintedAt>>
      BY <2>3 DEF SetTrait, targetVars
    <3>2. ASSUME NEW u \in Tokens, NEW k \in TraitKeys, (Minted(u) \/ k \notin BaseKeys)',
                 <<u, k>> \notin ownerSet'
          PROVE  Derived(u, k)'
      <4>1. u # t \/ k # w[1]
        BY <3>1, <3>2
      <4>2. traits'[u][k] = traits[u][k]
        BY <3>1, <4>1 DEF SetTraits, TypeOK
      <4>3. WritesOf(u, k)' = WritesOf(u, k)
        BY <3>1 DEF WritesOf
      <4>4. Derived(u, k)
        BY <3>1, <3>2 DEF AllDerived, Minted
      <4> QED
        BY <3>1, <4>2, <4>3, <4>4 DEF Derived
    <3> QED
      BY <3>1, <3>2 DEF AllDerived, MintedBefore
  <2>4. CASE UNCHANGED <<log, mintedAt, traits, ownerSet>>
    BY <2>4 DEF AllDerived, MintedBefore, Derived, WritesOf, Minted
  <2>5. CASE \/ \E which \in DOMAIN uris, uri \in URIs : SetURI(which, uri)
             \/ Administer \/ ChainStep \/ UNCHANGED vars
    <3>1. UNCHANGED log
      BY <2>5, OtherSteps DEF OwnerCall
    <3>2. UNCHANGED <<mintedAt, traits, ownerSet>>
      BY <2>5 DEF SetURI, Administer, ChainStep, vars, nftVars
    <3> QED
      BY <2>4, <3>1, <3>2
  <2> QED
    BY <2>1, <2>2, <2>3, <2>5 DEF Next, OwnerCall
<1>3. AllDerived => TraitsFollowLog
  BY DEF AllDerived, Derived, TraitsFollowLog
<1> QED
  BY <1>1, <1>2, <1>3, NFTTypeCorrect, MintStackAlways, PTL DEF Spec
=============================================================================
