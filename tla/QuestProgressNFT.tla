-------------------------- MODULE QuestProgressNFT --------------------------
(***************************************************************************)
(* packages/contracts/contracts/QuestProgressNFT.sol on top of TargetBase: *)
(* brand-bound tokens with traits, changed by authorized calls.            *)
(*                                                                         *)
(* mintBaseNFT hands control to the receiver in the middle: _safeMint      *)
(* calls onERC721Received before the brand and the traits are written, and *)
(* the reentrancy guard has been released by then.  A mint is therefore    *)
(* two steps, and between them the receiver, if it is a contract, may have *)
(* other calls run, further mints included: minting is the call stack.     *)
(* Every other function is one step.  Tokens are never burned, so a token  *)
(* exists from its mint on; who owns it does not matter to any guard.      *)
(***************************************************************************)
EXTENDS Integers, Sequences, FiniteSets

CONSTANTS
  Accounts, Keys, Owner, Impls, NoCode,   \* see TargetBase
  MaxNonce, MaxTime, MaxLog, MaxResets,
  Brands,     \* brand ids in signed calls; 0 may be one, nothing rejects it
  NoBrand,    \* the unset brandIds entry, 0
  TraitKeys,  \* trait keys in use, the four base traits included
  Values,     \* trait values; 0 is the unset value
  Updates,    \* the trait updates that are signed: functions key -> value
  OwnerWrites,\* bound: the <<key, value>> pairs the owner sets
  URIs        \* metadata locations

\* The traits a mint writes; the base of every token.
BaseTraits == [XP |-> 0, LEVEL |-> 1, RARITY |-> 0, LOOT_KEYS |-> 0]
BaseKeys   == {"XP", "LEVEL", "RARITY", "LOOT_KEYS"}

\* At most one token is minted for each call that runs.
Tokens == 1..MaxLog

ASSUME NFTAssumption ==
  /\ Owner \in Keys
  /\ NoCode \notin Impls
  /\ {MaxNonce, MaxTime, MaxLog, MaxResets} \subseteq Nat
  /\ BaseKeys \subseteq TraitKeys
  /\ {0, 1} \subseteq Values
  /\ OwnerWrites \subseteq TraitKeys \X Values
  /\ Updates \subseteq UNION {[S -> Values] : S \in SUBSET TraitKeys}

ResultFns   == {"applyQuestResult", "openLootbox"}
MintCalls   == [fn : {"mintBaseNFT"}, brand : Brands]
ResultCalls == [fn : ResultFns, brand : Brands, token : Tokens, updates : Updates]
TraitCalls  == [fn : {"setActiveTraitsAuth"}, token : Tokens, updates : Updates]
UriFns      == {"setMetadataBaseURIAuth", "setTraitMetadataURIAuth"}
UriCalls    == [fn : UriFns, uri : URIs]
NFTCalls    == MintCalls \cup ResultCalls \cup TraitCalls \cup UriCalls

VARIABLES
  masterKey, recoveryKey, nonces, usedAuthorizations,  \* see TargetBase
  delegatedAccountCodeHash, accountCode, now, log, epoch,
  nextTokenId,
  traits,
  brandIds,
  uris,       \* metadataBaseURI and traitMetadataURI
  minting,    \* mints inside _safeMint, outermost first: [token, brand, callback]
  mintedAt,   \* history: length of log when the mint of a token returned, 0 before
  ownerSet    \* history: the <<token, key>> pairs written by setTrait

TB == INSTANCE TargetBase WITH Calls <- NFTCalls

targetVars == <<masterKey, recoveryKey, nonces, usedAuthorizations,
                delegatedAccountCodeHash, accountCode, now, log, epoch>>
nftVars    == <<nextTokenId, traits, brandIds, uris, minting, mintedAt, ownerSet>>
vars       == <<targetVars, nftVars>>

Init ==
  /\ TB!Init
  /\ nextTokenId = 1
  /\ traits = [t \in Tokens |-> [k \in TraitKeys |-> 0]]
  /\ brandIds = [t \in Tokens |-> NoBrand]
  /\ uris \in [{"metadataBase", "traitMetadata"} -> URIs]
  /\ minting = <<>>
  /\ mintedAt = [t \in Tokens |-> 0]
  /\ ownerSet = {}

Exists(t) == t < nextTokenId

\* A call can start between transactions, or from the callbacks of the mints
\* on the stack; a receiver without code gets no callback.
CallPossible == \A i \in DOMAIN minting : minting[i].callback

\* Mutant: a trait that is set is left alone.
SetTraitsUnsetOnly(t, updates) ==
  traits' = [traits EXCEPT ![t] =
               [k \in TraitKeys |-> IF k \in DOMAIN updates /\ @[k] = 0
                                     THEN updates[k] ELSE @[k]]]

\* A loop of _setTrait over the updates: the last write of a key stands.
SetTraits(t, updates) ==
  traits' = [traits EXCEPT ![t] =
               [k \in TraitKeys |-> IF k \in DOMAIN updates THEN updates[k] ELSE @[k]]]
-----------------------------------------------------------------------------
(* Authorized calls: h is what was signed, signer the key that signed it.  *)

\* mintBaseNFT up to the callback of _safeMint.
MintBaseNFT(h, signer, callback) ==
  /\ CallPossible
  /\ h.call.fn = "mintBaseNFT"
  /\ TB!VerifyAuthorization(h, signer)
  /\ nextTokenId' = nextTokenId + 1
  /\ minting' = Append(minting, [token |-> nextTokenId, brand |-> h.call.brand,
                                 callback |-> callback])
  /\ UNCHANGED <<traits, brandIds, uris, mintedAt, ownerSet>>

\* Mutant of FinishMint: the brand and traits go to the id handed out last,
\* not to the one this mint took.
FinishMintLastId ==
  /\ minting # <<>>
  /\ LET token == nextTokenId - 1 IN
     /\ brandIds' = [brandIds EXCEPT ![token] = minting[Len(minting)].brand]
     /\ SetTraits(token, BaseTraits)
     /\ mintedAt' = [mintedAt EXCEPT ![token] = Len(log)]
  /\ minting' = SubSeq(minting, 1, Len(minting) - 1)
  /\ UNCHANGED <<targetVars, nextTokenId, uris, ownerSet>>

\* The rest of mintBaseNFT, after the receiver accepted the token.
FinishMint ==
  /\ minting # <<>>
  /\ LET m == minting[Len(minting)] IN
     /\ brandIds' = [brandIds EXCEPT ![m.token] = m.brand]
     /\ SetTraits(m.token, BaseTraits)
     /\ mintedAt' = [mintedAt EXCEPT ![m.token] = Len(log)]
     /\ ownerSet' = {w \in ownerSet : w[1] # m.token \/ w[2] \notin BaseKeys}
  /\ minting' = SubSeq(minting, 1, Len(minting) - 1)
  /\ UNCHANGED <<targetVars, nextTokenId, uris>>

\* Mutant: the brand is not compared.
ApplyResultAnyBrand(h, signer) ==
  /\ CallPossible
  /\ h.call.fn \in ResultFns
  /\ TB!VerifyAuthorization(h, signer)
  /\ Exists(h.call.token)
  /\ SetTraits(h.call.token, h.call.updates)
  /\ UNCHANGED <<nextTokenId, brandIds, uris, minting, mintedAt, ownerSet>>

\* applyQuestResult and openLootbox differ in the event they emit only.
ApplyResult(h, signer) ==
  /\ CallPossible
  /\ h.call.fn \in ResultFns
  /\ TB!VerifyAuthorization(h, signer)
  /\ Exists(h.call.token)
  /\ brandIds[h.call.token] = h.call.brand
  /\ SetTraits(h.call.token, h.call.updates)
  /\ UNCHANGED <<nextTokenId, brandIds, uris, minting, mintedAt, ownerSet>>

\* Mutant: the authorization is marked used, the nonce stays.
SetActiveTraitsSameNonce(h, signer) ==
  /\ CallPossible
  /\ h.call.fn = "setActiveTraitsAuth"
  /\ Len(log) < MaxLog
  /\ TB!VerifyImplementation(h.sender)
  /\ h.nonce = nonces[h.sender] /\ now <= h.expiry
  /\ h \notin usedAuthorizations /\ signer = masterKey
  /\ Exists(h.call.token)
  /\ SetTraits(h.call.token, h.call.updates)
  /\ usedAuthorizations' = usedAuthorizations \cup {h}
  /\ log' = Append(log, [auth |-> h, signer |-> signer, epoch |-> epoch[h.sender]])
  /\ UNCHANGED <<masterKey, recoveryKey, nonces, delegatedAccountCodeHash, accountCode,
                 now, epoch, nextTokenId, brandIds, uris, minting, mintedAt, ownerSet>>

\* The keys and values passed along must equal the signed ones, so the
\* signed updates are the input; no brand is checked.
SetActiveTraits(h, signer) ==
  /\ CallPossible
  /\ h.call.fn = "setActiveTraitsAuth"
  /\ TB!VerifyAuthorization(h, signer)
  /\ Exists(h.call.token)
  /\ SetTraits(h.call.token, h.call.updates)
  /\ UNCHANGED <<nextTokenId, brandIds, uris, minting, mintedAt, ownerSet>>

SetURIAuth(h, signer) ==
  /\ CallPossible
  /\ h.call.fn \in UriFns
  /\ TB!VerifyAuthorization(h, signer)
  /\ uris' = [uris EXCEPT ![IF h.call.fn = "setMetadataBaseURIAuth"
                            THEN "metadataBase" ELSE "traitMetadata"] = h.call.uri]
  /\ UNCHANGED <<nextTokenId, traits, brandIds, minting, mintedAt, ownerSet>>
-----------------------------------------------------------------------------
(* Functions of the owner                                                  *)

SetTrait(t, key, value) ==
  /\ CallPossible
  /\ Exists(t)
  /\ SetTraits(t, [k \in {key} |-> value])
  /\ ownerSet' = ownerSet \cup {<<t, key>>}
  /\ UNCHANGED <<targetVars, nextTokenId, brandIds, uris, minting, mintedAt>>

SetURI(which, uri) ==
  /\ CallPossible
  /\ uris' = [uris EXCEPT ![which] = uri]
  /\ UNCHANGED <<targetVars, nextTokenId, traits, brandIds, minting, mintedAt, ownerSet>>

\* Administration of TargetBase, also possible inside a callback.
Administer == CallPossible /\ TB!Administer /\ UNCHANGED nftVars

\* Neither time nor code changes within a transaction.
ChainStep == minting = <<>> /\ TB!ChainStep /\ UNCHANGED nftVars
-----------------------------------------------------------------------------
AuthorizedCall(h, signer) ==
  \/ \E callback \in BOOLEAN : MintBaseNFT(h, signer, callback)
  \/ ApplyResult(h, signer)
  \/ SetActiveTraits(h, signer)
  \/ SetURIAuth(h, signer)

OwnerCall ==
  \/ \E t \in Tokens, w \in OwnerWrites : SetTrait(t, w[1], w[2])
  \/ \E which \in DOMAIN uris, uri \in URIs : SetURI(which, uri)

Next ==
  \/ \E h \in TB!AuthHashes, signer \in Keys : AuthorizedCall(h, signer)
  \/ FinishMint
  \/ OwnerCall
  \/ Administer
  \/ ChainStep

Spec == Init /\ [][Next]_vars
-----------------------------------------------------------------------------
\* A token whose mint has returned.
Minted(t) == mintedAt[t] > 0

MintEntries == {i \in DOMAIN log : log[i].auth.call.fn = "mintBaseNFT"}

(* Every variable holds a value of its Solidity type; a mint frame names a *)
(* token that has an id and whose mint has not returned.                   *)
TypeOK ==
  /\ TB!TypeOK
  /\ nextTokenId \in 1..(MaxLog + 1)
  /\ traits \in [Tokens -> [TraitKeys -> Values]]
  /\ brandIds \in [Tokens -> Brands \cup {NoBrand}]
  /\ uris \in [{"metadataBase", "traitMetadata"} -> URIs]
  /\ minting \in Seq([token : Tokens, brand : Brands, callback : BOOLEAN])
  /\ mintedAt \in [Tokens -> 0..MaxLog]
  /\ ownerSet \subseteq Tokens \X TraitKeys

(* One authorization to mint makes exactly one token: ids are handed out   *)
(* one for each mint that was authorized, whatever mints nest inside the   *)
(* callbacks of others.                                                    *)
OneTokenPerMint == nextTokenId - 1 = Cardinality(MintEntries)

(* The mints in progress are those of ids that were handed out, no two of  *)
(* the same id, and none of a token whose mint has returned.               *)
MintStack ==
  \A i \in DOMAIN minting :
    /\ Exists(minting[i].token)
    /\ brandIds[minting[i].token] = NoBrand
    /\ ~Minted(minting[i].token)
    /\ \A j \in DOMAIN minting : minting[j].token = minting[i].token => j = i

(* A token carries the brand its own mint authorization named: the n-th    *)
(* authorized mint makes token n, even when mints nest and so return in    *)
(* the opposite order.                                                     *)
BrandFromAuthorization ==
  \A t \in Tokens : Minted(t) =>
    \E i \in MintEntries :
      /\ Cardinality({j \in MintEntries : j <= i}) = t
      /\ brandIds[t] = log[i].auth.call.brand

(* A result ran on a token only if the token had the brand the result      *)
(* names, and it keeps that brand, with one exception the brand check lets *)
(* through: a result for brand 0 passes it from the callback of the mint,  *)
(* where no brand is written yet, and stays on the token whatever brand    *)
(* the mint then gives it.  No other brand passes early, and none passes   *)
(* once the mint has returned.                                             *)
ResultsMatchBrand ==
  \A i \in DOMAIN log :
    LET call == log[i].auth.call IN
    call.fn \in ResultFns =>
      \/ brandIds[call.token] = call.brand
      \/ call.brand = NoBrand /\ i <= mintedAt[call.token]

\* The entries of the log that wrote trait k of token t, not counting, for
\* the base traits, those inside the mint, which writes them over.
WritesOf(t, k) ==
  {i \in DOMAIN log :
     /\ log[i].auth.call.fn \in ResultFns \cup {"setActiveTraitsAuth"}
     /\ log[i].auth.call.token = t
     /\ k \in DOMAIN log[i].auth.call.updates
     /\ k \in BaseKeys => i > mintedAt[t]}

(* The traits of a minted token can be recomputed from the authorizations  *)
(* that ran: the last one that wrote a trait decides it, and a trait that  *)
(* none wrote has its base value, whatever ran in the callback of the      *)
(* mint.  Traits the owner wrote with setTrait are left aside.             *)
TraitsFollowLog ==
  \A t \in Tokens, k \in TraitKeys :
    (Minted(t) /\ <<t, k>> \notin ownerSet) =>
      LET W == WritesOf(t, k) IN
      IF W = {}
        THEN traits[t][k] = IF k \in BaseKeys THEN BaseTraits[k] ELSE 0
        ELSE \E i \in W : /\ \A j \in W : j <= i
                          /\ traits[t][k] = log[i].auth.call.updates[k]

(* The brand of a minted token never changes, nor does an id that was      *)
(* handed out become free again.                                           *)
BrandFixed ==
  [][/\ \A t \in Tokens : Minted(t) => /\ Minted(t)'
                                       /\ brandIds'[t] = brandIds[t]
     /\ nextTokenId' >= nextTokenId]_vars

(* The NFT contract keeps the discipline of TargetBase: seen through the   *)
(* variables of TargetBase, every step of it is a step of TargetBase.      *)
ImplementsTargetBase == TB!Spec
=============================================================================
