----------------------------- MODULE TargetBase -----------------------------
(***************************************************************************)
(* packages/contracts/contracts/TargetBase.sol: the authorization layer    *)
(* every protected function of QuestProgressNFT runs through.              *)
(*                                                                         *)
(* A transaction that reverts leaves no trace, so a call is one step whose *)
(* guard is the conjunction of the checks in _verifyAuthorization.  Hashes *)
(* are modelled as injective: authHash is the record of what is hashed,    *)
(* and a signature is the key that recovers from it.  A signer may sign    *)
(* anything, so every hash and every key is an input.                      *)
(***************************************************************************)
EXTENDS Integers, Sequences

CONSTANTS
  Accounts,   \* addresses that send authorized calls
  Keys,       \* addresses of signing, recovery and administrative keys
  Owner,      \* the Ownable owner
  Impls,      \* deployed DelegatedAccount implementations
  NoCode,     \* the code of an account that has none
  Calls,      \* selector together with result, id, executions, sponsor flag
  MaxNonce,   \* bound: the largest nonce that is signed or set by a reset
  MaxTime,    \* bound: the last block timestamp
  MaxLog,     \* bound: how many authorized calls run
  MaxResets   \* bound: emergency nonce resets per account

ASSUME TargetBaseAssumption ==
  /\ Owner \in Keys
  /\ NoCode \notin Impls
  /\ {MaxNonce, MaxTime, MaxLog, MaxResets} \subseteq Nat

VARIABLES
  masterKey,
  recoveryKey,
  nonces,
  usedAuthorizations,
  delegatedAccountCodeHash, \* the implementation whose 0xef0100 wrapper it hashes
  accountCode,              \* implementation each account delegates to (EIP-7702)
  now,                      \* block.timestamp
  log,                      \* history: the AuthorizationVerified events
  epoch                     \* history: nonce resets of each account so far

adminVars   == <<masterKey, recoveryKey, delegatedAccountCodeHash>>
replayVars  == <<nonces, usedAuthorizations, log>>
outsideVars == <<accountCode, now>>
vars == <<adminVars, replayVars, outsideVars, epoch>>

\* What authHash covers: getAuthorizationHash hashes the same fields.
AuthHashes == [sender : Accounts, nonce : 0..MaxNonce, expiry : 0..MaxTime, call : Calls]

LogEntries == [auth : AuthHashes, signer : Keys, epoch : 0..MaxResets]

Init ==
  /\ masterKey \in Keys
  /\ recoveryKey \in Keys
  /\ nonces = [a \in Accounts |-> 0]
  /\ usedAuthorizations = {}
  /\ delegatedAccountCodeHash \in Impls
  /\ accountCode = [a \in Accounts |-> NoCode]
  /\ now = 0
  /\ log = <<>>
  /\ epoch = [a \in Accounts |-> 0]
-----------------------------------------------------------------------------
(* Authorized calls                                                        *)

\* An account without code, or one that delegates elsewhere, is turned away.
VerifyImplementation(a) ==
  /\ accountCode[a] # NoCode
  /\ accountCode[a] = delegatedAccountCodeHash

\* Mutants of VerifyAuthorization, which the properties below must reject:
\* what guard leaves out is not checked, and next is stored as the nonce.
MutantAuthorization(h, signer, guard, next) ==
  /\ Len(log) < MaxLog
  /\ VerifyImplementation(h.sender)
  /\ now <= h.expiry
  /\ guard
  /\ nonces' = [nonces EXCEPT ![h.sender] = next]
  /\ usedAuthorizations' = usedAuthorizations \cup {h}
  /\ log' = Append(log, [auth |-> h, signer |-> signer, epoch |-> epoch[h.sender]])
  /\ UNCHANGED <<adminVars, outsideVars, epoch>>

\* A nonce above the stored one passes.
VerifyAuthorizationSkippingNonce(h, signer) ==
  MutantAuthorization(h, signer,
    h.nonce >= nonces[h.sender] /\ h \notin usedAuthorizations /\ signer = masterKey,
    h.nonce + 1)

\* The replay table is not consulted.
VerifyAuthorizationReplayed(h, signer) ==
  MutantAuthorization(h, signer, h.nonce = nonces[h.sender] /\ signer = masterKey,
    nonces[h.sender] + 1)

\* Any signature passes.
VerifyAuthorizationAnySigner(h, signer) ==
  MutantAuthorization(h, signer,
    h.nonce = nonces[h.sender] /\ h \notin usedAuthorizations, nonces[h.sender] + 1)

\* requireAuth: the checks in the order of the code, then the bookkeeping.
VerifyAuthorization(h, signer) ==
  /\ Len(log) < MaxLog
  /\ VerifyImplementation(h.sender)
  /\ h.nonce = nonces[h.sender]
  /\ now <= h.expiry
  /\ h \notin usedAuthorizations
  /\ signer = masterKey
  /\ nonces' = [nonces EXCEPT ![h.sender] = @ + 1]
  /\ usedAuthorizations' = usedAuthorizations \cup {h}
  /\ log' = Append(log, [auth |-> h, signer |-> signer, epoch |-> epoch[h.sender]])
  /\ UNCHANGED <<adminVars, outsideVars, epoch>>
-----------------------------------------------------------------------------
(* Administration                                                          *)

SetDelegatedAccountImplementation(caller, impl) ==
  /\ caller = Owner
  /\ delegatedAccountCodeHash' = impl
  /\ UNCHANGED <<masterKey, recoveryKey, replayVars, outsideVars, epoch>>

UpdateMasterKey(caller, newKey) ==
  /\ caller \in {Owner, recoveryKey}
  /\ masterKey' = newKey
  /\ UNCHANGED <<recoveryKey, delegatedAccountCodeHash, replayVars, outsideVars, epoch>>

UpdateRecoveryKey(caller, newKey) ==
  /\ caller = Owner
  /\ recoveryKey' = newKey
  /\ UNCHANGED <<masterKey, delegatedAccountCodeHash, replayVars, outsideVars, epoch>>

\* The owner may set any value, a smaller one included.
EmergencyResetNonce(caller, user, newNonce) ==
  /\ caller = Owner
  /\ epoch[user] < MaxResets
  /\ nonces' = [nonces EXCEPT ![user] = newNonce]
  /\ epoch' = [epoch EXCEPT ![user] = @ + 1]
  /\ UNCHANGED <<adminVars, usedAuthorizations, log, outsideVars>>

Administer ==
  \E caller \in Keys :
    \/ \E impl \in Impls : SetDelegatedAccountImplementation(caller, impl)
    \/ \E k \in Keys : UpdateMasterKey(caller, k) \/ UpdateRecoveryKey(caller, k)
    \/ \E u \in Accounts, n \in 0..MaxNonce : EmergencyResetNonce(caller, u, n)
-----------------------------------------------------------------------------
(* What the chain does around the contract: time passes, and an account's  *)
(* key sets or clears its delegation with an EIP-7702 authorization.       *)

AdvanceTime ==
  /\ now < MaxTime
  /\ now' = now + 1
  /\ UNCHANGED <<adminVars, replayVars, accountCode, epoch>>

Delegate(a, impl) ==
  /\ accountCode' = [accountCode EXCEPT ![a] = impl]
  /\ UNCHANGED <<adminVars, replayVars, now, epoch>>

ChainStep ==
  \/ AdvanceTime
  \/ \E a \in Accounts, impl \in Impls \cup {NoCode} : Delegate(a, impl)
-----------------------------------------------------------------------------
Next ==
  \/ \E h \in AuthHashes, k \in Keys : VerifyAuthorization(h, k)
  \/ Administer
  \/ ChainStep

Spec == Init /\ [][Next]_vars
-----------------------------------------------------------------------------
(* Every variable holds a value of its Solidity type, within the bounds.   *)
TypeOK ==
  /\ masterKey \in Keys
  /\ recoveryKey \in Keys
  /\ nonces \in [Accounts -> 0..(MaxNonce + 1)]
  /\ usedAuthorizations \subseteq AuthHashes
  /\ delegatedAccountCodeHash \in Impls
  /\ accountCode \in [Accounts -> Impls \cup {NoCode}]
  /\ now \in 0..MaxTime
  /\ log \in Seq(LogEntries)
  /\ epoch \in [Accounts -> 0..MaxResets]

(* No authorization runs twice, whatever the owner resets a nonce to and   *)
(* however the keys rotate in between ("One-time use enforcement per       *)
(* authorization", TargetBase.sol:35).                                     *)
NoReplay ==
  \A i, j \in DOMAIN log : log[i].auth = log[j].auth => i = j

\* Entries i and j are calls of one sender with no nonce reset in between.
SameRun(i, j) ==
  /\ log[i].auth.sender = log[j].auth.sender
  /\ log[i].epoch = log[j].epoch

(* Between two resets the calls of a sender carry strictly increasing      *)
(* nonces and skip none ("Nonces must be used sequentially",               *)
(* TargetBase.sol:127).                                                    *)
SequentialNonces ==
  \A i, j \in DOMAIN log :
    (i < j /\ SameRun(i, j)) =>
       /\ log[i].auth.nonce < log[j].auth.nonce
       /\ \A n \in (log[i].auth.nonce + 1)..(log[j].auth.nonce - 1) :
             \E m \in DOMAIN log : SameRun(i, m) /\ log[m].auth.nonce = n

(* The replay table and the event log agree: an authorization is marked    *)
(* used exactly when its call ran, so a call that reverts consumes nothing *)
(* and a call that ran can never be presented as unused.                   *)
UsedIsLogged == usedAuthorizations = {log[i].auth : i \in DOMAIN log}

(* The inductive strengthening of SequentialNonces: in the current epoch   *)
(* the stored nonce is past every nonce that was used, and every nonce     *)
(* between a used one and the stored one was used.                         *)
NonceBound ==
  \A i \in DOMAIN log :
    LET s == log[i].auth.sender IN
    /\ log[i].epoch <= epoch[s]
    /\ log[i].epoch = epoch[s] =>
         /\ log[i].auth.nonce < nonces[s]
         /\ \A n \in (log[i].auth.nonce + 1)..(nonces[s] - 1) :
              \E m \in DOMAIN log : SameRun(i, m) /\ log[m].auth.nonce = n

OneTime == INSTANCE OneTimeAuthorization WITH
  Authorizations <- AuthHashes,
  trusted <- masterKey,
  history <- [i \in DOMAIN log |-> [auth |-> log[i].auth, signer |-> log[i].signer]]

(* The contract implements one-time authorization: the refinement takes    *)
(* masterKey for the trusted key and the event log for the history.        *)
ImplementsOneTime == OneTime!Spec
=============================================================================
