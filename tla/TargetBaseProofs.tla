-------------------------- MODULE TargetBaseProofs --------------------------
(***************************************************************************)
(* Proofs about TargetBase for every value of its constants.  The order is *)
(* that of the argument: types; the replay table records exactly the calls *)
(* that ran; hence no replay; hence the refinement; and, from the bound on *)
(* the stored nonce, sequential nonces.                                    *)
(***************************************************************************)
EXTENDS TargetBase, TLAPS, SequenceTheorems

(* Every step falls into one of five shapes as far as the history goes:    *)
(* an authorized call, a nonce reset, or a step that leaves nonces, replay *)
(* table, log and epochs alone.                                            *)
LEMMA StepCases ==
  ASSUME [Next]_vars
  PROVE  \/ \E h \in AuthHashes, k \in Keys : VerifyAuthorization(h, k)
         \/ \E u \in Accounts, n \in 0..MaxNonce, c \in Keys : EmergencyResetNonce(c, u, n)
         \/ UNCHANGED <<replayVars, epoch>>
  BY DEF Next, vars, Administer, ChainStep, SetDelegatedAccountImplementation,
         UpdateMasterKey, UpdateRecoveryKey, AdvanceTime, Delegate,
         replayVars, outsideVars, adminVars

(* All variables stay within their types: no handler of the contract or    *)
(* step of the chain leaves the ranges the other theorems rely on.         *)
THEOREM TypeCorrect == Spec => []TypeOK
<1>1. Init => TypeOK
  BY TargetBaseAssumption DEF Init, TypeOK
<1>2. TypeOK /\ [Next]_vars => TypeOK'
  <2> SUFFICES ASSUME TypeOK, [Next]_vars
               PROVE  TypeOK'
    OBVIOUS
  <2> USE TargetBaseAssumption DEF TypeOK, adminVars, replayVars, outsideVars
  <2>1. ASSUME NEW h \in AuthHashes, NEW k \in Keys, VerifyAuthorization(h, k)
        PROVE  TypeOK'
    <3>1. nonces' \in [Accounts -> 0..(MaxNonce + 1)]
      BY <2>1 DEF VerifyAuthorization, AuthHashes
    <3>2. usedAuthorizations' \subseteq AuthHashes
      BY <2>1 DEF VerifyAuthorization
    <3>3. log' \in Seq(LogEntries)
      <4>1. [auth |-> h, signer |-> k, epoch |-> epoch[h.sender]] \in LogEntries
        BY DEF AuthHashes, LogEntries
      <4>2. QED
        BY <2>1, <4>1 DEF VerifyAuthorization
    <3>4. QED
      BY <2>1, <3>1, <3>2, <3>3 DEF VerifyAuthorization
  <2>2. CASE Administer
    BY <2>2, SMTT(30) DEF Administer, SetDelegatedAccountImplementation, UpdateMasterKey,
                          UpdateRecoveryKey, EmergencyResetNonce
  <2>3. CASE ChainStep
    BY <2>3 DEF ChainStep, AdvanceTime, Delegate
  <2>4. CASE UNCHANGED vars
    BY <2>4 DEF vars
  <2>5. QED
    BY <2>1, <2>2, <2>3, <2>4 DEF Next
<1>3. QED
  BY <1>1, <1>2, PTL DEF Spec

(* What appending an entry to the log does to its indices and elements.    *)
LEMMA LogAppend ==
  ASSUME NEW e \in LogEntries, log \in Seq(LogEntries), log' = Append(log, e)
  PROVE  /\ DOMAIN log = 1..Len(log)
         /\ DOMAIN log' = 1..(Len(log) + 1)
         /\ Len(log) \in Nat
         /\ \A i \in DOMAIN log : log'[i] = log[i]
         /\ log'[Len(log) + 1] = e
  OBVIOUS

(* The types of the fields of a log entry.                                 *)
LEMMA LogTypes ==
  ASSUME TypeOK
  PROVE  \A j \in DOMAIN log : /\ log[j].auth.nonce \in Nat
                               /\ log[j].auth.sender \in Accounts
                               /\ log[j].epoch \in Nat
<1>1. \A j \in DOMAIN log : log[j] \in LogEntries
  BY DEF TypeOK
<1>2. QED
  BY <1>1 DEF LogEntries, AuthHashes

(* The entry an authorized call logs.                                      *)
LEMMA LoggedEntry ==
  ASSUME TypeOK, NEW h \in AuthHashes, NEW k \in Keys, VerifyAuthorization(h, k)
  PROVE  /\ [auth |-> h, signer |-> k, epoch |-> epoch[h.sender]] \in LogEntries
         /\ log' = Append(log, [auth |-> h, signer |-> k, epoch |-> epoch[h.sender]])
         /\ log \in Seq(LogEntries)
  BY DEF VerifyAuthorization, TypeOK, LogEntries, AuthHashes

(* The replay table records exactly the calls that ran: the check and the  *)
(* two writes of _verifyAuthorization are one step, and a revert undoes it *)
(* together with the function it guards.                                   *)
THEOREM UsedIsLoggedAlways == Spec => []UsedIsLogged
<1>1. Init => UsedIsLogged
  BY DEF Init, UsedIsLogged
<1>2. TypeOK /\ UsedIsLogged /\ [Next]_vars => UsedIsLogged'
  <2> SUFFICES ASSUME TypeOK, UsedIsLogged, [Next]_vars
               PROVE  UsedIsLogged'
    OBVIOUS
  <2>1. ASSUME NEW h \in AuthHashes, NEW k \in Keys, VerifyAuthorization(h, k)
        PROVE  UsedIsLogged'
    <3> DEFINE e == [auth |-> h, signer |-> k, epoch |-> epoch[h.sender]]
    <3>1. e \in LogEntries /\ log' = Append(log, e) /\ log \in Seq(LogEntries)
      BY <2>1, LoggedEntry
    <3>2. usedAuthorizations' = usedAuthorizations \cup {h}
      BY <2>1 DEF VerifyAuthorization
    <3>3. e.auth = h
      OBVIOUS
    <3> HIDE DEF e
    <3>4. QED
      BY <3>1, <3>2, <3>3, LogAppend DEF UsedIsLogged
  <2>2. CASE UNCHANGED <<usedAuthorizations, log>>
    BY <2>2 DEF UsedIsLogged
  <2>3. QED
    BY <2>1, <2>2, StepCases DEF EmergencyResetNonce, replayVars
<1>3. QED
  BY <1>1, <1>2, TypeCorrect, PTL DEF Spec

(* One-time use: no authorization runs twice, across nonce resets and key  *)
(* rotations.                                                              *)
THEOREM NoReplayAlways == Spec => []NoReplay
<1>1. Init => NoReplay
  BY DEF Init, NoReplay
<1>2. TypeOK /\ UsedIsLogged /\ NoReplay /\ [Next]_vars => NoReplay'
  <2> SUFFICES ASSUME TypeOK, UsedIsLogged, NoReplay, [Next]_vars
               PROVE  NoReplay'
    OBVIOUS
  <2>1. ASSUME NEW h \in AuthHashes, NEW k \in Keys, VerifyAuthorization(h, k)
        PROVE  NoReplay'
    <3> DEFINE e == [auth |-> h, signer |-> k, epoch |-> epoch[h.sender]]
    <3>1. e \in LogEntries /\ log' = Append(log, e) /\ log \in Seq(LogEntries)
      BY <2>1, LoggedEntry
    <3>2. \A i \in DOMAIN log : log[i].auth # h
      BY <2>1 DEF VerifyAuthorization, UsedIsLogged
    <3>3. e.auth = h
      OBVIOUS
    <3> HIDE DEF e
    <3>4. QED
      BY <3>1, <3>2, <3>3, LogAppend DEF NoReplay
  <2>2. CASE UNCHANGED log
    BY <2>2 DEF NoReplay
  <2>3. QED
    BY <2>1, <2>2, StepCases DEF EmergencyResetNonce, replayVars
<1>3. QED
  BY <1>1, <1>2, TypeCorrect, UsedIsLoggedAlways, PTL DEF Spec
-----------------------------------------------------------------------------
(* The contract implements OneTimeAuthorization: every step of it is a run *)
(* of a fresh authorization, a key rotation, or invisible.                 *)
THEOREM Refinement == Spec => ImplementsOneTime
<1> DEFINE hist == [i \in DOMAIN log |-> [auth |-> log[i].auth, signer |-> log[i].signer]]
<1>1. Init => OneTime!Init
  <2> SUFFICES ASSUME Init PROVE OneTime!Init
    OBVIOUS
  <2>1. hist = <<>>
    BY DEF Init
  <2>2. QED
    BY <2>1 DEF Init, OneTime!Init
<1>2. TypeOK /\ TypeOK' /\ UsedIsLogged /\ [Next]_vars => [OneTime!Next]_(OneTime!vars)
  <2> SUFFICES ASSUME TypeOK, TypeOK', UsedIsLogged, [Next]_vars
               PROVE  [OneTime!Next]_(OneTime!vars)
    OBVIOUS
  <2>1. ASSUME NEW h \in AuthHashes, NEW k \in Keys, VerifyAuthorization(h, k)
        PROVE  OneTime!Run(h)
    <3> DEFINE e == [auth |-> h, signer |-> k, epoch |-> epoch[h.sender]]
    <3>1. e \in LogEntries /\ log' = Append(log, e) /\ log \in Seq(LogEntries)
      BY <2>1, LoggedEntry
    <3>2. e.auth = h /\ e.signer = k
      OBVIOUS
    <3>3. ~OneTime!HasRun(h)
      <4>1. \A i \in DOMAIN log : log[i].auth # h
        BY <2>1 DEF VerifyAuthorization, UsedIsLogged
      <4>2. QED
        BY <4>1 DEF OneTime!HasRun
    <3>4. hist' = Append(hist, [auth |-> h, signer |-> masterKey])
      <4>1. k = masterKey
        BY <2>1 DEF VerifyAuthorization
      <4> HIDE DEF e
      <4>2. hist' = [i \in 1..(Len(log) + 1) |->
                      IF i = Len(log) + 1 THEN [auth |-> h, signer |-> k]
                      ELSE [auth |-> log[i].auth, signer |-> log[i].signer]]
        BY <3>1, <3>2, LogAppend
      <4>3. hist = [i \in 1..Len(log) |-> [auth |-> log[i].auth, signer |-> log[i].signer]]
        BY <3>1, LogAppend
      <4>4. hist \in Seq([auth : AuthHashes, signer : Keys]) /\ Len(hist) = Len(log)
        <5>1. \A i \in 1..Len(log) : log[i] \in LogEntries
          BY <3>1
        <5>2. \A i \in 1..Len(log) : [auth |-> log[i].auth, signer |-> log[i].signer]
                                        \in [auth : AuthHashes, signer : Keys]
          BY <5>1 DEF LogEntries
        <5>3. Len(log) \in Nat
          BY <3>1
        <5>4. QED
          BY <4>3, <5>2, <5>3
      <4> HIDE DEF hist
      <4>5. QED
        BY <4>1, <4>2, <4>3, <4>4
    <3>5. masterKey' = masterKey
      BY <2>1 DEF VerifyAuthorization, adminVars
    <3>6. QED
      BY <3>3, <3>4, <3>5 DEF OneTime!Run
  <2>2. ASSUME UNCHANGED log
        PROVE  OneTime!Rotate(masterKey')
    <3>1. hist' = hist
      BY <2>2
    <3>2. QED
      BY <3>1 DEF OneTime!Rotate
  <2>3. masterKey' \in Keys
    BY DEF TypeOK
  <2>4. QED
    BY <2>1, <2>2, <2>3, StepCases DEF OneTime!Next, EmergencyResetNonce, replayVars
<1>3. QED
  BY <1>1, <1>2, TypeCorrect, UsedIsLoggedAlways, PTL DEF Spec, OneTime!Spec, ImplementsOneTime
-----------------------------------------------------------------------------
(* The stored nonce is just past the nonces used since the last reset.     *)
(* Inductive on its own (given the types), and what makes SequentialNonces *)
(* preserved by an authorized call.                                        *)
THEOREM NonceBoundAlways == Spec => []NonceBound
<1>1. Init => NonceBound
  BY DEF Init, NonceBound
<1>2. TypeOK /\ NonceBound /\ [Next]_vars => NonceBound'
  <2> SUFFICES ASSUME TypeOK, NonceBound, [Next]_vars, NEW i \in DOMAIN log'
               PROVE  LET s == log'[i].auth.sender IN
                      /\ log'[i].epoch <= epoch'[s]
                      /\ log'[i].epoch = epoch'[s] =>
                           /\ log'[i].auth.nonce < nonces'[s]
                           /\ \A n \in (log'[i].auth.nonce + 1)..(nonces'[s] - 1) :
                                \E m \in DOMAIN log' :
                                  SameRun(i, m)' /\ log'[m].auth.nonce = n
    BY DEF NonceBound
  <2> DEFINE s == log'[i].auth.sender
  <2>0. \A j \in DOMAIN log : /\ log[j].auth.nonce \in Nat
                              /\ log[j].auth.sender \in Accounts
                              /\ log[j].epoch \in Nat
    BY LogTypes
  <2>00. \A a \in Accounts : nonces[a] \in Nat /\ epoch[a] \in Nat
    BY TargetBaseAssumption DEF TypeOK
  <2>1. ASSUME NEW h \in AuthHashes, NEW k \in Keys, VerifyAuthorization(h, k)
        PROVE  /\ log'[i].epoch <= epoch'[s]
               /\ log'[i].epoch = epoch'[s] =>
                    /\ log'[i].auth.nonce < nonces'[s]
                    /\ \A n \in (log'[i].auth.nonce + 1)..(nonces'[s] - 1) :
                         \E m \in DOMAIN log' :
                           SameRun(i, m)' /\ log'[m].auth.nonce = n
    <3> DEFINE e == [auth |-> h, signer |-> k, epoch |-> epoch[h.sender]]
    <3>1. e \in LogEntries /\ log' = Append(log, e) /\ log \in Seq(LogEntries)
      BY <2>1, LoggedEntry
    <3>2. /\ e.auth = h /\ e.epoch = epoch[h.sender]
          /\ h.sender \in Accounts /\ h.nonce = nonces[h.sender]
          /\ nonces' = [nonces EXCEPT ![h.sender] = @ + 1]
          /\ epoch' = epoch
          /\ nonces \in [Accounts -> 0..(MaxNonce + 1)]
      BY <2>1 DEF VerifyAuthorization, AuthHashes, TypeOK
    <3> HIDE DEF e
    <3>3. CASE i = Len(log) + 1
      <4>1. log'[i] = e
        BY <3>1, <3>3, LogAppend
      <4>2. QED
        BY <4>1, <3>2, <2>00
    <3>4. CASE i \in DOMAIN log
      <4>1. log'[i] = log[i]
        BY <3>1, <3>4, LogAppend
      <4>2. CASE log[i].auth.sender # h.sender
        <5>1. nonces'[s] = nonces[s]
          BY <4>1, <4>2, <3>2, <3>4, <2>0
        <5>2. /\ log[i].epoch <= epoch[s]
              /\ log[i].epoch = epoch[s] =>
                   /\ log[i].auth.nonce < nonces[s]
                   /\ \A n \in (log[i].auth.nonce + 1)..(nonces[s] - 1) :
                        \E m \in DOMAIN log : SameRun(i, m) /\ log[m].auth.nonce = n
          BY <4>1, <3>4 DEF NonceBound
        <5>3. \A m \in DOMAIN log : /\ m \in DOMAIN log' /\ log'[m] = log[m]
                                    /\ SameRun(i, m) => SameRun(i, m)'
          BY <3>1, <4>1, LogAppend DEF SameRun
        <5>4. QED
          BY <4>1, <5>1, <5>2, <5>3, <3>2
      <4>3. CASE log[i].auth.sender = h.sender
        <5>1. nonces'[s] = nonces[s] + 1 /\ s = h.sender
          BY <4>1, <4>3, <3>2
        <5>2. log[i].epoch <= epoch[s]
          BY <4>1, <3>4 DEF NonceBound
        <5>3. ASSUME log[i].epoch = epoch[s],
                     NEW n \in (log[i].auth.nonce + 1)..(nonces[s] + 1 - 1)
              PROVE  \E m \in DOMAIN log' : SameRun(i, m)' /\ log'[m].auth.nonce = n
          <6>1. CASE n = nonces[s]
            <7>1. log'[Len(log) + 1] = e /\ Len(log) + 1 \in DOMAIN log'
              BY <3>1, LogAppend
            <7>2. PICK m \in DOMAIN log' : log'[m] = e
              BY <7>1
            <7>3. log[i].epoch = e.epoch
              BY <5>1, <5>3, <3>2
            <7>4. SameRun(i, m)'
              BY <7>2, <7>3, <4>1, <4>3, <3>2 DEF SameRun
            <7>5. QED
              BY <7>2, <7>4, <6>1, <5>1, <3>2
          <6>2. CASE n # nonces[s]
            <7>1. n \in (log[i].auth.nonce + 1)..(nonces[s] - 1)
              BY <6>2, <5>1, <2>0, <2>00, <3>2, <3>4
            <7>2. PICK m \in DOMAIN log : SameRun(i, m) /\ log[m].auth.nonce = n
              BY <7>1, <5>3, <4>1, <3>4 DEF NonceBound
            <7>3. m \in DOMAIN log' /\ log'[m] = log[m]
              BY <3>1, LogAppend
            <7>4. QED
              BY <7>2, <7>3, <4>1 DEF SameRun
          <6>3. QED
            BY <6>1, <6>2
        <5>4. log[i].epoch = epoch[s] => log[i].auth.nonce < nonces[s] + 1
          BY <4>1, <3>4, <2>0, <2>00, <3>2, <5>1 DEF NonceBound
        <5>5. QED
          BY <5>1, <5>2, <5>3, <5>4, <4>1, <3>2
      <4>4. QED
        BY <4>2, <4>3
    <3>5. QED
      BY <3>1, <3>3, <3>4, LogAppend
  <2>2. ASSUME NEW u \in Accounts, NEW n0 \in 0..MaxNonce, NEW c \in Keys,
               EmergencyResetNonce(c, u, n0)
        PROVE  /\ log'[i].epoch <= epoch'[s]
               /\ log'[i].epoch = epoch'[s] =>
                    /\ log'[i].auth.nonce < nonces'[s]
                    /\ \A n \in (log'[i].auth.nonce + 1)..(nonces'[s] - 1) :
                         \E m \in DOMAIN log' :
                           SameRun(i, m)' /\ log'[m].auth.nonce = n
    <3>1. /\ log' = log
          /\ epoch' = [epoch EXCEPT ![u] = @ + 1]
          /\ nonces' = [nonces EXCEPT ![u] = n0]
          /\ epoch \in [Accounts -> 0..MaxResets]
          /\ nonces \in [Accounts -> 0..(MaxNonce + 1)]
      BY <2>2 DEF EmergencyResetNonce, TypeOK
    <3>2. s \in Accounts /\ log[i].epoch <= epoch[s]
      BY <3>1, <2>0 DEF NonceBound
    <3>3. CASE s = u
      <4>1. epoch'[s] = epoch[s] + 1
        BY <3>1, <3>2, <3>3
      <4>2. log'[i].epoch <= epoch'[s] /\ log'[i].epoch # epoch'[s]
        BY <4>1, <3>1, <3>2, <2>0, <2>00
      <4>3. QED
        BY <4>2
    <3>4. CASE s # u
      BY <3>1, <3>2, <3>4 DEF NonceBound, SameRun
    <3>5. QED
      BY <3>3, <3>4
  <2>3. CASE UNCHANGED <<replayVars, epoch>>
    BY <2>3 DEF NonceBound, SameRun, replayVars
  <2>4. QED
    BY <2>1, <2>2, <2>3, StepCases
<1>3. QED
  BY <1>1, <1>2, TypeCorrect, PTL DEF Spec

(* Between two resets of its nonce, the calls of a sender run in nonce     *)
(* order and leave no nonce out.                                           *)
THEOREM SequentialNoncesAlways == Spec => []SequentialNonces
<1>1. Init => SequentialNonces
  BY DEF Init, SequentialNonces
<1>2. TypeOK /\ NonceBound /\ SequentialNonces /\ [Next]_vars => SequentialNonces'
  <2> SUFFICES ASSUME TypeOK, NonceBound, SequentialNonces, [Next]_vars
               PROVE  SequentialNonces'
    OBVIOUS
  <2>1. ASSUME NEW h \in AuthHashes, NEW k \in Keys, VerifyAuthorization(h, k)
        PROVE  SequentialNonces'
    <3> DEFINE e == [auth |-> h, signer |-> k, epoch |-> epoch[h.sender]]
    <3>1. e \in LogEntries /\ log' = Append(log, e) /\ log \in Seq(LogEntries)
      BY <2>1, LoggedEntry
    <3>2. /\ e.auth = h /\ e.epoch = epoch[h.sender]
          /\ h.nonce = nonces[h.sender]
      BY <2>1 DEF VerifyAuthorization
    <3> HIDE DEF e
    <3>3. SUFFICES ASSUME NEW i \in DOMAIN log', NEW j \in DOMAIN log', i < j, SameRun(i, j)'
                   PROVE  /\ log'[i].auth.nonce < log'[j].auth.nonce
                          /\ \A n \in (log'[i].auth.nonce + 1)..(log'[j].auth.nonce - 1) :
                               \E m \in DOMAIN log' : SameRun(i, m)' /\ log'[m].auth.nonce = n
      BY DEF SequentialNonces
    <3>4. /\ i \in DOMAIN log /\ log'[i] = log[i]
          /\ \A m \in DOMAIN log : m \in DOMAIN log' /\ log'[m] = log[m]
      BY <3>1, <3>3, LogAppend
    <3>5. CASE j \in DOMAIN log
      BY <3>3, <3>4, <3>5 DEF SequentialNonces, SameRun
    <3>6. CASE j = Len(log) + 1
      <4>1. log'[j] = e
        BY <3>1, <3>6, LogAppend
      <4>2. log[i].auth.sender = h.sender /\ log[i].epoch = epoch[h.sender]
        BY <3>2, <3>3, <3>4, <4>1 DEF SameRun
      <4>3. /\ log[i].auth.nonce < h.nonce
            /\ \A n \in (log[i].auth.nonce + 1)..(h.nonce - 1) :
                 \E m \in DOMAIN log : SameRun(i, m) /\ log[m].auth.nonce = n
        BY <3>2, <3>4, <4>2 DEF NonceBound
      <4>4. QED
        BY <3>2, <3>4, <4>1, <4>3 DEF SameRun
    <3>7. QED
      BY <3>1, <3>3, <3>5, <3>6, LogAppend
  <2>2. CASE UNCHANGED log
    BY <2>2 DEF SequentialNonces, SameRun
  <2>3. QED
    BY <2>1, <2>2, StepCases DEF EmergencyResetNonce, replayVars
<1>3. QED
  BY <1>1, <1>2, TypeCorrect, NonceBoundAlways, PTL DEF Spec
=============================================================================
