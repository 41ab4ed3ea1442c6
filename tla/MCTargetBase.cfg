\* Two accounts; the two expiry times give each nonce two authorizations.
CONSTANTS
  alice = alice
  bob = bob
  owner = owner
  k1 = k1
  implA = implA
  mint = mint
  noCode = noCode
  Accounts = {alice, bob}
  Keys = {owner, k1}
  Owner = owner
  Impls = {implA}
  NoCode = noCode
  Calls = {mint}
  MaxNonce = 2
  MaxTime = 1
  MaxLog = 3
  MaxResets = 1
SPECIFICATION Spec
INVARIANTS NoReplay SequentialNonces
PROPERTY ImplementsOneTime
