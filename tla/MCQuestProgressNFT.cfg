\* Up to four authorized calls, so that a mint can nest in a mint and a
\* trait update can run before or after either of them.
CONSTANTS
  alice = alice
  owner = owner
  implA = implA
  noCode = noCode
  b1 = b1
  noBrand = noBrand
  Accounts = {alice}
  Keys = {owner}
  Owner = owner
  Impls = {implA}
  NoCode = noCode
  MaxNonce = 3
  MaxTime = 0
  MaxLog = 4
  MaxResets = 0
  Brands = {b1, noBrand}
  NoBrand = noBrand
  TraitKeys <- MCTraitKeys
  Values = {0, 1, 2}
  Updates <- MCUpdates
  OwnerWrites <- MCOwner
  URIs = {"u1"}
SPECIFICATION Spec
INVARIANTS BrandFromAuthorization ResultsMatchBrand TraitsFollowLog
PROPERTIES ImplementsTargetBase
CHECK_DEADLOCK FALSE
