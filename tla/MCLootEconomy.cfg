SPECIFICATION FairSpec
CONSTANTS
  b1 = b1  b2 = b2  o1 = o1  o2 = o2  h1 = h1  h2 = h2  r1 = r1
  e1 = e1  e2 = e2  hat = hat  coat = coat  none = none
  Buyers = {b1, b2}
  Openers = {o1, o2}
  Readers = {r1}
  Hooks = {h1, h2}
  Events = {e1, e2}
  Traits = {hat, coat}
  DefaultXp = 3
  XpPerLootKey = 2
  LootKeysPerOpen = 1
  MaxUnlocks = 1
  Quantities = {2}
  XpTotals = {0, 5}
  KeyDeltas = {1}
  NoRequest = none
  UpsertLocks = TRUE
INVARIANTS LedgerBalances EntriesExplained
PROPERTIES NoOverspend PurchaseKeepsTotal RequestsEnd
CHECK_DEADLOCK FALSE
