SPECIFICATION FairSpec
CONSTANTS
  b1 = b1
  b2 = b2
  Brands <- MCBrands
  Owned <- MCOwned
  Runs = {r1, r2}
  Requests = {q1}
  None = None
  MaxTrouble = 2
  MaxMoves = 2
INVARIANTS ServedOwned QuietTabAgrees GateIsAnswered
PROPERTY GateOpens
CHECK_DEADLOCK FALSE
