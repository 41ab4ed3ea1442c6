SPECIFICATION RecordsSpec
CONSTANTS
  b1 = b1  b2 = b2  w1 = w1  w2 = w2  q1 = q1  q2 = q2  q3 = q3
  Brands = {b1, b2}
  Wallets = {w1, w2}
  Requests = {q1, q2, q3}
  Shared = TRUE
  MaxRuns = 2
INVARIANTS RecordsGenuine NoSharedToken OneOpenMint
SYMMETRY Interchangeable
CHECK_DEADLOCK FALSE
