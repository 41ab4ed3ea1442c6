SPECIFICATION MCSpec
CONSTANTS
  p1 = p1  r1 = r1  n1 = n1  n2 = n2  c1 = c1  c2 = c2
  RunType = "MINT_BASE_NFT"
  Polls = {p1}
  Retries = {r1}
  MaxAge = 2
  Ids = {n1, n2}
  Calls = {c1, c2}
  None = None
  MaxMoves = 3
INVARIANTS SuccessIsReported HashesReal FailedIsReal PanelOfOneRun SucceededForReal
\* A run that is settled, with nobody left to ask for it, is the end.
CHECK_DEADLOCK FALSE
