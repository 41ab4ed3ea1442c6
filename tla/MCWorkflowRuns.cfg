SPECIFICATION FairSpec
CONSTANTS
  p1 = p1  r1 = r1  r2 = r2
  RunType = "OPEN_LOOTBOX"
  Polls = {p1}
  Retries = {}
  MaxAge = 1
PROPERTY PollingEnds
\* A run that is settled, with nobody left to ask for it, is the end.
CHECK_DEADLOCK FALSE
