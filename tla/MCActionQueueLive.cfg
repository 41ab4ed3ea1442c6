SPECIFICATION FairSpec
CONSTANTS
  e1 = e1  e2 = e2  s1 = s1  none = none
  Events = {e1}
  NoEvent = none
  Servers = {s1}
  MaxAttempts = 2
  BatchSize = 1
  MaxCuts = 1
  MaxTrouble = 5
INVARIANT KeysNotInvented
PROPERTY QueueDrains
CHECK_DEADLOCK FALSE
