SPECIFICATION Spec
CONSTANTS
  e1 = e1  e2 = e2  s1 = s1  none = none
  Events = {e1, e2}
  NoEvent = none
  Servers = {s1}
  MaxAttempts = 2
  BatchSize = 2
  MaxCuts = 1
  MaxTrouble = 1
INVARIANTS QueuedOnce EnqueuedInOrder TokensReal ItemsAccounted
SYMMETRY Interchangeable
CHECK_DEADLOCK FALSE
