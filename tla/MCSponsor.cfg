SPECIFICATION MCSpec
CONSTANTS
  p1 = p1  p2 = p2  c1 = c1  c2 = c2  f1 = f1  f2 = f2
  Spenders = {p1, p2}
  Callbacks = {c1, c2}
  Half = 2
  Initially = 5
  Amounts = {3}
  Reported <- MCReported
  MaxPayments = 1
  Flows = {f1, f2}
  Typed = {1, 5}
  MaxTopUp = 4
  Timeout = 1
  None = None
  MaxTime = 2
  MaxMoves = 1
  PackIds = {p1, p2}
  Contracts = {f1, f2}
  Requests = {c1, c2}
  Null = Null
  MaxEvents = 2
INVARIANTS OwesLessThanMint NoCreditFromNothing ExactUnlessOverlapped
INVARIANTS PaidAsSigned SettingsKept ShownOfSelected
SYMMETRY Interchangeable
CHECK_DEADLOCK FALSE
