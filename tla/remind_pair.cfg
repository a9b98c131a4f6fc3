SPECIFICATION Spec
CONSTANTS
  p1 = p1
  Rows = {r1, r2}
  People = {p1}
  Chat = Chat
  Creator = p1
  Handlers = {h1}
  Workers = {w1}
  Offsets <- Eastward
  Requests <- Mixed
  Instants <- One
  MaxDeliveries = 2
  MaxAttempts = 2
  MinInterval = 2
  Horizon = 3
  CanFail = TRUE
  MaxZones = 0
  MaxCrashes = 1
  Never = Never
SYMMETRY RowSymmetry
INVARIANTS TypeOK PromisedCount SpacedOut NoneSwallowed
