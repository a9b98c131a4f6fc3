SPECIFICATION FairSpec
CONSTANTS
  p1 = p1
  Rows = {r1}
  People = {p1}
  Chat = Chat
  Creator = p1
  Handlers = {h1}
  Workers = {w1}
  Offsets <- Eastward
  Requests <- Mixed
  Instants <- One
  MaxDeliveries = 3
  MaxAttempts = 2
  MinInterval = 1
  Horizon = 3
  CanFail = TRUE
  MaxZones = 1
  MaxCrashes = 1
  Never = Never
INVARIANTS RetiredForCause
PROPERTIES CancelledStays Settles
