SPECIFICATION Spec
CONSTANTS
  c1 = c1
  Chats = {c1}
  Sessions = {s1}
  Handlers = {h1, h2}
  Workers = {w1}
  ChatOf <- OneChat
  Never = Never
  IdleFor = 0
  UnansweredFor = 1
  SnoozeFor = 2
  MaxLead = 1
  CanFail = FALSE
  MaxWorkerCrashes = 0
  MaxBotCrashes = 1
  MaxTitles = 0
SYMMETRY HandlerSymmetry
INVARIANTS NeverNagged
PROPERTIES KeepsContract
