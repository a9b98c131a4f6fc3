SPECIFICATION Spec
CONSTANTS
  c1 = c1
  Chats = {c1}
  Sessions = {s1, s2}
  Handlers = {h1, h2}
  Workers = {w1}
  ChatOf <- OneChat
  Never = Never
  IdleFor = 0
  UnansweredFor = 0
  SnoozeFor = 1
  MaxLead = 0
  CanFail = FALSE
  MaxWorkerCrashes = 0
  MaxBotCrashes = 0
  MaxTitles = 0
SYMMETRY SessionSymmetry
VIEW RaceView
INVARIANTS OneActivePerChat AnnouncedOnce
PROPERTIES CloseIsFinal
