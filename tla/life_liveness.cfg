SPECIFICATION FairSpec
CONSTANTS
  c1 = c1
  Chats = {c1}
  Sessions = {s1}
  Handlers = {h1}
  Workers = {w1}
  ChatOf <- OneChat
  Never = Never
  IdleFor = 1
  UnansweredFor = 1
  SnoozeFor = 2
  MaxLead = 1
  CanFail = FALSE
  MaxWorkerCrashes = 1
  MaxBotCrashes = 0
  MaxTitles = 1
PROPERTIES SilenceEnds
