SPECIFICATION Spec
CONSTANTS
  c1 = c1
  Chats = {c1}
  Sessions = {s1}
  Handlers = {h1}
  Workers = {w1, w2}
  ChatOf <- OneChat
  Never = Never
  IdleFor = 0
  UnansweredFor = 1
  SnoozeFor = 2
  MaxLead = 0
  CanFail = TRUE
  MaxWorkerCrashes = 0
  MaxBotCrashes = 0
  MaxTitles = 1
INVARIANTS TypeOK ClaimedOnce ConsentOfSilence
