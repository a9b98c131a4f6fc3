SPECIFICATION FairSpec
CONSTANTS
  http = http
  cmd = cmd
  None = None
  h1 = h1
  h2 = h2
  Deployments <- HttpThenCli
  CliModels = {cmd}
  Handlers = {h1, h2}
  Taps = {}
  ToolUsers = {h1}
  MaxIterations = 2
  MaxBatch = 2
  MaxCliCalls = 2
  CanRestart = TRUE
VIEW WithoutWords
INVARIANTS TypeOK
PROPERTIES NoOldBlock NoSilentChange GrantEndsWithTurn KeepsToTheChain EveryTurnEnds
