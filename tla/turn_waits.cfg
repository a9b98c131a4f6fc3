SPECIFICATION FairSpec
CONSTANTS
  http = http
  cmd = cmd
  None = None
  h1 = h1
  Deployments <- HttpThenCli
  CliModels = {cmd}
  Handlers = {h1}
  Taps = {}
  ToolUsers = {}
  MaxIterations = 2
  MaxBatch = 2
  MaxCliCalls = 2
  CanRestart = FALSE
PROPERTIES WaitingHelps
