SPECIFICATION Spec
CONSTANTS
  http = http
  cmd = cmd
  p1 = p1
  p2 = p2
  name = name
  banan = banan
  banany = banany
  ripe = ripe
  k1 = k1
  a1 = a1
  a2 = a2
  h1 = h1
  h2 = h2
  t1 = t1
  None = None
  Handlers = {h1, h2}
  Deployments <- OneDropped
  Taps = {t1}
  People = {p1, p2}
  WithHandle = {p1}
  NameOf <- OneName
  MaxRows = 4
  MaxUpdates = 4
  Spellings = {banan, banany, ripe}
  Canonical <- Nominative
  KeyOf <- Lemma
  Legacy <- OldLists
  Asked <- Requests
  Amounts = {a1, a2}
  MaxItems = 3
  MaxCalls = 4
  MaxProposals = 2
  MaxSessions = 2
  MaxMessages = 3
  SendsFail = TRUE
  CanCrash = TRUE
SYMMETRY HandlerSymmetry
CHECK_DEADLOCK FALSE
INVARIANTS RosterTypeOK OneRowAfterSpeaking ListTypeOK OneRowOnceAdded
  ConfirmTypeOK TakenOnce DoneIsTrue ConfirmedIsNotDropped
  ChainIsASelection SettingsTakeEffect
PROPERTIES NoAnswerLost NothingIsLost
