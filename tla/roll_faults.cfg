SPECIFICATION FairSpec
CONSTANTS
  Sessions = {s1}
  Handlers = {h1}
  Workers = {w1}
  People = {p1}
  Rows = {r1}
  MaxRounds = 2
  Gap <- TwoRounds
  CountKnown = TRUE
  CanFail = TRUE
  ReadsFail = TRUE
  MaxCrashes = 1
  Nobody = Nobody
INVARIANTS TypeOK EveryRoundPosted
PROPERTIES RunsEnd
