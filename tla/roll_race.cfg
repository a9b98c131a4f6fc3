SPECIFICATION Spec
CONSTANTS
  Sessions = {s1}
  Handlers = {h1,h2}
  Workers = {w1}
  People = {p1}
  Rows = {r1,r2}
  MaxRounds = 3
  Gap <- Doubling
  CountKnown = TRUE
  CanFail = FALSE
  ReadsFail = FALSE
  MaxCrashes = 0
  Nobody = Nobody
SYMMETRY RowSymmetry
INVARIANTS OneRunPerSession AtMostOneExtra
PROPERTIES OverIsOver
