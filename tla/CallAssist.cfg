SPECIFICATION MCSpec
CHECK_DEADLOCK FALSE
CONSTANTS
  MaxCalls = 2
  MaxTexts = 2
  MaxStray = 1
  MaxFires = 2
  Types = {1}
  NoFire = NoFire
  NoOne = NoOne
  c1 = c1
  c2 = c2
  w1 = w1
  w2 = w2
  MaxRequests = 2
  Runners = {w1, w2}
  Customers = {c1, c2}
  Attempts = 3
  MaxStalls = 1
  MaxAppends = 2
INVARIANTS
  SuggestionsAreTrue
  RecordAgrees
PROPERTIES
  EditsStand
  AnswersArrive
