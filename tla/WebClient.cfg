SPECIFICATION WebFairSpec
CONSTANTS
  Pages = {p1, p2}
  Calls = {c1}
  MaxWebSessions = 5
  MaxEvents = 2
CHECK_DEADLOCK FALSE
INVARIANTS
  StaysSignedIn
PROPERTIES
  WaitersReleased
  ServerKeepsChain
