SPECIFICATION WebSpec
CONSTANTS
  Pages = {p1, p2}
  Calls = {c1}
  MaxWebSessions = 5
  MaxEvents = 2
PROPERTIES
  GraceMeansCookieReceived
CHECK_DEADLOCK FALSE
