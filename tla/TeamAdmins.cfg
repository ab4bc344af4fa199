SPECIFICATION FairSpec
CONSTANTS
  Members <- TwoMembers
  Teams = {t1}
  Patches <- DemoteOrDisable
  Procs = {p1, p2}
  Roles = {"admin", "employee"}
  None = None
  Gone = Gone
  InitialAdmins <- Second
INVARIANTS
  PatchesAreSerial
  SameAdminsNoDeadlock
PROPERTIES
  RequestsEnd
