SPECIFICATION MCSpec
CHECK_DEADLOCK FALSE
SYMMETRY Swaps
CONSTANTS
  o1 = o1
  o2 = o2
  ann = ann
  bob = bob
  cat = cat
  r1 = r1
  r2 = r2
  k1 = k1
  k2 = k2
  None = None
  Requests = {r1, r2}
  Addresses <- MCAddresses
  Founders <- MCFounders
  Movable <- MCFounders
  Limits <- MCLimits
  MaxInvitations = 3
  MaxTokens = 3
  Clients = {r1, r2}
  Bases = {k1, k2}
  MaxChunks = 2
  MaxRows = 2
  Months = 2
  NoCap = None
  Caps <- MCCaps
  q = q
  Writers = {q}
  SlipPayloads <- MCSlips
  call = call
  recording = recording
  RowIds = {1, 2, 3}
  Actions = {call, recording}
  Filterable = {call}
  Ranges <- MCRanges
  MaxLimit = 2
  Milli = 2
  MaxTime = 2
  AnyAction = AnyAction
  NoRow = NoRow
INVARIANTS
  NoWaitCycle
  PlanHolds
  AuditIsJust
  FeedIsTrue
PROPERTIES
  InvitationsAreKept
