SPECIFICATION Spec
CONSTANTS
  MaxSessions = 3
  MaxDisables = 1
  Procs = {p1, p2}
  None = None
SYMMETRY ProcSymmetry
INVARIANTS
  FamilyIsOneChain
  SignedInRightly
PROPERTIES
  RevocationHolds
  KeepsChain
