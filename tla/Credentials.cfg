SPECIFICATION Spec
CONSTANTS
  MaxTokens = 2
  MaxSecrets = 2
  Threshold = 2
  Procs = {p1, p2}
  Orgs = {1}
  Movable = {1}
  None = None
SYMMETRY ProcSymmetry
INVARIANTS
  TypeOK
  SecretsAreProven
PROPERTIES
  FactorsAreEarned
