SPECIFICATION Spec
CONSTANTS
  File = {a, b}
  Content = {1, 2}
  Config = {k1}
  Modes = {"incremental", "full"}
  Kinds = {}
  Reverts = FALSE
  MaxEdits = 0
  MaxFaults = 1
INVARIANTS HealthyIsComplete
SYMMETRY Symmetry
