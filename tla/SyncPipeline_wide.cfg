\* Every kind of pass, two files and two configurations.
SPECIFICATION Spec
CONSTANTS
  File = {a, b}
  Content = {1, 2}
  Config = {k1, k2}
  Modes = {"apply", "incremental", "repair", "full", "task", "remove", "replace"}
  Kinds = {"archived", "removed"}
  Reverts = FALSE
  MaxEdits = 1
  MaxFaults = 2
INVARIANTS FullPassAgrees RepairHeals CancelKeepsWork ResumeIsSound
SYMMETRY Symmetry
