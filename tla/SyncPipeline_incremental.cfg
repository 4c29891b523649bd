\* The passes that keep what is indexed; each edit makes a content that was not there before.
SPECIFICATION FairSpec
CONSTANTS
  File = {a, b}
  Content = {1, 2}
  Config = {k1}
  Modes = {"incremental", "repair", "deferred"}
  Kinds = {"archived"}
  Reverts = FALSE
  MaxEdits = 2
  MaxFaults = 1
INVARIANTS SkipIsSafe
PROPERTIES Converges ArchivedLeaves
