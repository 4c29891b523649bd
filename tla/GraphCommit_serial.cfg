\* One committing thread: failed writes, lost index flushes, restarts anywhere.
CONSTANTS
    a = a
    b = b
    Node = {a, b}
    Content = {x, y}
    Absent = Absent
    Pair <- Link
    Source <- OneEach
    Kind = {references, links_to}
    Overlap = FALSE
SPECIFICATION Spec
SYMMETRY Alike
INVARIANTS OwesWhatDiffers AggregatesExact
PROPERTIES StoresWholeGraphs IndexHeals
CHECK_DEADLOCK FALSE
