\* Three contenders for one source's lock, one of them killed; two callers.
CONSTANTS
    Contender = {a, b, c}
    NoFile = NoFile
    NoRow = NoRow
    NoOne = NoOne
    Caller = {u, v}
    MaxCrashes = 1
SPECIFICATION FairRunSpec
INVARIANTS CreateExcludes FirstAskerStops KilledRunIsNoticed
PROPERTIES LeftoverCleared OnlyItsRunClearsTheRow AskedRunStops
