\* Two workers, two requests or a request and its replay, a death or a raise, a lapse.
CONSTANTS
    Message = {1, 2}
    Letter = {1, 2, 3}
    Worker = {w1, w2}
    MaxAttempts = 2
    MaxDrops = 2
    MaxLapses = 1
    MaxExpiries = 1
SPECIFICATION FairSpec
INVARIANTS NothingLost
PROPERTIES BuriedIsNotRun KeepsContract EventuallyLeaves
CHECK_DEADLOCK FALSE
