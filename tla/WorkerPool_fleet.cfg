\* Two callers and two endpoints that go away and come back.
CONSTANTS
    N = 2
    Caller = {c1, c2}
    Threshold = 2
    MaxAttempts = 2
    ResetAfter = 1
    Deadline = 1
SPECIFICATION FairSpec
INVARIANTS StaleDispatchesBounded HealthyAnswers
PROPERTIES RecoveredIsUsed
