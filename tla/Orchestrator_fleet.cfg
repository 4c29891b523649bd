\* One process that is elected, loses the lease and is elected again; the
\* drainer and the watcher of the first leadership may live into the second.
\* It rests when it has been promoted twice and everything is stopped.
CONSTANTS
    Free = Free
    Startup = Startup
    MaxStragglers = 1
    MaxPromotions = 2
SPECIFICATION FairFleetSpec
INVARIANTS GateShared
PROPERTIES ChangeIsServed DemotedRests
CHECK_DEADLOCK FALSE
