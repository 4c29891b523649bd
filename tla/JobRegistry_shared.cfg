\* Two processes share the snapshot directory; one of them may stall, die and fail to write.
CONSTANTS
    server = server
    other = other
    job1 = job1
    job2 = job2
    ids <- SharedId
    Process = {server, other}
    Job = {job1, job2}
    NoJob = NoJob
    NoSnapshot = NoSnapshot
    Faulty = {other}
    StaleAfter = 1
    MaxRecords = 1
    MaxCreates = 2
SPECIFICATION FairJobSpec
INVARIANTS RunningIsListed RunningJobShows
PROPERTIES OrphanEnds
