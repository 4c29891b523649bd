\* Three processes, one lease each; two of them suffer faults and crashes.
CONSTANTS
    a = a
    b = b
    c = c
    Lease = {a, b, c}
    Owner = {a, b, c}
    Host = {a, b, c}
    ownerOf <- OneLeaseEach
    hostOf <- TwoHosts
    NoOwner = NoOwner
    NoLease = NoLease
    StaleAfter = 4
    MaxFailures = 3
    Faulty = {a, b}
SPECIFICATION FairSpec
INVARIANTS LeaseExclusion
PROPERTIES LiveRowIsSafe AbandonedRowYields
