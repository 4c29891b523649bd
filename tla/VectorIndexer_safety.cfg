\* Two sources of two chunks each, queued one at a time or together, and again before they are
\* stored or after a reset.
SPECIFICATION FairSpec
CONSTANTS
  Thread = {s1, s2}
  PerSource = 2
  PerArtifact = 2
  QueueSize = 2
  MaxSeq = 3
  MaxFailures = 1
INVARIANTS FlushGuarantee NothingLandsLate PendingBounded
PROPERTIES SubmitEnds
