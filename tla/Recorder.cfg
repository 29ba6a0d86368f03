SPECIFICATION FairSpec
CONSTANTS
  QueueSize = 2
  FlushEvery = 2
  MaxRecords = 4
  NoSummary = NoSummary
INVARIANTS TypeOK SilenceMeansWhole WrittenSurvives AcceptedAccounted FaultWindowKept OrderKept
PROPERTIES NothingHangs
