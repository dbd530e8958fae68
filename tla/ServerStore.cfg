SPECIFICATION FairSpec
CONSTANTS
  l1 = l1  a = a  b = b  k1 = k1  v1 = v1  v2 = v2
  Lineages = {l1}
  MutationIds = {a, b}
  Keys = {k1}
  Values = {v1, v2}
  Absent = Absent
  NoSnapshot = NoSnapshot
  Compactor = Compactor
  Sweeper = Sweeper
  Envelopes <- OneClient
  Discardable <- ChangedDiscarded
  Callers = {p, q}
  RetainedReceipts = 0
  MaximumReceipts = 1
  RetainedHistory = 1
  MaximumHistory = 2
  MaximumEntities = 1
  PruneBatchSize = 1
  RetainedSnapshots = 1
  MaxFailures = 1
INVARIANTS
  TypeOK NeverCorrupt StateIsReplayOfLog
  RestsBelowHighWater
PROPERTIES LedgerSpec BackpressureClears
CHECK_DEADLOCK FALSE
