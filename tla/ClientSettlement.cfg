SPECIFICATION FairSpec
CONSTANTS
  a = a  b = b  c = c
  Mutations = {a, b}
  Keys = {1, 2}
  KeyOf <- Entities
  NameOf <- Names
  Strict <- Edits
  Denied = {}
  Other = Other
  None = None
  PageSize = 1
  SubmitBatch = 2
  ReplayBatch = 1
  MaximumPending = 2
  MaximumReceipts = 2
  RetainedReceipts = 0
  RetainedMutationIds = 2
  Listens = "edit"
  Fragile = {"revoke"}
  Policies = {None, {2}}
  MaxCommits = 2
  MaxWrites = 1
  MaxPolicies = 1
  MaxFailures = 1
  MaxLapses = 1
INVARIANTS VisibleIsReplay NothingMissed
PROPERTIES WritesStay ImplementsOutbox EverySettled
CHECK_DEADLOCK FALSE
