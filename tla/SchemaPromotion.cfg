SPECIFICATION FairSpec
CONSTANTS
  old = old
  new1 = new1
  new2 = new2
  Processes = {old, new1, new2}
  Version <- Rolling
  Keys = {1, 2}
  Values = {v1}
  Absent = Absent
  Clients = {1}
  BatchSize = 1
  None = None
  MaxWrites = 1
  MaxFailures = 1
  Overtakes = FALSE
  Releases = {1, 2, 3}
  Mutations = {1, 2}
  KeyOf <- Handlers
  Strict = {2}
  Refused <- Stricter
  Other = Other
  MaxCuts = 1
INVARIANTS ViewsAreCurrent NothingLost ShownIsReplay
PROPERTIES ImplementsUpgrade PromotionEnds
