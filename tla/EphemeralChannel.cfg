SPECIFICATION FairChannel
CONSTANTS
  a = a b = b v1 = v1 v2 = v2 s1 = s1
  Clients = {a, b}
  Values = {v1, v2}
  States = {s1}
  First = v1
  None = None
  Unknown = Unknown
  Capacity = 2
  MaxPublications = 1
  MaxDisturbances = 1
INVARIANTS ViewTracksHub UpdatesHold
PROPERTIES PresenceConverges
CHECK_DEADLOCK FALSE
