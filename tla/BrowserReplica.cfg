CONSTANTS
  t1 = t1
  t2 = t2
  old = old
  new = new
  Tabs = {t1, t2}
  Builds <- SameOrLater
  Version <- Versions
  InFront = {t2}
  Operations <- Applications
  None = None
  MaxMessages = 1
  MaxDisturbances = 1
SPECIFICATION FairSpec
INVARIANTS OnlyTheLeaderWrites OncePerCall CacheIsWarned
PROPERTIES EveryCallEnds VisibleTabLeads
CHECK_DEADLOCK FALSE
