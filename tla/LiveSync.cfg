SPECIFICATION FairSpec
CONSTANTS
  c1 = c1
  c2 = c2
  w1 = w1
  w2 = w2
  k1 = k1
  k2 = k2
  Callers = {c1, c2}
  Journeys <- TwoCalls
  Supported = {1, 2}
  Releases <- OldAndNew
  Hides = TRUE
  Nobody = Nobody
  MaxTroubles = 3
  Watchers = {w1, w2}
  Keys = {k1, k2}
  Half = 1
  MaxLookups = 1
  CacheCapacity = 1
  WakeCapacity = 1
  Situations <- WatchSituations
  NoCommit = NoCommit
INVARIANTS RejectedByChangeOnly  CommitsReachTheWatch
PROPERTIES EveryCallSettles EveryCommitIsHeard
CHECK_DEADLOCK FALSE
