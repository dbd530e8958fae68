SPECIFICATION FairSpec
CONSTANTS
  a = a r1 = r1 r2 = r2 w1 = w1
  Clients = {a}
  Runtimes = {r1, r2}
  Watches = {w1}
  None = None
  MaxWrites = 2
  MaxDisturbances = 2
INVARIANTS PushIsForTheOffline FreshWorkHasFreshIdentity
PROPERTIES EveryWriteIsHeardOf
\* Clients may stay silent for good.
CHECK_DEADLOCK FALSE
