SPECIFICATION FairSpec
CONSTANTS
  Keys = {1, 2}
  Values = {v1}
  Absent = Absent
  None = None
  Worlds <- Changes
  PageSize = 1
  MaxWrites = 1
INVARIANTS ViewAgrees
PROPERTIES OnlyVisibleIsSent Converges
CHECK_DEADLOCK FALSE
