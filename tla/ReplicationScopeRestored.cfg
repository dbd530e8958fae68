SPECIFICATION FairSpec
CONSTANTS
  Keys = {1, 2, 3}
  Values = {v1}
  Absent = Absent
  None = None
  Worlds <- ScopeRestored
  PageSize = 1
  MaxWrites = 0
PROPERTIES Converges
CHECK_DEADLOCK FALSE
