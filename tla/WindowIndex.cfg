SPECIFICATION WindowSpec
CONSTANTS
  byChat = byChat all = all p = p q = q
  Keys = {1, 2}
  Values <- Entities
  Absent = Absent
  Void = Void
  Windows = {"recent"}
  Descriptors = {byChat, all}
  Layouts <- Releases
  PartitionOf <- Chats
  Partitions <- Parts
  Count <- One
  Bound <- FromTwo
  Processes = {p, q}
  PageSize = 1
  MaximumSuffix = 2
  Mutations <- Writes
  MaxMutations = 3
  MaxScripts = 1
  RollingBack = FALSE
SYMMETRY EitherProcess
INVARIANTS WindowIsShown DeltaIsExact
CHECK_DEADLOCK FALSE
