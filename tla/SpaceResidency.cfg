SPECIFICATION ResidencySpec
CONSTANTS
  a = a b = b p = p q = q w1 = w1
  Spaces = {a, b}
  Callers = {p, q}
  Workers = {w1}
  ForegroundSlots = 1
  BackgroundSlots = 2
  Kinds = {"use", "read", "deactivate", "leave"}
  Restored = {a}
  Leavable = {a}
  MaxCalls = 3
  MaxDisturbances = 1
  Nobody = Nobody
INVARIANTS NothingStranded
CHECK_DEADLOCK FALSE
