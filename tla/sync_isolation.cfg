SPECIFICATION Spec
CONSTANTS
  Users = {u1, u2}
  None = None
  NoRow = NoRow
  NoCheck = NoCheck
  MaxEdits = 2
  MaxSignIns = 2
  MaxReloads = 0
  MaxLate = 1
INVARIANT FullyIsolated
CHECK_DEADLOCK FALSE
