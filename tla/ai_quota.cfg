SPECIFICATION Spec
CONSTANTS
  Users = {u1}
  Panels = {p1, p2}
  Owner <- OnlyOwner
  Requests = {r1, r2}
  None = None
  Limit = 1
  CoolOff = 2
  MaxTime = 2
  MaxDay = 1
  MaxEvents = 3
SYMMETRY AllAlike
INVARIANTS UnitsAccountedFor BreakerHolds KeptIsOfItsCards
CHECK_DEADLOCK FALSE
