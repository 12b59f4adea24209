SPECIFICATION Spec
CONSTANTS
  Users = {u1, u2}
  None = None
  NoRow = NoRow
  NoCheck = NoCheck
  MaxEdits = 2
  MaxSignIns = 2
  MaxReloads = 1
  MaxLate = 1
SYMMETRY UsersAlike
INVARIANTS ShownIsOwn RowsAreOwn RestMeansStored SkeletonsEnd
PROPERTIES RowsMoveForward
(* With its bounds used up and nobody signed in, the tab does nothing more. *)
CHECK_DEADLOCK FALSE
