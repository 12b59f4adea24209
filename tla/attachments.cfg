SPECIFICATION Spec
CONSTANTS
  Blobs = {b1, b2}
  Tabs = {t1, t2}
  Uploads = {u1}
  Sweeps = {s1}
  None = None
  Grace = 2
  SweepTime = 1
  MaxTime = 2
  MaxEvents = 4
SYMMETRY AllAlike
INVARIANTS TypeOK StoredIsReadable
PROPERTY NotesLostOnlyToTheEditor
CHECK_DEADLOCK FALSE
