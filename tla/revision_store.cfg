SPECIFICATION Spec
CONSTANTS
  s1 = s1  s2 = s2
  c1 = c1  c2 = c2  c3 = c3
  t1 = t1  t2 = t2  t3 = t3
  g1 = g1  g2 = g2  x1 = x1
  SubjectIds = {s1, s2}
  ChapterIds = {c1, c2, c3}
  TopicIds = {t1, t2, t3}
  TagIds = {g1, g2}
  Details = {x1}
  Blank = x1
  Absent = Absent
  NoPlan = NoPlan
  InitialDocs <- MCInitialDocs
  MaxHistory = 2
  MaxChanges = 3
SYMMETRY TagSymmetry
INVARIANTS TypeOK HistoryBounded HierarchyLinked TagsNeverDangle TypingNeverReverted UndoRedoRoundTrip LoadShowsTheScreen
