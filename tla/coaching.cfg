SPECIFICATION Spec
CONSTANTS
  People = {coach, other}
  Groups = {g1, g2}
  Slots = {s1, s2}
  Asks = {k1, k2}
  None = None
  Coach = coach
  Views = {1, 2}
  FirstView = 1
  JoinWindow = 1
  JoinLimit = 1
  Ttl = 1
  FetchTime = 1
  MaxTime = 2
  MaxSent = 3
  MaxClicks = 2
  MaxSentOpen = 1
SYMMETRY SlotsAlike
INVARIANTS ExpulsionHolds ShownIsSelected
PROPERTIES HeadsStay AnswersAreRecent
CHECK_DEADLOCK FALSE
