SPECIFICATION Spec
CONSTANTS
  Topics = {t1, t2, t3}
  Chapters <- TwoAndOne
  Subject = Subject
  None = None
  Day = 2
  Horizon = 1
  Week = 1
  Recent = 2
  Zones <- EastAndWest
  Divisors = {2}
  Txs = {}
  OldTimes <- LongAgo
  StartTime = 2
  MaxTime = 3
  MaxRevisions = 2
  MaxEvents = 3
SYMMETRY AllAlike
INVARIANTS HistoryOrdered ViewsAgree
CHECK_DEADLOCK FALSE
