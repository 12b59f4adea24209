SPECIFICATION Spec
CONSTANTS
  Topics = {t1, t2}
  Chapters <- OneChapter
  Subject = Subject
  None = None
  Day = 2
  Horizon = 1
  Week = 1
  Recent = 1
  Zones <- East
  Divisors = {2}
  Txs = {x1, x2}
  OldTimes <- LongAgo
  StartTime = 1
  MaxTime = 3
  MaxRevisions = 2
  MaxEvents = 4
SYMMETRY AllAlike
INVARIANTS StatsMatchDocument CoachSeesTheQueue CoachViewsAgree
CHECK_DEADLOCK FALSE
