------------------------------ MODULE Revision ------------------------------
(***************************************************************************)
(* Revision scheduling and the views computed from it: the engine shared   *)
(* by the browser and the content service (packages/shared/src/revision),  *)
(* its browser half (frontend lib/revision), and the queue, agenda,        *)
(* calendar, progress, insight and filter functions of the frontend.       *)
(*                                                                         *)
(* Time is counted in ticks, Day of them to the day.  A zone is the number *)
(* of ticks by which its local time is ahead of UTC; clock changes         *)
(* (daylight saving) are left out.  A topic is its revision history and    *)
(* its plan; a document is its topics and the set of what is archived:     *)
(* topics, chapters, or the one subject they are all in.  A chapter is     *)
(* known by the set of its topics.                                         *)
(***************************************************************************)
EXTENDS Integers, Sequences, FiniteSets, FiniteSetsExt

CONSTANTS
  Topics,
  Chapters,   \* a partition of the topics, and possibly the empty chapter
  Subject,
  None,
  Day,        \* DAY_MS in ticks
  Horizon     \* horizonDays of the agenda

ASSUME RevisionAssumption ==
  /\ None \notin Int /\ None # "overdue" /\ IsFiniteSet(Topics)
  /\ UNION Chapters = Topics /\ \A c, e \in Chapters : c = e \/ c \cap e = {}
  /\ Topics \cap Chapters = {} /\ Subject \notin Topics \cup Chapters
  /\ {Day, Horizon} \subseteq Nat \ {0}

Above == Chapters \cup {Subject}
NewTopic == [history |-> <<>>, plannedAt |-> None]

\* The sum of a function's values: reduce, and the loops that add up.
Total(f) == MapThenSumSet(LAMBDA x : f[x], DOMAIN f)

-----------------------------------------------------------------------------
(* The engine.                                                             *)

LADDER == <<1, 3, 7, 16, 35, 60, 90>>

nextInterval(count) ==
  IF count <= 0 THEN LADDER[1] ELSE LADDER[IF count <= Len(LADDER) THEN count ELSE Len(LADDER)]

\* A score is known by what it divides the interval by: 1, 2 or 4.
scoreDivisor(revision) == revision.divisor

localDay(ts, zone) == (ts + zone) \div Day
startOf(day, zone) == day * Day - zone
startOfDay(ts, zone) == startOf(localDay(ts, zone), zone)

Last(h) == h[Len(h)]
lastRevisedAt(h) == IF h = <<>> THEN None ELSE Last(h).timestamp
nextDueDate(t) == t.plannedAt

suggestedNextDate(h) ==
  IF h = <<>> THEN None
  ELSE Last(h).timestamp
         + Day * Max({1, nextInterval(Len(h)) \div scoreDivisor(Last(h))})

badgeState(t, now, zone) ==
  LET dayDiff == localDay(t.plannedAt, zone) - localDay(now, zone)
      since == (now - lastRevisedAt(t.history)) \div Day
  IN  IF nextDueDate(t) = None THEN IF t.history = <<>> THEN "NeverRevised" ELSE "Unplanned"
      ELSE IF dayDiff < 0 THEN "Overdue"
      ELSE IF dayDiff = 0 THEN "DueToday"
      ELSE IF t.history # <<>> /\ since <= 1 THEN "RecentlyRevised"
      ELSE IF dayDiff = 1 THEN "DueTomorrow" ELSE "Upcoming"

inGoodStanding(t, now, zone) ==
  badgeState(t, now, zone) \notin {"Overdue", "DueToday", "NeverRevised", "Unplanned"}

markRevised(t, now, divisor) ==
  [history |-> Append(t.history, [timestamp |-> now, divisor |-> divisor]), plannedAt |-> None]

deleteRevision(t, i) ==
  LET h == t.history
  IN  [t EXCEPT !.history = [j \in 1..(Len(h) - 1) |-> IF j < i THEN h[j] ELSE h[j + 1]]]

\* sort is stable.
ByTime(h) ==
  LET place(i) == Cardinality({j \in DOMAIN h : \/ h[j].timestamp < h[i].timestamp
                                                \/ h[j].timestamp = h[i].timestamp /\ j <= i})
  IN  [k \in DOMAIN h |-> h[CHOOSE i \in DOMAIN h : place(i) = k]]

Clamped(ts, now) == Min({ts, now})

UnsortedUpdate(t, i, ts, now) == [t EXCEPT !.history[i].timestamp = Clamped(ts, now)]

updateRevisionTimestamp(t, i, ts, now) ==
  [t EXCEPT !.history = ByTime([t.history EXCEPT ![i].timestamp = Clamped(ts, now)])]

\* The rows under the subject and under a chapter: each looks at the flags of what
\* it lists, none at the subject's own.
ChaptersListed(doc) == Chapters \ doc.archived
TopicsListed(doc, c) == c \ doc.archived
TopicsOfSubject(doc) == UNION {TopicsListed(doc, c) : c \in ChaptersListed(doc)}

activeTopics(doc) == IF Subject \in doc.archived THEN {} ELSE TopicsOfSubject(doc)

revisedDays(doc, zone) ==
  UNION {{localDay(h[i].timestamp, zone) : i \in DOMAIN h} :
           h \in {doc.topics[t].history : t \in activeTopics(doc)}}

\* The days in a row that end with d.
RunUpTo(d, days) ==
  Cardinality({e \in days : e <= d /\ (e..d) \subseteq days})

currentStreak(doc, now, zone) ==
  LET days == revisedDays(doc, zone)
      today == localDay(now, zone)
  IN  IF today \in days THEN RunUpTo(today, days) ELSE RunUpTo(today - 1, days)

longestStreak(doc, zone) ==
  LET days == revisedDays(doc, zone) IN Max({RunUpTo(d, days) : d \in days} \cup {0})

-----------------------------------------------------------------------------
(* What the student is shown.                                              *)

badge(doc, t, now, zone) == badgeState(doc.topics[t], now, zone)
ShownAs(doc, states, now, zone) ==
  {t \in activeTopics(doc) : badge(doc, t, now, zone) \in states}

todayQueue(doc, now, zone) == ShownAs(doc, {"Overdue", "DueToday"}, now, zone)

RevisedOn(t, day, zone) ==
  \E i \in DOMAIN t.history : localDay(t.history[i].timestamp, zone) = day

PlaceByPlan(t, now, zone) ==
  LET today == localDay(now, zone)
      dueDay == localDay(t.plannedAt, zone)
  IN  IF badgeState(t, now, zone) = "Overdue" THEN [status |-> "overdue", day |-> dueDay]
      ELSE IF nextDueDate(t) # None THEN [status |-> "due", day |-> dueDay]
      ELSE IF t.history # <<>> /\ localDay(lastRevisedAt(t.history), zone) = today
           THEN [status |-> "completed", day |-> today]
      ELSE [status |-> IF t.history = <<>> THEN "none" ELSE "unplanned", day |-> None]

\* buildAgenda and loadByDay: where a topic stands, by the first case that
\* applies.  Of its revisions only the last counts for "completed".
PlaceIn(t, now, zone) ==
  LET today == localDay(now, zone)
      dueDay == localDay(t.plannedAt, zone)
  IN  IF badgeState(t, now, zone) = "Overdue" THEN [status |-> "overdue", day |-> dueDay]
      ELSE IF t.history # <<>> /\ localDay(lastRevisedAt(t.history), zone) = today
           THEN [status |-> "completed", day |-> today]
      ELSE IF nextDueDate(t) = None
           THEN [status |-> IF t.history = <<>> THEN "none" ELSE "unplanned", day |-> None]
      ELSE [status |-> "due", day |-> dueDay]

AgendaDay(doc, day, now, zone) ==
  {t \in activeTopics(doc) :
     LET p == PlaceIn(doc.topics[t], now, zone)
     IN  /\ p.status \in {"completed", "due"} /\ p.day = day
         /\ p.status = "due" => day \in localDay(now, zone)..localDay(now, zone) + Horizon}
AgendaOverdue(doc, now, zone) ==
  {t \in activeTopics(doc) : PlaceIn(doc.topics[t], now, zone).status = "overdue"}
AgendaUnplanned(doc, now, zone) ==
  {t \in activeTopics(doc) : PlaceIn(doc.topics[t], now, zone).status = "unplanned"}
loadByDay(doc, day, now, zone) ==
  {t \in activeTopics(doc) : PlaceIn(doc.topics[t], now, zone).day = day}

\* A cell of calendarMonth.
DueOn(doc, day, zone) ==
  {t \in activeTopics(doc) : /\ nextDueDate(doc.topics[t]) # None
                             /\ localDay(doc.topics[t].plannedAt, zone) = day}
CompletedOn(doc, day, zone) == {t \in activeTopics(doc) : RevisedOn(doc.topics[t], day, zone)}

\* revisionCountsByDay, for one day.
RevisionsOn(doc, day, zone) ==
  Total([t \in activeTopics(doc) |->
           Cardinality({i \in DOMAIN doc.topics[t].history :
                          localDay(doc.topics[t].history[i].timestamp, zone) = day})])

\* topicMatchesStatus and matchingTopics, without tags and attachments.
matchingTopics(doc, status, now, zone) ==
  {t \in activeTopics(doc) :
     IF status = "needs-revision" THEN badge(doc, t, now, zone) \in {"Overdue", "DueToday"}
                                  ELSE doc.topics[t].history = <<>>}

\* Math.round of a quotient, and 0 where there is nothing to divide by.
Rounded(n, of) == IF of = 0 THEN 0 ELSE (2 * n + of) \div (2 * of)
Percent(n, of) == Rounded(100 * n, of)

chapterProgress(doc, c, now, zone) ==
  Percent(Cardinality({t \in TopicsListed(doc, c) : inGoodStanding(doc.topics[t], now, zone)}),
          Cardinality(TopicsListed(doc, c)))

\* The mean of the chapters' percentages, large and small chapters alike.
subjectProgress(doc, now, zone) ==
  Rounded(Total([c \in ChaptersListed(doc) |-> chapterProgress(doc, c, now, zone)]),
          Cardinality(ChaptersListed(doc)))

subjectStatus(doc, now, zone) ==
  LET is(state) == \E t \in TopicsOfSubject(doc) : badge(doc, t, now, zone) = state
  IN  IF is("Overdue") THEN "overdue"
      ELSE IF is("DueToday") THEN "due"
      ELSE IF is("RecentlyRevised") THEN "recent" ELSE "none"

\* overallStats, and the bands the insights page makes of them.
neverRevised(doc) == {t \in activeTopics(doc) : doc.topics[t].history = <<>>}
onTrack(doc, now, zone) ==
  Cardinality(activeTopics(doc)) - Cardinality(ShownAs(doc, {"Overdue"}, now, zone))
    - Cardinality(ShownAs(doc, {"DueToday"}, now, zone)) - Cardinality(neverRevised(doc))
=============================================================================
