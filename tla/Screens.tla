------------------------------ MODULE Screens -------------------------------
(***************************************************************************)
(* What the screens of the frontend make of a document: the home page with *)
(* its cards, chips, search and queue, the pages of a subject and of a     *)
(* chapter, the agenda with its week strip, the month calendar, and the    *)
(* figures of the insights page.  The functions below are of the document, *)
(* the time and the student's zone; titles, colours, the order of rows and *)
(* the caps on their number are left out.                                  *)
(*                                                                         *)
(* A search is known by its hits: the topics, and the chapters and the     *)
(* subject above them, whose title holds the text that is searched for.    *)
(***************************************************************************)
EXTENDS Revision

CONSTANT Week     \* days of the agenda's "due this week"

ASSUME ScreensAssumption == Week \in 1..Horizon

Titles == Topics \cup Above
QUICK_FILTERS == {"all", "due", "overdue", "not-revised"}

-----------------------------------------------------------------------------
(* Home, subject and chapter pages.                                        *)

\* Without bookmarks.
topicMatchesQuick(t, qf, now, zone) ==
  LET state == badgeState(t, now, zone)
  IN  CASE qf = "all" -> TRUE
        [] qf = "due" -> state = "DueToday"
        [] qf = "overdue" -> state = "Overdue"
        [] qf = "not-revised" -> t.history = <<>>

subjectMatchesQuick(doc, qf, now, zone) ==
  /\ Subject \notin doc.archived
  /\ qf # "all" =>
       \E t \in activeTopics(doc) : topicMatchesQuick(doc.topics[t], qf, now, zone)

subjectMatchesQuery(doc, hits) ==
  /\ Subject \notin doc.archived
  /\ \/ Subject \in hits
     \/ ChaptersListed(doc) \cap hits # {}
     \/ TopicsOfSubject(doc) \cap hits # {}

\* The command palette, without notes and tags.
search(doc, hits) ==
  {x \in hits : /\ {x, Subject} \cap doc.archived = {}
                /\ \A c \in Chapters : x \in c => c \notin doc.archived}

\* An empty query filters nothing.
HomeLists(doc, qf, query, hits, now, zone) ==
  subjectMatchesQuick(doc, qf, now, zone) /\ (query => subjectMatchesQuery(doc, hits))

ChapterLists(doc, c, qf, query, hits, now, zone) ==
  {t \in TopicsListed(doc, c) : /\ topicMatchesQuick(doc.topics[t], qf, now, zone)
                                /\ query => t \in hits}
topicQuickCounts(doc, c, qf, now, zone) ==
  Cardinality(ChapterLists(doc, c, qf, FALSE, {}, now, zone))

subjectStats(doc, now, zone) ==
  LET revised == {lastRevisedAt(doc.topics[t].history) : t \in TopicsOfSubject(doc)} \ {None}
  IN  [chapterCount |-> Cardinality(ChaptersListed(doc)),
       pending |-> Cardinality({t \in TopicsOfSubject(doc) :
                                  ~inGoodStanding(doc.topics[t], now, zone)}),
       lastRevised |-> IF revised = {} THEN None ELSE Max(revised)]

SubjectCard(doc, now, zone) ==
  [ring |-> subjectStatus(doc, now, zone), progress |-> subjectProgress(doc, now, zone),
   stats |-> subjectStats(doc, now, zone)]

ChapterCard(doc, c, now, zone) ==
  [progress |-> chapterProgress(doc, c, now, zone), topics |-> Cardinality(TopicsListed(doc, c))]

\* Hidden when there is no streak; the best one only when it is longer.
StreakCard(doc, now, zone) ==
  LET current == currentStreak(doc, now, zone)
      best == longestStreak(doc, zone)
  IN  [shown |-> current > 0, current |-> current,
       best |-> IF best > current THEN best ELSE None]

QueueGroups(doc, now, zone) ==
  LET Of(state) == {t \in todayQueue(doc, now, zone) : badge(doc, t, now, zone) = state}
  IN  [overdue |-> Of("Overdue"), dueToday |-> Of("DueToday")]

\* The dialog that plans a subject: its rows, and those that are ticked at first.
PlanRows(doc) == TopicsOfSubject(doc)
DefaultChecked(doc, now, zone) ==
  {t \in PlanRows(doc) : badge(doc, t, now, zone) \in {"Unplanned", "NeverRevised"}}

-----------------------------------------------------------------------------
(* Insights.                                                               *)

InTenths(n, of) == Rounded(10 * n, of)

\* The gaps between the revisions of a topic add up to last minus first.
overallStats(doc, now, zone) ==
  LET topics == activeTopics(doc)
      H(t) == doc.topics[t].history
      revisions == Total([t \in topics |-> Len(H(t))])
      gaps == Total([t \in topics |-> Max({0, Len(H(t)) - 1})])
      gapSum == Total([t \in topics \ neverRevised(doc) |->
                         lastRevisedAt(H(t)) - H(t)[1].timestamp])
      Number(state) == Cardinality(ShownAs(doc, {state}, now, zone))
  IN  [totalTopics |-> Cardinality(topics),
       completionPct |->
         Percent(Cardinality({t \in topics : inGoodStanding(doc.topics[t], now, zone)}),
                 Cardinality(topics)),
       neverRevised |-> Cardinality(neverRevised(doc)),
       dueToday |-> Number("DueToday"), overdue |-> Number("Overdue"),
       revisions |-> revisions,
       avgRevisionsPerTopic |-> InTenths(revisions, Cardinality(topics)),
       avgDaysBetween |-> IF gaps = 0 THEN None ELSE InTenths(gapSum, gaps * Day)]

\* Those that may be among the first `limit`, ties in either order.
topicsByRevisionCount(doc, limit) ==
  LET H(t) == doc.topics[t].history
      revised == activeTopics(doc) \ neverRevised(doc)
      Later(t, u) == t \in revised /\ lastRevisedAt(H(t)) > lastRevisedAt(H(u))
      Higher(t, u) == Len(H(t)) > Len(H(u)) \/ (Len(H(t)) = Len(H(u)) /\ Later(t, u))
      Lower(t, u) == Len(H(t)) < Len(H(u)) \/ (Len(H(t)) = Len(H(u)) /\ Later(t, u))
  IN  [most |-> {t \in activeTopics(doc) :
                   Cardinality({u \in activeTopics(doc) : Higher(u, t)}) < limit},
       least |-> {t \in revised : Cardinality({u \in revised : Lower(u, t)}) < limit}]

\* The completion meters: a bar for each subject that is not archived.
SubjectCompletion(doc, now, zone) ==
  IF Subject \in doc.archived THEN None ELSE subjectProgress(doc, now, zone)

\* The caption of the heatmap, for the days it shows.
HeatTotals(doc, days, zone) ==
  [total |-> Total([day \in days |-> RevisionsOn(doc, day, zone)]),
   activeDays |-> Cardinality({day \in days : RevisionsOn(doc, day, zone) > 0})]

-----------------------------------------------------------------------------
(* Agenda, week strip and month calendar.                                  *)

AgendaSummary(doc, now, zone) ==
  LET today == localDay(now, zone)
      Under(day, status) ==
        {t \in AgendaDay(doc, day, now, zone) : PlaceIn(doc.topics[t], now, zone).status = status}
  IN  [overdue |-> Cardinality(AgendaOverdue(doc, now, zone)),
       dueWeek |-> Total([day \in today..(today + Week - 1) |-> Cardinality(Under(day, "due"))]),
       doneToday |-> Cardinality(Under(today, "completed"))]

AgendaEmpty(doc, now, zone) ==
  LET today == localDay(now, zone)
  IN  /\ AgendaOverdue(doc, now, zone) = {} /\ AgendaUnplanned(doc, now, zone) = {}
      /\ \A day \in today..(today + Horizon) : AgendaDay(doc, day, now, zone) = {}

\* The colour of a bar of the strip: the most urgent status of the day.
WorstOn(doc, day, now, zone) ==
  LET is(status) == \E t \in loadByDay(doc, day, now, zone) :
                      PlaceIn(doc.topics[t], now, zone).status = status
  IN  IF is("overdue") THEN "overdue" ELSE IF is("due") THEN "due"
      ELSE IF is("completed") THEN "completed" ELSE None

calendarCell(doc, day, now, zone) ==
  [due |-> DueOn(doc, day, zone),
   overdue |-> IF day = localDay(now, zone) THEN ShownAs(doc, {"Overdue"}, now, zone) ELSE {},
   completed |-> CompletedOn(doc, day, zone)]

SelectedDayTopics(cell) == cell.overdue \cup cell.due \cup cell.completed

\* Under "done" a topic counts once for every revision.
MonthTotals(doc, days, now, zone) ==
  [due |-> Total([day \in days |-> Cardinality(calendarCell(doc, day, now, zone).due)]),
   over |-> Total([day \in days |-> Cardinality(calendarCell(doc, day, now, zone).overdue)]),
   done |-> Total([day \in days |-> RevisionsOn(doc, day, zone)])]
=============================================================================
