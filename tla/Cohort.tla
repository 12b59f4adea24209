------------------------------- MODULE Cohort -------------------------------
(***************************************************************************)
(* What a head of the student's group is shown: the /cohort routes of the  *)
(* content service (cohort.ts) and the coaching pages that display their   *)
(* answers.  Who may ask, and which answer a page keeps, is module         *)
(* Coaching.  The group has this one student; sums over its members, the   *)
(* order of the rows and their pages are left out.  The service and its    *)
(* database run in UTC.                                                    *)
(***************************************************************************)
EXTENDS Statistics

CONSTANT Recent   \* days of activity that are shown: 30

ASSUME CohortAssumption == Recent \in Nat \ {0}

HasStats == rows.stats # <<>>
statsFor == rows.stats[1]

activityFor(at) ==
  LET days == IF ~HasStats THEN {}
              ELSE {day \in DOMAIN statsFor.activity : day >= localDay(at, UTC) - (Recent - 1)}
  IN  [day \in days |-> statsFor.activity[day]]

NoFigures == [hasData |-> FALSE, total |-> 0, completed |-> 0, completionPct |-> 0,
              streak |-> 0, dueToday |-> 0, overdue |-> 0]

RowAsOf(counts) ==
  [hasData |-> TRUE, total |-> statsFor.total, completed |-> statsFor.completed,
   completionPct |-> Percent(statsFor.completed, statsFor.total), streak |-> statsFor.streak,
   dueToday |-> counts.dueToday, overdue |-> counts.overdue]

\* Mutant: what is due is counted as of the write.
studentRowOfTheWrite(at) ==
  IF ~HasStats THEN NoFigures ELSE RowAsOf(dueCounts(statsFor.due, statsFor.at))
\* What is due is counted as of now, from the stored days.
studentRow(at) ==
  IF ~HasStats THEN NoFigures ELSE RowAsOf(dueCounts(statsFor.due, at))

\* The totals of a group of one, and the label of its row on the page.
summary(at) ==
  LET row == studentRow(at)
  IN  [completionPct |-> Percent(row.completed, row.total),
       dueToday |-> row.dueToday, overdue |-> row.overdue, activity |-> activityFor(at)]

RowStatus(row) ==
  IF ~row.hasData THEN "No data yet"
  ELSE IF row.completed = 0 THEN "Not started"
  ELSE IF row.overdue > 0 THEN "Overdue" ELSE "On track"

\* "Today" is the last day that has a bar.
Sparkline(points) ==
  [total |-> Total(points),
   today |-> IF DOMAIN points = {} THEN None ELSE points[Max(DOMAIN points)]]

\* The stored document, projected on its revision status.
HasDoc == rows.doc # <<>>
stored == rows.doc[1]
DrilledTopics == IF HasDoc THEN activeTopics(stored) ELSE {}
drilldown(at) ==
  [t \in DrilledTopics |->
     LET topic == stored.topics[t]
     IN  [state |-> badgeState(topic, at, UTC), revisionCount |-> Len(topic.history),
          lastRevisedAt |-> lastRevisedAt(topic.history), nextDueAt |-> nextDueDate(topic)]]

DrilldownPage(at) ==
  [topics |-> drilldown(at), activity |-> activityFor(at),
   empty |-> ~HasDoc \/ Subject \in stored.archived]

-----------------------------------------------------------------------------
\* A student's row, the totals of the group and the drill-down agree at any time
\* after the write, though the first two come from the stored statistics and the
\* last from the stored document (cohort.ts:70-186, coaching/page.tsx:161-207):
\* as many topics are due and overdue in the row as carry that badge, as many
\* completed as have a revision, so that the row says "Overdue" when some topic is
\* overdue and some has been revised; and the activity is no more than the
\* revisions listed, and all of them while none is older than what is shown.
CoachViewsAgree ==
  LET row == studentRow(now)
      page == DrilldownPage(now)
      Badged(state) == {t \in DOMAIN page.topics : page.topics[t].state = state}
      revised == {t \in DOMAIN page.topics : page.topics[t].revisionCount > 0}
      shown == Sparkline(page.activity).total
      listed == Total([t \in DOMAIN page.topics |-> page.topics[t].revisionCount])
  IN  ~behind =>
        /\ row.hasData = HasDoc
        /\ page.empty => row.total = 0
        /\ row.total = Cardinality(DOMAIN page.topics)
        /\ row.completed = Cardinality(revised)
        /\ row.dueToday = Cardinality(Badged("DueToday"))
        /\ row.overdue = Cardinality(Badged("Overdue"))
        /\ (RowStatus(row) = "Overdue") = (Badged("Overdue") # {} /\ revised # {})
        /\ summary(now).overdue = row.overdue /\ summary(now).completionPct = row.completionPct
        /\ shown <= listed
        /\ HasDoc =>
             (shown = listed) = (\A day \in revisedDays(stored, UTC) :
                                   day > localDay(now, UTC) - Recent)
=============================================================================
