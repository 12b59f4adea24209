----------------------------- MODULE Statistics -----------------------------
(***************************************************************************)
(* A student's revisions and plans in the browser, the document as the     *)
(* content service stores it, and the statistics it derives from it for    *)
(* the student's coaches (services/content-service/src): the transaction   *)
(* of PUT /app-data, the one-off recomputation, and what a coach is shown. *)
(*                                                                         *)
(* One student, and one clock.  A PUT takes the document as it is when its *)
(* transaction begins; the queue that sends it is module SaveQueue.        *)
(***************************************************************************)
EXTENDS Screens

CONSTANTS
  Zones,      \* the zones the student may live in
  Divisors,   \* quiz scores
  Txs,        \* slots: transactions under way
  OldTimes,   \* when the topics of a document from before plans may have been revised
  StartTime, MaxTime, MaxRevisions, MaxEvents   \* bounds of the model

ASSUME StatisticsAssumption ==
  /\ Zones \subseteq Int /\ Divisors \subseteq {1, 2, 4}
  /\ {StartTime, MaxTime, MaxRevisions, MaxEvents} \subseteq Nat
  /\ OldTimes \subseteq 0..StartTime

VARIABLES
  doc,        \* the student's document, in the browser
  zone, now,
  rows,       \* what is committed: the student's row of app_data, and what the rows
              \* of user_stats and user_activity say; each is <<>> or <<it>>
  txs,
  inherited,  \* history: topics whose plan is still the one that the load gave them
  events,     \* edits and writes so far, for the bound
  behind      \* history: the statistics are older than the document

vars == <<doc, zone, now, rows, txs, inherited, events, behind>>

NewDoc == [topics |-> [t \in Topics |-> NewTopic], archived |-> {}]

\* Documents from before topics had plans: some have been revised.
OldDocs ==
  [topics : [Topics -> {NewTopic} \cup
               [history : {<<r>> : r \in [timestamp : OldTimes, divisor : Divisors]},
                plannedAt : {None}]],
   archived : {{}}]
RevisedIn(d) == {t \in Topics : d.topics[t].history # <<>>}

\* Loading such a document plans what has been revised, for the very moment of the
\* suggestion.
normalizeData(d) ==
  [d EXCEPT !.topics = [t \in Topics |->
     IF t \in RevisedIn(d)
     THEN [d.topics[t] EXCEPT !.plannedAt = suggestedNextDate(d.topics[t].history)]
     ELSE d.topics[t]]]

-----------------------------------------------------------------------------
(* deriveStats and deriveActivity: days are those of UTC.  Coverage by     *)
(* subject repeats the totals, there being one subject.                    *)

UTC == 0
PlannedDays(d) ==
  {localDay(d.topics[t].plannedAt, UTC) : t \in {u \in activeTopics(d) : nextDueDate(d.topics[u]) # None}}

deriveStats(d, at) ==
  [total |-> Cardinality(activeTopics(d)),
   completed |-> Cardinality(activeTopics(d) \ neverRevised(d)),
   streak |-> currentStreak(d, at, UTC),
   due |-> [day \in PlannedDays(d) |-> Cardinality(DueOn(d, day, UTC))],
   activity |-> [day \in revisedDays(d, UTC) |-> RevisionsOn(d, day, UTC)],
   at |-> at]

\* dueCounts, of the histogram as it is stored and the time it is looked at.
dueCounts(due, at) ==
  LET today == localDay(at, UTC)
      In(days) == Total([day \in days |-> due[day]])
  IN  [dueToday |-> In({day \in DOMAIN due : day = today}),
       overdue |-> In({day \in DOMAIN due : day < today})]

NoTx == [pc |-> "idle", kind |-> "put", doc |-> None, at |-> 0]

Init ==
  /\ \/ doc = NewDoc /\ inherited = {} /\ rows = [doc |-> <<>>, stats |-> <<>>]
     \/ \E old \in OldDocs : /\ doc = normalizeData(old) /\ inherited = RevisedIn(old)
                             /\ rows = [doc |-> <<old>>, stats |-> <<>>]
  /\ zone \in Zones /\ now = StartTime
  /\ txs = [x \in Txs |-> NoTx]
  /\ events = 0
  /\ behind = (rows.doc # <<>>)

-----------------------------------------------------------------------------
(* The student.  Revisions and plans are silent edits: undo leaves them    *)
(* alone, and takes back no more here than archiving does.                 *)

Edit(d) ==
  /\ events < MaxEvents /\ events' = events + 1
  /\ doc' = d
  /\ inherited' = {t \in inherited : d.topics[t].plannedAt = doc.topics[t].plannedAt}
  /\ UNCHANGED <<zone, now, rows, txs, behind>>

SetTopic(t, v) == Edit([doc EXCEPT !.topics[t] = v])
History(t) == doc.topics[t].history

\* By a button, or at the end of a quiz, with its score.
Revise(t, divisor) ==
  /\ Len(History(t)) < MaxRevisions
  /\ SetTopic(t, markRevised(doc.topics[t], now, divisor))

DeleteRevision(t) == \E i \in DOMAIN History(t) : SetTopic(t, deleteRevision(doc.topics[t], i))

\* The input lets any time be typed in, also a later one than its max.
EditRevision(t) ==
  \E i \in DOMAIN History(t), ts \in 0..MaxTime :
    SetTopic(t, updateRevisionTimestamp(doc.topics[t], i, ts, now))

\* The dates the pickers offer: any day's start, and the suggestion of a topic.
Offered(t) ==
  {startOf(day, zone) : day \in 0..(MaxTime \div Day + 1)}
    \cup ({suggestedNextDate(History(t))} \ {None})

PlannedAsPicked(date) == date
PlannedFor(date) == startOfDay(date, zone)

PlanTopic(t) ==
  \E date \in Offered(t) :
    SetTopic(t, [doc.topics[t] EXCEPT !.plannedAt = PlannedFor(date)])

PlanTopics ==
  \E ts \in SUBSET PlanRows(doc), day \in 0..(MaxTime \div Day + 1) :
    /\ Cardinality(ts) > 1
    /\ Edit([doc EXCEPT !.topics = [t \in Topics |->
         IF t \in ts THEN [doc.topics[t] EXCEPT !.plannedAt = PlannedFor(startOf(day, zone))]
         ELSE doc.topics[t]]])

ClearPlan(t) ==
  /\ nextDueDate(doc.topics[t]) # None
  /\ SetTopic(t, [doc.topics[t] EXCEPT !.plannedAt = None])

ArchiveOrRestore(u) ==
  Edit([doc EXCEPT !.archived = IF u \in @ THEN @ \ {u} ELSE @ \cup {u}])

Tick ==
  /\ now < MaxTime /\ now' = now + 1
  /\ UNCHANGED <<doc, zone, inherited, rows, txs, events, behind>>

-----------------------------------------------------------------------------
(* The content service.  Rows are locked from the statement that writes    *)
(* them to the end of the transaction; in user_activity, whose rows are    *)
(* replaced, nothing is done without the lock on user_stats.               *)

Has(x, pc) == txs[x].pc = pc
Free(x, pcs, kinds) == \A y \in Txs \ {x} : ~(txs[y].pc \in pcs /\ txs[y].kind \in kinds)

Begin(x, pc, kind, d) ==
  /\ events < MaxEvents /\ events' = events + 1
  /\ Has(x, "idle")
  /\ txs' = [txs EXCEPT ![x] = [pc |-> pc, kind |-> kind, doc |-> d, at |-> now]]
  /\ UNCHANGED <<doc, zone, inherited, now, rows, behind>>

\* writeData, and recomputeAllStats, which has read the rows before.
Put(x) == Begin(x, "begun", "put", doc)
Recompute(x) == rows.doc # <<>> /\ Begin(x, "written", "recompute", rows.doc[1])

WriteDocAtOnce(x) ==
  /\ Has(x, "begun") /\ Free(x, {"written", "derived"}, {"put"})
  /\ txs' = [txs EXCEPT ![x].pc = "written"]
  /\ rows' = [rows EXCEPT !.doc = <<txs[x].doc>>]
  /\ UNCHANGED <<doc, zone, inherited, now, events, behind>>

WriteDoc(x) ==
  /\ Has(x, "begun") /\ Free(x, {"written", "derived"}, {"put"})
  /\ txs' = [txs EXCEPT ![x].pc = "written"]
  /\ UNCHANGED <<doc, zone, inherited, now, rows, events, behind>>

WriteStats(x) ==
  /\ Has(x, "written") /\ Free(x, {"derived"}, {"put", "recompute"})
  /\ txs' = [txs EXCEPT ![x].pc = "derived"]
  /\ UNCHANGED <<doc, zone, inherited, now, rows, events, behind>>

DocOf(x) == IF txs[x].kind = "put" THEN <<txs[x].doc>> ELSE rows.doc

Commit(x) ==
  /\ Has(x, "derived")
  /\ rows' = [doc |-> DocOf(x), stats |-> <<deriveStats(txs[x].doc, txs[x].at)>>]
  /\ behind' = (<<txs[x].doc>> # DocOf(x))
  /\ txs' = [txs EXCEPT ![x] = NoTx]
  /\ UNCHANGED <<doc, zone, inherited, now, events>>

\* A statement fails.  The exception of a PUT is caught by nobody: the process
\* ends, and with it every other PUT; the recomputation is a process of its own.
Fail(x) ==
  /\ ~Has(x, "idle")
  /\ txs' = [y \in Txs |-> IF y = x \/ (txs[x].kind = "put" /\ txs[y].kind = "put")
                           THEN NoTx ELSE txs[y]]
  /\ UNCHANGED <<doc, zone, inherited, now, rows, events, behind>>

-----------------------------------------------------------------------------
StudentStep(t) ==
  \/ \E divisor \in Divisors : Revise(t, divisor)
  \/ DeleteRevision(t) \/ EditRevision(t)
  \/ PlanTopic(t) \/ ClearPlan(t)

TxStep(x) == Put(x) \/ Recompute(x) \/ WriteDoc(x) \/ WriteStats(x) \/ Commit(x) \/ Fail(x)

Next ==
  \/ \E t \in Topics : StudentStep(t)
  \/ PlanTopics
  \/ \E u \in Topics \cup Above : ArchiveOrRestore(u)
  \/ Tick
  \/ \E x \in Txs : TxStep(x)

Spec == Init /\ [][Next]_vars
-----------------------------------------------------------------------------
\* The statistics and the activity that are committed are those of the committed
\* document, as of the time of the write, whatever PUTs, recomputation and
\* failures come between two statements (appDataStore.ts:13-31, statsStore.ts,
\* server.ts:20-29); except where a recomputation read the document before a
\* PUT and commits after it, or nothing has been written since the rows of
\* before there were statistics.  A streak is therefore that of the last write.
StatsMatchDocument ==
  /\ rows.stats # <<>> /\ ~behind => rows.stats[1] = deriveStats(rows.doc[1], rows.stats[1].at)
  /\ rows.stats = <<>> /\ ~behind => rows.doc = <<>>

\* Once the student's document is stored, the days of UTC a coach is shown and
\* the local days of the student differ at most at the edge (stats.ts:1-16,
\* 66-75, cohort.ts:76-82): what is overdue for the student is due or overdue for
\* the coach, what is overdue for the coach is in the student's queue, and, where
\* the student has chosen the plans, which then begin with a local day
\* (useStore.ts:241-261), what is overdue for the student is so for the coach and
\* all of the queue is due or overdue for the coach.  The last two do not hold of
\* the plans that the load has put into an old document (normalize.ts:19-30).
CoachSeesTheQueue ==
  rows.stats # <<>> /\ ~behind /\ rows.doc = <<doc>> =>
    LET coach == dueCounts(rows.stats[1].due, now)
        queue == todayQueue(doc, now, zone)
        overdue == ShownAs(doc, {"Overdue"}, now, zone)
    IN  /\ Cardinality(overdue) <= coach.dueToday + coach.overdue
        /\ coach.overdue <= Cardinality(queue)
        /\ Cardinality(overdue \ inherited) <= coach.overdue
        /\ Cardinality(queue \ inherited) <= coach.dueToday + coach.overdue

\* However revisions are added, deleted and moved, to the past or to the future,
\* a topic's history is in the order of time and none of it lies in the future,
\* so that its last entry is the last revision (engine.ts:32-60,
\* RevisionHistoryPanel.tsx:29-33).
HistoryOrdered ==
  \A t \in Topics : LET h == History(t) IN
    /\ \A i \in 1..(Len(h) - 1) : h[i].timestamp <= h[i + 1].timestamp
    /\ \A i \in DOMAIN h : h[i].timestamp <= now

\* The days of a topic's plan and revisions.
DaysOf(t) ==
  {localDay(h.timestamp, zone) : h \in {History(t)[i] : i \in DOMAIN History(t)}}
    \cup {localDay(date, zone) : date \in {doc.topics[t].plannedAt} \ {None}}

\* The home page, the chapter page and the command palette find the same
\* (todayQueue.ts, predicates.ts, quickFilters.ts, search.ts, StreakCard.tsx):
\* the queue is what the filter "needs revision" finds; a chip lists the subject
\* when the page of a listed chapter has a topic under the same chip, and no chip
\* lists an archived subject; the inline search finds the subject by exactly the
\* titles the palette finds, which are no topics but the active ones; a streak is
\* shown after a revision today or yesterday, and is never above the longest.
HomeAgrees ==
  LET today == localDay(now, zone)
      groups == QueueGroups(doc, now, zone)
      streak == StreakCard(doc, now, zone)
  IN  /\ groups.overdue \cup groups.dueToday = matchingTopics(doc, "needs-revision", now, zone)
      /\ \A qf \in QUICK_FILTERS \ {"all"} :
           HomeLists(doc, qf, FALSE, {}, now, zone) =
             /\ Subject \notin doc.archived
             /\ \E c \in ChaptersListed(doc) : topicQuickCounts(doc, c, qf, now, zone) > 0
      /\ \A x \in Titles :
           HomeLists(doc, "all", TRUE, {x}, now, zone) = (search(doc, {x}) # {})
      /\ search(doc, Topics) = activeTopics(doc)
      /\ streak.shown = (revisedDays(doc, zone) \cap {today - 1, today} # {})
      /\ currentStreak(doc, now, zone) <= longestStreak(doc, zone)

\* The figures of cards and insights agree with the lists (progress.ts,
\* rankings.ts, insights/page.tsx, PlanSubjectDialog.tsx), unless the subject is
\* archived: the ring is red or amber as the queue has topics overdue or due; what
\* the badge counts as pending is the queue and what the plan dialog ticks; the
\* meter shows the percentage of the card, which lies between those of the
\* chapters' rows and is that of the gauge when there is one row; and the rows have
\* between them the topics that are counted.  The band
\* "on track" counts the topics neither in the queue nor never revised, less those
\* that are counted twice: planned for today or before, and never revised.  No topic
\* of the least revised has more revisions than one of the most revised.
FiguresAgree ==
  LET queue == todayQueue(doc, now, zone)
      groups == QueueGroups(doc, now, zone)
      card == SubjectCard(doc, now, zone)
      row == [c \in ChaptersListed(doc) |-> ChapterCard(doc, c, now, zone)]
      stats == overallStats(doc, now, zone)
      ranks == topicsByRevisionCount(doc, 1)
  IN  /\ stats.overdue + stats.dueToday = Cardinality(queue)
      /\ onTrack(doc, now, zone) =
           Cardinality(activeTopics(doc) \ (queue \cup neverRevised(doc)))
             - Cardinality(queue \cap neverRevised(doc))
      /\ stats.avgDaysBetween # None => stats.avgDaysBetween >= 0
      /\ (ranks.least = {}) = (stats.revisions = 0)
      /\ \A t \in ranks.most, u \in ranks.least : Len(History(t)) >= Len(History(u))
      /\ Subject \notin doc.archived =>
           /\ (card.ring = "overdue") = (groups.overdue # {})
           /\ (card.ring = "due") = (groups.overdue = {} /\ groups.dueToday # {})
           /\ card.stats.pending = Cardinality(queue \cup DefaultChecked(doc, now, zone))
           /\ (card.stats.lastRevised = None) = (stats.revisions = 0)
           /\ SubjectCompletion(doc, now, zone) = card.progress
           /\ Total([c \in DOMAIN row |-> row[c].topics]) = stats.totalTopics
           /\ DOMAIN row # {} =>
                /\ \E c \in DOMAIN row : row[c].progress <= card.progress
                /\ \E c \in DOMAIN row : row[c].progress >= card.progress
           /\ \A c \in Chapters :
                DOMAIN row = {c} => row[c].progress = stats.completionPct

\* The agenda keeps what matters (agenda.ts, Agenda.tsx): the queue is in its
\* overdue bucket or under today; no topic that has been planned or revised drops
\* out of it, unless its plan lies beyond the horizon, so that "all caught up"
\* means an empty queue and no plan within the horizon; and "done today" counts
\* what was revised today and is not overdue again.
AgendaAgrees ==
  LET today == localDay(now, zone)
      overdue == AgendaOverdue(doc, now, zone)
      underToday == AgendaDay(doc, today, now, zone)
      queue == todayQueue(doc, now, zone)
      summary == AgendaSummary(doc, now, zone)
  IN  /\ queue \subseteq overdue \cup underToday
      /\ \A t \in activeTopics(doc) :
           \/ t \in overdue \cup AgendaUnplanned(doc, now, zone)
           \/ \E day \in today..(today + Horizon) : t \in AgendaDay(doc, day, now, zone)
           \/ badge(doc, t, now, zone) = "NeverRevised"
           \/ \E day \in DaysOf(t) : day > today + Horizon /\ t \in DueOn(doc, day, zone)
      /\ AgendaEmpty(doc, now, zone) =>
           /\ queue = {}
           /\ \A day \in today..(today + Horizon) : DueOn(doc, day, zone) = {}
      /\ summary.overdue = Cardinality(queue \ ShownAs(doc, {"DueToday"}, now, zone))
      /\ summary.doneToday = Cardinality(CompletedOn(doc, today, zone) \ overdue)
      /\ summary.dueWeek + summary.doneToday >= Cardinality(queue \ overdue)

\* Calendar, week strip and agenda agree (calendar.ts, MonthCalendar.tsx,
\* WeekStrip.tsx): a click on today shows what the agenda has under overdue and
\* today; the strip counts for a coming day what the agenda lists there, has
\* nothing overdue today or later and nothing but overdue earlier; the calendar
\* has every plan and every revision once, and every overdue topic; the heatmap has
\* the same revisions, and a streak is no longer than its active days.
CalendarAgrees ==
  LET today == localDay(now, zone)
      overdue == AgendaOverdue(doc, now, zone)
      days == {today} \cup UNION {DaysOf(t) : t \in activeTopics(doc)}
      totals == MonthTotals(doc, days, now, zone)
      stats == overallStats(doc, now, zone)
      heat == HeatTotals(doc, days, zone)
  IN  /\ SelectedDayTopics(calendarCell(doc, today, now, zone)) =
           overdue \cup AgendaDay(doc, today, now, zone)
      /\ \A day \in today..(today + Horizon) :
           /\ loadByDay(doc, day, now, zone) = AgendaDay(doc, day, now, zone)
           /\ WorstOn(doc, day, now, zone) # "overdue"
      /\ \A day \in {d \in days : d < today} :
           WorstOn(doc, day, now, zone) \in {None, "overdue"}
      /\ totals = [due |-> Cardinality({t \in activeTopics(doc) : nextDueDate(doc.topics[t]) # None}),
                   over |-> stats.overdue, done |-> stats.revisions]
      /\ heat.total = totals.done /\ heat.activeDays = Cardinality(revisedDays(doc, zone))
      /\ longestStreak(doc, zone) <= heat.activeDays

\* All the views of one document agree, whatever was revised, planned, moved,
\* deleted and archived, at any time of the day and in any zone.  They read doc, now
\* and zone alone, which no transaction writes and every edit reaches without one:
\* so it is said of the states in which nothing has been put yet.
NothingPut == rows.stats = <<>> /\ \A x \in Txs : Has(x, "idle")
ViewsAgree == NothingPut => HomeAgrees /\ FiguresAgree /\ AgendaAgrees /\ CalendarAgrees
=============================================================================
