----------------------------- MODULE SyllabusDoc ----------------------------
(***************************************************************************)
(* The user's document (AppData, packages/shared/src/types.ts) and what    *)
(* the store's operations make of it (apps/frontend/store/useStore.ts), as *)
(* functions from document to document.                                    *)
(*                                                                         *)
(* A document holds maps from ids to records, as the code does.  The       *)
(* hierarchy is stored twice: a subject lists its chapters and a chapter   *)
(* names its subject; likewise for chapters and topics.  What no property  *)
(* distinguishes - names, colours, attachments, cards, bookmark and archive *)
(* stamps - is the one field `details`.  What a "silent" edit changes,     *)
(* notes, revision history and plan, are three fields of a topic.          *)
(***************************************************************************)
EXTENDS Naturals, Sequences, Functions

CONSTANTS SubjectIds, ChapterIds, TopicIds, TagIds,
          Details,  \* possible values of `details`
          Blank,    \* the details of something just made
          Absent,   \* the plan of a topic that has no field plannedAt
          NoPlan    \* plannedAt: null, a plan fulfilled or cleared

ASSUME DetailsAssumption == Blank \in Details
ASSUME TagsAssumption == TagIds # {}
ASSUME PlansAssumption == Absent \notin Nat /\ NoPlan \notin Nat /\ Absent # NoPlan

-----------------------------------------------------------------------------
(* Maps and lists.                                                         *)

\* { ...map, [key]: value } and the map without some keys.
Put(map, key, value) ==
  [k \in DOMAIN map \cup {key} |-> IF k = key THEN value ELSE map[k]]
Drop(map, keys) == Restrict(map, DOMAIN map \ keys)

\* list.filter((x) => x !== item).  No list holds an item twice (Linked below).
Position(list, item) == CHOOSE i \in DOMAIN list : list[i] = item
Without(list, item) ==
  IF item \notin Range(list) THEN list
  ELSE LET p == Position(list, item)
       IN  [i \in 1..(Len(list) - 1) |-> list[IF i < p THEN i ELSE i + 1]]

\* arrayMove(list, from, to): the item at one place is put at another.
ArrayMove(list, from, to) ==
  [i \in DOMAIN list |->
     IF i = to THEN list[from]
     ELSE IF from < to /\ from <= i /\ i < to THEN list[i + 1]
     ELSE IF to < i /\ i <= from THEN list[i - 1]
     ELSE list[i]]

-----------------------------------------------------------------------------
(* Documents.                                                              *)

\* What plannedAt may be: a moment, null or undefined.
Plans == Nat \cup {Absent, NoPlan}

\* What silent edits change of a topic.
Own(topic) == [notes |-> topic.notes, revisions |-> topic.revisions,
               plannedAt |-> topic.plannedAt]
WithOwn(topic, own) ==
  [topic EXCEPT !.notes = own.notes, !.revisions = own.revisions,
                !.plannedAt = own.plannedAt]

SubjectRecord == [chapterIds: Seq(ChapterIds), details: Details]
ChapterRecord == [subjectId: SubjectIds, topicIds: Seq(TopicIds), details: Details]
TopicRecord == [chapterId: ChapterIds, tagIds: SUBSET TagIds, details: Details,
                notes: Nat, revisions: Nat, plannedAt: Plans]

\* A map from some of the ids to records.
IsMap(map, ids, record) ==
  DOMAIN map \subseteq ids /\ map \in [DOMAIN map -> record]

\* AppData.
IsDocument(d) ==
  /\ d = [subjects |-> d.subjects, chapters |-> d.chapters, topics |-> d.topics,
          tags |-> d.tags, subjectOrder |-> d.subjectOrder, tagOrder |-> d.tagOrder]
  /\ IsMap(d.subjects, SubjectIds, SubjectRecord)
  /\ IsMap(d.chapters, ChapterIds, ChapterRecord)
  /\ IsMap(d.topics, TopicIds, TopicRecord)
  /\ IsMap(d.tags, TagIds, Details)
  /\ d.subjectOrder \in Seq(SubjectIds) /\ d.tagOrder \in Seq(TagIds)

\* The same document, silent fields left out.
Structure(d) ==
  [d EXCEPT !.topics = [t \in DOMAIN d.topics |->
     WithOwn(d.topics[t], [notes |-> 0, revisions |-> 0, plannedAt |-> NoPlan])]]

-----------------------------------------------------------------------------
(* Subjects.                                                               *)

AddSubject(d, id) ==
  [d EXCEPT !.subjects = Put(@, id, [chapterIds |-> <<>>, details |-> Blank]),
            !.subjectOrder = Append(@, id)]

\* renameSubject, archiveSubject, restoreSubject.
EditSubject(d, id, details) == [d EXCEPT !.subjects[id].details = details]

\* The topics listed by those of the chapters that exist.
TopicsOf(d, cids) ==
  UNION {Range(d.chapters[c].topicIds) : c \in cids \cap DOMAIN d.chapters}

DeleteSubject(d, id) ==
  LET cids == Range(d.subjects[id].chapterIds)
  IN  [d EXCEPT !.subjects = Drop(@, {id}),
                !.chapters = Drop(@, cids),
                !.topics = Drop(@, TopicsOf(d, cids)),
                !.subjectOrder = Without(@, id)]

ReorderSubjects(d, active, over) ==
  [d EXCEPT !.subjectOrder =
     ArrayMove(@, Position(@, active), Position(@, over))]

-----------------------------------------------------------------------------
(* Chapters.                                                               *)

\* The subject with its list of chapters changed, if the subject exists.
ListChapters(subjects, sid, chapterIds) ==
  IF sid \in DOMAIN subjects
  THEN [subjects EXCEPT ![sid].chapterIds = chapterIds]
  ELSE subjects

AddChapter(d, sid, id) ==
  [d EXCEPT !.chapters = Put(@, id, [subjectId |-> sid, topicIds |-> <<>>,
                                     details |-> Blank]),
            !.subjects[sid].chapterIds = Append(@, id)]

\* renameChapter, archiveChapter, restoreChapter.
EditChapter(d, id, details) == [d EXCEPT !.chapters[id].details = details]

\* The chapter goes, its topics stay behind.
DeleteChapterOnly(d, id) ==
  LET sid == d.chapters[id].subjectId
  IN  [d EXCEPT !.chapters = Drop(@, {id}),
                !.subjects = ListChapters(@, sid, Without(@[sid].chapterIds, id))]

DeleteChapter(d, id) ==
  LET sid == d.chapters[id].subjectId
  IN  [d EXCEPT !.chapters = Drop(@, {id}),
                !.topics = Drop(@, Range(d.chapters[id].topicIds)),
                !.subjects = ListChapters(@, sid, Without(@[sid].chapterIds, id))]

\* The topics of the chapter are copied to the ids `copyOf` gives them, with
\* notes, plan, tags and attachments but without their revision history.
DuplicateChapter(d, id, newId, copyOf) ==
  LET chapter == d.chapters[id]
      sid == chapter.subjectId
      listed == [i \in DOMAIN chapter.topicIds |-> copyOf[chapter.topicIds[i]]]
      copies == Range(copyOf)
      source(c) == CHOOSE t \in DOMAIN copyOf : copyOf[t] = c
  IN  [d EXCEPT
        !.topics = [t \in DOMAIN @ \cup copies |->
                      IF t \in copies
                      THEN [@[source(t)] EXCEPT !.chapterId = newId, !.revisions = 0]
                      ELSE @[t]],
        !.chapters = Put(@, newId, [chapter EXCEPT !.topicIds = listed]),
        !.subjects = ListChapters(@, sid, Append(@[sid].chapterIds, newId))]

ReorderChapters(d, active, over) ==
  LET sid == d.chapters[active].subjectId
      list == d.subjects[sid].chapterIds
  IN  [d EXCEPT !.subjects[sid].chapterIds =
         ArrayMove(list, Position(list, active), Position(list, over))]

MoveChapter(d, id, to) ==
  LET from == d.chapters[id].subjectId
      detached == ListChapters(d.subjects, from, Without(d.subjects[from].chapterIds, id))
  IN  [d EXCEPT
        !.subjects = [detached EXCEPT ![to].chapterIds =
                        Append(d.subjects[to].chapterIds, id)],
        !.chapters[id].subjectId = to]

-----------------------------------------------------------------------------
(* Topics.                                                                 *)

ListTopics(chapters, cid, topicIds) ==
  IF cid \in DOMAIN chapters
  THEN [chapters EXCEPT ![cid].topicIds = topicIds]
  ELSE chapters

AddTopic(d, cid, id) ==
  [d EXCEPT !.topics = Put(@, id, [chapterId |-> cid, tagIds |-> {},
                                   details |-> Blank, notes |-> 0,
                                   revisions |-> 0, plannedAt |-> Absent]),
            !.chapters[cid].topicIds = Append(@, id)]

\* renameTopic, archiveTopic, restoreTopic, toggleBookmark, and the operations
\* on a topic's attachments and flashcards.
EditTopic(d, id, details) == [d EXCEPT !.topics[id].details = details]

DeleteTopic(d, id) ==
  LET cid == d.topics[id].chapterId
  IN  [d EXCEPT !.topics = Drop(@, {id}),
                !.chapters = ListTopics(@, cid, Without(@[cid].topicIds, id))]

ReorderTopics(d, active, over) ==
  LET cid == d.topics[active].chapterId
      list == d.chapters[cid].topicIds
  IN  [d EXCEPT !.chapters[cid].topicIds =
         ArrayMove(list, Position(list, active), Position(list, over))]

MoveTopic(d, id, to) ==
  LET from == d.topics[id].chapterId
      detached == ListTopics(d.chapters, from, Without(d.chapters[from].topicIds, id))
  IN  [d EXCEPT
        !.chapters = [detached EXCEPT ![to].topicIds =
                        Append(d.chapters[to].topicIds, id)],
        !.topics[id].chapterId = to]

-----------------------------------------------------------------------------
(* Tags.                                                                   *)

AddTag(d, id) ==
  [d EXCEPT !.tags = Put(@, id, Blank), !.tagOrder = Append(@, id)]

\* The patch takes the place of the tag.
UpdateTagReplacing(d, id, details) == [d EXCEPT !.tags[id] = [details |-> details]]

UpdateTag(d, id, details) == [d EXCEPT !.tags[id] = details]

DeleteTag(d, id) ==
  [d EXCEPT !.tags = Drop(@, {id}),
            !.tagOrder = Without(@, id),
            !.topics = [t \in DOMAIN d.topics |->
                          [d.topics[t] EXCEPT !.tagIds = @ \ {id}]]]

\* Whether the id is a tag's is nobody's question.
ToggleTopicTag(d, tid, id) ==
  [d EXCEPT !.topics[tid].tagIds = IF id \in @ THEN @ \ {id} ELSE @ \cup {id}]

-----------------------------------------------------------------------------
(* normalizeData(raw): what a load makes of a stored document.             *)

\* raw[field] ?? otherwise.
FieldOr(raw, field, otherwise) ==
  IF field \in DOMAIN raw THEN raw[field] ELSE otherwise

\* suggestedNextDate(history), a date that follows from the history: the stamp
\* of the history stands for it.
Suggested(revisions) == revisions

\* A topic of the days before plans was planned by its revisions.
WithPlan(topic) ==
  IF topic.plannedAt = Absent /\ topic.revisions # 0
  THEN [topic EXCEPT !.plannedAt = Suggested(topic.revisions)]
  ELSE topic

\* A document of the days before tags gets the built-in ones, new ids every time;
\* one tag stands for the five of them.
Normalize(raw, builtin) ==
  LET topics == FieldOr(raw, "topics", <<>>)
      legacy == "tagOrder" \notin DOMAIN raw
  IN  [subjects |-> FieldOr(raw, "subjects", <<>>),
       chapters |-> FieldOr(raw, "chapters", <<>>),
       topics |-> [t \in DOMAIN topics |-> WithPlan(topics[t])],
       subjectOrder |-> FieldOr(raw, "subjectOrder", <<>>),
       tags |-> IF legacy THEN [g \in {builtin} |-> Blank] ELSE FieldOr(raw, "tags", <<>>),
       tagOrder |-> IF legacy THEN <<builtin>> ELSE raw.tagOrder]

\* The documents a load of `raw` can install.
Loads(raw) == {Normalize(raw, g) : g \in TagIds}

-----------------------------------------------------------------------------
(* What makes a document well formed.                                      *)

\* A list holds each of the given ids exactly once and nothing else.
Lists(list, ids) == Range(list) = ids /\ IsInjective(list)

\* The hierarchy's two directions agree, and every reference resolves.
Linked(d) ==
  /\ Lists(d.subjectOrder, DOMAIN d.subjects)
  /\ \A s \in DOMAIN d.subjects :
       Lists(d.subjects[s].chapterIds,
             {c \in DOMAIN d.chapters : d.chapters[c].subjectId = s})
  /\ \A c \in DOMAIN d.chapters :
       /\ d.chapters[c].subjectId \in DOMAIN d.subjects
       /\ Lists(d.chapters[c].topicIds,
                {t \in DOMAIN d.topics : d.topics[t].chapterId = c})
  /\ \A t \in DOMAIN d.topics : d.topics[t].chapterId \in DOMAIN d.chapters

\* The ids in `known` aside, a topic's tags exist.
TagsResolve(d, known) ==
  /\ Lists(d.tagOrder, DOMAIN d.tags)
  /\ \A t \in DOMAIN d.topics : d.topics[t].tagIds \subseteq DOMAIN d.tags \cup known
=============================================================================
