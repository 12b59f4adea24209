---------------------------- MODULE RevisionStore ---------------------------
(***************************************************************************)
(* The browser's document store (apps/frontend/store/useStore.ts) with its *)
(* undo history (history.ts) and silent edits (silentFields.ts).           *)
(*                                                                         *)
(* A structural edit records the document before it; a silent edit (notes, *)
(* revision ticks, plans) does not.  undo and redo put a recorded document *)
(* back, with the present silent fields of the topics both documents have. *)
(* An operation whose guard fails returns early and changes nothing.       *)
(*                                                                         *)
(* Of the save queue (module SaveQueue) the store sees that a save is due, *)
(* from schedule() until the queue takes its next snapshot.                *)
(***************************************************************************)
EXTENDS SyllabusDoc

CONSTANTS InitialDocs,  \* what load() or the seed can give, old forms included
          MaxHistory,   \* MAX_HISTORY
          MaxChanges    \* bound: edits after a document was installed

ASSUME HistoryAssumption == MaxHistory \in Nat \ {0} /\ MaxChanges \in Nat
ASSUME InitialAssumption ==
  \A raw \in InitialDocs : \A d \in Loads(raw) :
    IsDocument(d) /\ Linked(d) /\ TagsResolve(d, {})

VARIABLES present,  \* subjects, chapters, topics, subjectOrder, tags, tagOrder
          past, future,  \* the two parts of the history
          due,      \* persist() was called after the last snapshot
          handed,   \* auxiliary: the document last loaded from or handed to repo
          latest,   \* auxiliary: what the last silent edit of a topic (or its
                    \* creation) gave its silent fields
          unknown,  \* auxiliary: ids toggled on a topic when they were no tag's
          changes   \* auxiliary: number of edits, also the stamp of the last

vars == <<present, past, future, due, handed, latest, unknown, changes>>

FirstOwn == [notes |-> 0, revisions |-> 0, plannedAt |-> Absent]

\* The silent fields of a document's topics, by topic.
OwnOf(d) == [t \in TopicIds |->
               IF t \in DOMAIN d.topics THEN Own(d.topics[t]) ELSE FirstOwn]

\* The empty store, or the store after its first hydrate().
Init ==
  \E raw \in InitialDocs : \E d \in Loads(raw) :
    /\ present = d /\ past = <<>> /\ future = <<>>
    /\ due = FALSE /\ handed = raw
    /\ latest = OwnOf(d) /\ unknown = {} /\ changes = 0

-----------------------------------------------------------------------------
(* history.ts                                                              *)

LastOf(list, n) ==
  IF Len(list) <= n THEN list ELSE SubSeq(list, Len(list) - n + 1, Len(list))

\* record() that keeps the redo branch.
RecordKeepingFuture(d) ==
  /\ past' = LastOf(Append(past, d), MaxHistory)
  /\ UNCHANGED future

\* record(): the oldest entries beyond MAX_HISTORY go, and the redo branch.
Record(d) ==
  /\ past' = LastOf(Append(past, d), MaxHistory)
  /\ future' = <<>>

-----------------------------------------------------------------------------
(* silentFields.ts                                                         *)

\* The plan goes the way of the structure.
PreserveAllButPlan(restored, current) ==
  [restored EXCEPT !.topics = [t \in DOMAIN @ |->
     IF t \in DOMAIN current.topics
     THEN [@[t] EXCEPT !.notes = current.topics[t].notes,
                       !.revisions = current.topics[t].revisions]
     ELSE @[t]]]

\* The tags, too, are carried forward.
PreserveTagsToo(restored, current) ==
  [restored EXCEPT !.topics = [t \in DOMAIN @ |->
     IF t \in DOMAIN current.topics
     THEN [WithOwn(@[t], Own(current.topics[t])) EXCEPT
             !.tagIds = current.topics[t].tagIds]
     ELSE @[t]]]

\* preserveSilentFields(restored, present).
PreserveSilentFields(restored, current) ==
  [restored EXCEPT !.topics = [t \in DOMAIN @ |->
     IF t \in DOMAIN current.topics
     THEN WithOwn(@[t], Own(current.topics[t]))
     ELSE @[t]]]

-----------------------------------------------------------------------------
(* Saving.                                                                 *)

\* persist(): queue.schedule().
Persist == due' = TRUE /\ UNCHANGED handed

\* The queue calls snapshot(get()) and hands the document to repo.save().
Snapshot ==
  /\ due
  /\ due' = FALSE /\ handed' = present
  /\ UNCHANGED <<present, past, future, latest, unknown, changes>>

-----------------------------------------------------------------------------
(* Structural edits: commit(patch).                                        *)

Commit(d) ==
  /\ changes < MaxChanges
  /\ Record(present)
  /\ present' = d
  /\ Persist
  /\ changes' = changes + 1

\* commit for edits that make no topic and toggle no tag.
Commits(d) == Commit(d) /\ UNCHANGED <<latest, unknown>>

\* makeId(): an id that no document the store can still show has ever used, nor
\* anyone else.
Shown == {present} \cup Range(past) \cup Range(future)
FreshSubjects == {s \in SubjectIds : \A d \in Shown : s \notin DOMAIN d.subjects}
FreshChapters == {c \in ChapterIds : \A d \in Shown : c \notin DOMAIN d.chapters}
FreshTopics == {t \in TopicIds : \A d \in Shown : t \notin DOMAIN d.topics}
FreshTags == {g \in TagIds \ unknown : \A d \in Shown : g \notin DOMAIN d.tags}

Subjects == DOMAIN present.subjects
Chapters == DOMAIN present.chapters
Topics == DOMAIN present.topics
Tags == DOMAIN present.tags

SubjectEdits ==
  \/ \E s \in FreshSubjects : Commits(AddSubject(present, s))
  \/ \E s \in Subjects, x \in Details : Commits(EditSubject(present, s, x))
  \/ \E s \in Subjects : Commits(DeleteSubject(present, s))
  \/ \E s, over \in Subjects :
       s # over /\ Commits(ReorderSubjects(present, s, over))

ChapterEdits ==
  \/ \E s \in Subjects, c \in FreshChapters : Commits(AddChapter(present, s, c))
  \/ \E c \in Chapters, x \in Details : Commits(EditChapter(present, c, x))
  \/ \E c \in Chapters : Commits(DeleteChapter(present, c))
  \/ \E c, over \in Chapters :
       /\ c # over
       /\ present.chapters[over].subjectId = present.chapters[c].subjectId
       /\ Commits(ReorderChapters(present, c, over))
  \/ \E c \in Chapters, s \in Subjects :
       /\ present.chapters[c].subjectId # s
       /\ Commits(MoveChapter(present, c, s))

\* duplicateChapter: topics that the chapter lists and that exist are copied.
Duplicate ==
  \E c \in Chapters, new \in FreshChapters :
    \E copyOf \in Injection(Range(present.chapters[c].topicIds) \cap Topics, FreshTopics) :
      LET d == DuplicateChapter(present, c, new, copyOf)
      IN  /\ Commit(d)
          /\ latest' = [t \in TopicIds |->
                          IF t \in Range(copyOf) THEN Own(d.topics[t]) ELSE latest[t]]
          /\ UNCHANGED unknown

NewTopic ==
  \E c \in Chapters, t \in FreshTopics :
    /\ Commit(AddTopic(present, c, t))
    /\ latest' = [latest EXCEPT ![t] = FirstOwn]
    /\ UNCHANGED unknown

TopicEdits ==
  \/ \E t \in Topics, x \in Details : Commits(EditTopic(present, t, x))
  \/ \E t \in Topics : Commits(DeleteTopic(present, t))
  \/ \E t, over \in Topics :
       /\ t # over
       /\ present.topics[over].chapterId = present.topics[t].chapterId
       /\ Commits(ReorderTopics(present, t, over))
  \/ \E t \in Topics, c \in Chapters :
       /\ present.topics[t].chapterId # c
       /\ Commits(MoveTopic(present, t, c))

TagEdits ==
  \/ \E g \in FreshTags : Commits(AddTag(present, g))
  \/ \E g \in Tags, x \in Details : Commits(UpdateTag(present, g, x))
  \/ \E g \in Tags : Commits(DeleteTag(present, g))

\* toggleTopicTag looks up the topic, never the tag.
ToggleTag ==
  \E t \in Topics, g \in TagIds :
    /\ Commit(ToggleTopicTag(present, t, g))
    /\ unknown' = unknown \cup ({g} \ Tags)
    /\ UNCHANGED latest

-----------------------------------------------------------------------------
(* Silent edits: commitSilent(patch).                                      *)

\* The silent fields of the topics become what `own` says.
CommitSilent(own) ==
  /\ changes < MaxChanges
  /\ changes' = changes + 1
  /\ present' = [present EXCEPT !.topics = [t \in DOMAIN @ |->
                   IF t \in DOMAIN own THEN WithOwn(@[t], own[t]) ELSE @[t]]]
  /\ latest' = [t \in TopicIds |-> IF t \in DOMAIN own THEN own[t] ELSE latest[t]]
  /\ Persist
  /\ UNCHANGED <<past, future, unknown>>

Stamp == changes + 1
OwnNow(t) == Own(present.topics[t])

UpdateTopicNotes(t) ==
  CommitSilent([u \in {t} |-> [OwnNow(u) EXCEPT !.notes = Stamp]])

\* Revising takes the plan away instead of making it null.
MarkTopicRevisedPlanless(t) ==
  CommitSilent([u \in {t} |-> [OwnNow(u) EXCEPT !.revisions = Stamp,
                                                !.plannedAt = Absent]])

\* Revising fulfils the plan.
MarkTopicRevised(t) ==
  CommitSilent([u \in {t} |-> [OwnNow(u) EXCEPT !.revisions = Stamp,
                                                !.plannedAt = NoPlan]])

\* deleteRevision, which may leave none (0), and updateRevisionTimestamp.
EditRevisionHistory(t) ==
  /\ OwnNow(t).revisions # 0
  /\ \E history \in {0, Stamp} :
       CommitSilent([u \in {t} |-> [OwnNow(u) EXCEPT !.revisions = history]])

\* planTopic, and planTopics for those of the ids that exist, if any does.
PlanTopics(ts) ==
  /\ ts # {}
  /\ CommitSilent([t \in ts |-> [OwnNow(t) EXCEPT !.plannedAt = Stamp]])

ClearPlan(t) ==
  CommitSilent([u \in {t} |-> [OwnNow(u) EXCEPT !.plannedAt = NoPlan]])

SilentEdits ==
  \/ \E t \in Topics : \/ UpdateTopicNotes(t) \/ MarkTopicRevised(t)
                       \/ EditRevisionHistory(t) \/ ClearPlan(t)
  \/ \E ts \in SUBSET Topics : PlanTopics(ts)

-----------------------------------------------------------------------------
(* undo and redo.                                                          *)

\* The store's document and history as one value.
Store == [present |-> present, past |-> past, future |-> future]

\* undo() that puts the document it restores, not the one it leaves, on the
\* redo branch.
AfterUndoForgetful(s) ==
  LET restored == s.past[Len(s.past)]
  IN  [present |-> PreserveSilentFields(restored, s.present),
       past |-> SubSeq(s.past, 1, Len(s.past) - 1),
       future |-> <<restored>> \o s.future]

\* undo() and redo() on the store; they do nothing on an empty list.
AfterUndo(s) ==
  LET restored == s.past[Len(s.past)]
  IN  [present |-> PreserveSilentFields(restored, s.present),
       past |-> SubSeq(s.past, 1, Len(s.past) - 1),
       future |-> <<s.present>> \o s.future]

AfterRedo(s) ==
  [present |-> PreserveSilentFields(Head(s.future), s.present),
   past |-> Append(s.past, s.present),
   future |-> Tail(s.future)]

Becomes(s) ==
  /\ present' = s.present /\ past' = s.past /\ future' = s.future
  /\ Persist
  /\ UNCHANGED <<latest, unknown, changes>>

Undo == past # <<>> /\ Becomes(AfterUndo(Store))
Redo == future # <<>> /\ Becomes(AfterRedo(Store))

\* normalizeData(raw) is installed with an empty history.  Bringing an old form up
\* to date is no edit: no persist(), and a save that is due stays due.
Install(raw) ==
  \E d \in Loads(raw) :
    /\ present' = d /\ past' = <<>> /\ future' = <<>>
    /\ handed' = raw /\ UNCHANGED due
    /\ latest' = OwnOf(d)

\* hydrate() again (another sign-in): what the server has, which may be what it
\* was last handed, or the seed, which is handed to repo.save() at once.
Hydrate ==
  \/ \E raw \in InitialDocs : Install(raw) /\ unknown' = {} /\ changes' = 0
  \/ Install(handed) /\ UNCHANGED <<unknown, changes>>

-----------------------------------------------------------------------------

Next ==
  \/ SubjectEdits \/ ChapterEdits \/ Duplicate
  \/ NewTopic \/ TopicEdits \/ TagEdits \/ ToggleTag
  \/ SilentEdits \/ Undo \/ Redo \/ Hydrate \/ Snapshot

Spec == Init /\ [][Next]_vars

-----------------------------------------------------------------------------
(* Safety.                                                                 *)

TypeOK ==
  /\ \A d \in Shown : IsDocument(d)
  /\ latest \in [TopicIds -> [notes: Nat, revisions: Nat, plannedAt: Plans]]
  /\ due \in BOOLEAN /\ (handed \in InitialDocs \/ IsDocument(handed))
  /\ unknown \subseteq TagIds /\ changes \in Nat

\* The history is bounded as a whole: redo() appends to `past` without looking
\* at MAX_HISTORY, which is sound only because record() clears `future`
\* (history.ts:12-26).
HistoryBounded == Len(past) + Len(future) <= MaxHistory

\* However edits, moves, duplications, deletions, undo and redo are mixed, the
\* two directions of the hierarchy agree in the document and in every document
\* undo or redo can bring back (useStore.ts:111-375): a topic that is reached
\* from its chapter's list is counted under the same chapter by its chapterId,
\* and nothing is unreachable.
HierarchyLinked == \A d \in Shown : Linked(d)

\* A topic carries a tag that does not exist only when it was toggled by hand at
\* a time the tag did not exist (useStore.ts:447-454): deletion, undo and redo,
\* which bring tags and topics back from different moments, leave none behind
\* (deleteTag, useStore.ts:436-446; preserveSilentFields).
TagsNeverDangle == \A d \in Shown : TagsResolve(d, unknown)

\* "Undo reverts structure, never typing" (silentFields.ts:3-5): whatever was
\* deleted, restored, undone or redone since, a topic on the screen has the
\* notes, the revision history and the plan it was last given.
TypingNeverReverted ==
  \A t \in DOMAIN present.topics : Own(present.topics[t]) = latest[t]

\* Undo and redo are each other's inverse: the document comes back exactly, and
\* the history up to silent fields (history.ts:17-27, useStore.ts:456-467).
SameStore(s, r) ==
  /\ s.present = r.present
  /\ Len(s.past) = Len(r.past) /\ Len(s.future) = Len(r.future)
  /\ \A i \in DOMAIN s.past : Structure(s.past[i]) = Structure(r.past[i])
  /\ \A i \in DOMAIN s.future : Structure(s.future[i]) = Structure(r.future[i])

UndoRedoRoundTrip ==
  /\ past # <<>> => SameStore(AfterRedo(AfterUndo(Store)), Store)
  /\ future # <<>> => SameStore(AfterUndo(AfterRedo(Store)), Store)

\* With no save due, a load of what repo was last given shows what is on the
\* screen: nothing bypasses persist() (useStore.ts:79-87, 456-467), and no edit,
\* undo or redo makes a document from which normalizeData would invent a plan the
\* student cleared or fulfilled (normalize.ts:19-30, silentFields.ts:10).
LoadShowsTheScreen == ~due => present \in Loads(handed)
=============================================================================
