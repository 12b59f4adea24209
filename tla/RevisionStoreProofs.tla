------------------------- MODULE RevisionStoreProofs ------------------------
(***************************************************************************)
(* The promises of the document store (modules SyllabusDoc and             *)
(* RevisionStore) for every number of subjects, chapters, topics and tags, *)
(* every MAX_HISTORY, and histories of any edits.                          *)
(*                                                                         *)
(* Part one: every edit keeps a document well formed (SyllabusDoc), that   *)
(* is of its types, with a hierarchy whose two directions agree and with   *)
(* no tag that does not exist.  First what append, filter and arrayMove    *)
(* make of a list that holds each of some ids once.  Then one level of the *)
(* hierarchy by itself, since subjects and chapters are related just as    *)
(* chapters and topics are.  Then the edits, each as what it does to       *)
(* either level.                                                           *)
(*                                                                         *)
(* Part two: the history.  Every document the store can still show is well *)
(* formed, by the lemma of part one for each edit.  Past and future        *)
(* together are no longer than MAX_HISTORY.  And past, present and future  *)
(* are one line of documents in which a topic that is in two of them is in *)
(* all between, and the document nearest to the present that has a topic   *)
(* says of it what the topic was last given.  This is what makes undo      *)
(* revert structure but never typing: undo moves to the next document of   *)
(* the line and carries the silent fields of the topics of the document it *)
(* leaves.                                                                 *)
(***************************************************************************)
EXTENDS RevisionStore, TLAPS


IsFn(f) == f = [x \in DOMAIN f |-> f[x]]

-----------------------------------------------------------------------------
(* Lists.                                                                  *)

\* A list with each of the given ids once.
EachOnce(list, ids) == list \in Seq(ids) /\ Range(list) = ids /\ IsInjective(list)

\* The list of something just made.
LEMMA NothingOnce == EachOnce(<<>>, {})
  BY DEF EachOnce, Range, IsInjective

\* [...list, id] of a new id.
LEMMA AppendOnce ==
  ASSUME NEW A, NEW list, EachOnce(list, A), NEW x, x \notin A
  PROVE  EachOnce(Append(list, x), A \cup {x})
<1> DEFINE n == Len(list)
           B == A \cup {x}
           longer == Append(list, x)
<1>1. list \in Seq(A) /\ n \in Nat /\ DOMAIN list = 1..n /\ \A i \in 1..n : list[i] \in A
  BY DEF EachOnce
<1>2. list \in Seq(B)
  BY <1>1
<1>3. longer \in Seq(B) /\ DOMAIN longer = 1..(n + 1) /\ longer[n + 1] = x
      /\ \A i \in 1..n : longer[i] = list[i]
  BY <1>1, <1>2
<1>4. \A i \in 1..(n + 1) : i = n + 1 \/ i \in 1..n
  BY <1>1
<1>5. \A a \in A : \E i \in 1..n : list[i] = a
  BY <1>1 DEF EachOnce, Range
<1>6. \A i, j \in 1..n : list[i] = list[j] => i = j
  BY <1>1 DEF EachOnce, IsInjective
<1> HIDE DEF longer, n
<1>7. n + 1 \in 1..(n + 1) /\ 1..n \subseteq 1..(n + 1)
  BY <1>1
<1>8. Range(longer) = B
  BY <1>1, <1>3, <1>4, <1>5, <1>7 DEF Range
<1>9. IsInjective(longer)
  BY <1>1, <1>3, <1>4, <1>6 DEF IsInjective
<1> QED
  BY <1>3, <1>8, <1>9 DEF EachOnce, longer

\* indexOf.
LEMMA PositionIs ==
  ASSUME NEW list, NEW x \in Range(list)
  PROVE  Position(list, x) \in DOMAIN list /\ list[Position(list, x)] = x
  BY DEF Range, Position

\* list.filter((x) => x !== id).
LEMMA WithoutOnce ==
  ASSUME NEW A, NEW list, EachOnce(list, A), NEW x
  PROVE  EachOnce(Without(list, x), A \ {x})
<1> DEFINE n == Len(list)
           p == Position(list, x)
           rest == [i \in 1..(n - 1) |-> list[IF i < p THEN i ELSE i + 1]]
<1>1. list \in Seq(A) /\ n \in Nat /\ DOMAIN list = 1..n /\ (\A i \in 1..n : list[i] \in A)
      /\ Range(list) = A
  BY DEF EachOnce
<1>2. CASE x \notin A
  <2>1. A \ {x} = A /\ Without(list, x) = list
    BY <1>1, <1>2 DEF Without
  <2> QED
    BY <2>1
<1>3. CASE x \in A
  <2>1. p \in 1..n /\ list[p] = x
    BY <1>1, <1>3, PositionIs
  <2>2. Without(list, x) = rest
    BY <1>1, <1>3 DEF Without
  <2>3. \A a \in A : \E i \in 1..n : list[i] = a
    BY <1>1 DEF Range
  <2>4. \A i, j \in 1..n : list[i] = list[j] => i = j
    BY <1>1 DEF EachOnce, IsInjective
  <2> HIDE DEF n, p
  <2>5. \A i \in 1..(n - 1) : /\ i < p => i \in 1..n /\ rest[i] = list[i] /\ i # p
                              /\ ~(i < p) => i + 1 \in 1..n /\ rest[i] = list[i + 1] /\ i + 1 # p
    BY <1>1, <2>1
  <2>6. DOMAIN rest = 1..(n - 1) /\ n - 1 \in Nat
    BY <1>1, <2>1
  <2>7. rest \in [1..(n - 1) -> A \ {x}]
    <3>1. \A i \in 1..(n - 1) : rest[i] \in A \ {x}
      BY <1>1, <2>1, <2>4, <2>5
    <3> QED
      BY <3>1
  <2>8. rest \in Seq(A \ {x})
    BY <2>6, <2>7
  <2>9. \A a \in A \ {x} : \E i \in 1..(n - 1) : rest[i] = a
    <3> TAKE a \in A \ {x}
    <3>1. PICK k \in 1..n : list[k] = a
      BY <2>3
    <3>2. k # p
      BY <2>1, <3>1
    <3>3. CASE k < p
      <4>1. k \in 1..(n - 1) /\ rest[k] = a
        BY <1>1, <2>1, <2>5, <3>1, <3>3
      <4> QED
        BY <4>1
    <3>4. CASE k > p
      <4>1. k - 1 \in 1..(n - 1) /\ ~(k - 1 < p) /\ k - 1 + 1 = k
        BY <1>1, <2>1, <3>4
      <4>2. rest[k - 1] = a
        BY <2>5, <3>1, <4>1
      <4> QED
        BY <4>1, <4>2
    <3> QED
      BY <1>1, <2>1, <3>2, <3>3, <3>4
  <2>10. \A i, j \in 1..(n - 1) : rest[i] = rest[j] => i = j
    BY <1>1, <2>1, <2>4, <2>5
  <2> HIDE DEF rest
  <2>11. Range(rest) = A \ {x}
    BY <2>6, <2>7, <2>9 DEF Range
  <2>12. IsInjective(rest)
    BY <2>6, <2>10 DEF IsInjective
  <2> QED
    BY <2>2, <2>8, <2>11, <2>12 DEF EachOnce
<1> QED
  BY <1>2, <1>3

\* arrayMove() changes only the order.
LEMMA MovedOnce ==
  ASSUME NEW A, NEW list, EachOnce(list, A), NEW x \in A, NEW y \in A
  PROVE  EachOnce(ArrayMove(list, Position(list, x), Position(list, y)), A)
<1> DEFINE n == Len(list)
           from == Position(list, x)
           to == Position(list, y)
           moved == ArrayMove(list, from, to)
           at(i) == IF i = to THEN from
                    ELSE IF from < to /\ from <= i /\ i < to THEN i + 1
                    ELSE IF to < i /\ i <= from THEN i - 1 ELSE i
           back(k) == IF k = from THEN to
                      ELSE IF from < k /\ k <= to THEN k - 1
                      ELSE IF to <= k /\ k < from THEN k + 1 ELSE k
<1>1. list \in Seq(A) /\ n \in Nat /\ DOMAIN list = 1..n /\ (\A i \in 1..n : list[i] \in A)
      /\ Range(list) = A
  BY DEF EachOnce
<1>2. from \in 1..n /\ to \in 1..n
  BY <1>1, PositionIs
<1>3. \A a \in A : \E i \in 1..n : list[i] = a
  BY <1>1 DEF Range
<1>4. \A i, j \in 1..n : list[i] = list[j] => i = j
  BY <1>1 DEF EachOnce, IsInjective
<1> HIDE DEF n, from, to
<1>5. DOMAIN moved = 1..n /\ \A i \in 1..n : moved[i] = list[at(i)]
  BY <1>1, <1>2 DEF ArrayMove
<1>6. \A i \in 1..n : at(i) \in 1..n /\ back(i) \in 1..n /\ at(back(i)) = i
  BY <1>1, <1>2
<1>7. \A i, j \in 1..n : at(i) = at(j) => i = j
  BY <1>1, <1>2
<1>8. moved = [i \in 1..n |-> moved[i]]
  BY <1>1 DEF ArrayMove
<1> HIDE DEF moved, at, back
<1>9. \A i \in 1..n : moved[i] \in A
  BY <1>1, <1>5, <1>6
<1>10. moved \in Seq(A)
  BY <1>1, <1>8, <1>9
<1>11. \A a \in A : \E i \in 1..n : moved[i] = a
  <2> TAKE a \in A
  <2>1. PICK k \in 1..n : list[k] = a
    BY <1>3
  <2>2. back(k) \in 1..n /\ moved[back(k)] = a
    BY <1>5, <1>6, <2>1
  <2> QED
    BY <2>2
<1>12. Range(moved) = A
  BY <1>5, <1>9, <1>11 DEF Range
<1>13. IsInjective(moved)
  BY <1>4, <1>5, <1>6, <1>7, SMTT(30) DEF IsInjective
<1> QED
  BY <1>10, <1>12, <1>13 DEF EachOnce, moved, from, to

-----------------------------------------------------------------------------
(* One level of the hierarchy: `lists` gives each parent the list of its    *)
(* children, `of` each child its parent.                                    *)

ChildrenOf(of, p) == {c \in DOMAIN of : of[c] = p}

Level(lists, of) ==
  /\ \A p \in DOMAIN lists : EachOnce(lists[p], ChildrenOf(of, p))
  /\ \A c \in DOMAIN of : of[c] \in DOMAIN lists

\* Only what the two maps say of their keys matters.
LEMMA SameLevel ==
  ASSUME NEW lists, NEW of, Level(lists, of), NEW lists2, NEW of2,
         DOMAIN lists2 = DOMAIN lists, \A p \in DOMAIN lists : lists2[p] = lists[p],
         DOMAIN of2 = DOMAIN of, \A c \in DOMAIN of : of2[c] = of[c]
  PROVE  Level(lists2, of2)
<1>1. \A p : ChildrenOf(of2, p) = ChildrenOf(of, p)
  BY DEF ChildrenOf
<1> QED
  BY <1>1 DEF Level

\* A parent is made, without children.
LEMMA ParentAdded ==
  ASSUME NEW lists, NEW of, Level(lists, of), NEW p, p \notin DOMAIN lists,
         NEW lists2, DOMAIN lists2 = DOMAIN lists \cup {p},
         \A q \in DOMAIN lists : lists2[q] = lists[q], lists2[p] = <<>>
  PROVE  Level(lists2, of)
<1>1. ChildrenOf(of, p) = {}
  BY DEF Level, ChildrenOf
<1>2. EachOnce(lists2[p], ChildrenOf(of, p))
  BY <1>1, NothingOnce
<1> QED
  BY <1>2 DEF Level

\* Children listed by the new parent come with it.
FamilyCame(lists, of, p, new, lists2, of2) ==
  /\ p \notin DOMAIN lists /\ DOMAIN lists2 = DOMAIN lists \cup {p}
  /\ \A q \in DOMAIN lists : lists2[q] = lists[q]
  /\ EachOnce(lists2[p], new)
  /\ new \cap DOMAIN of = {} /\ DOMAIN of2 = DOMAIN of \cup new
  /\ \A c \in DOMAIN of : of2[c] = of[c]
  /\ \A c \in new : of2[c] = p

\* A parent is made, with children.
LEMMA FamilyAdded ==
  ASSUME NEW lists, NEW of, Level(lists, of), NEW p, NEW new, NEW lists2, NEW of2,
         FamilyCame(lists, of, p, new, lists2, of2)
  PROVE  Level(lists2, of2)
<1> USE DEF FamilyCame
<1>1. ChildrenOf(of2, p) = new
  BY DEF Level, ChildrenOf
<1>2. \A q \in DOMAIN lists : ChildrenOf(of2, q) = ChildrenOf(of, q)
  BY DEF ChildrenOf
<1> QED
  BY <1>1, <1>2 DEF Level

ChildCame(lists, of, p, c, lists2, of2) ==
  /\ p \in DOMAIN lists /\ c \notin DOMAIN of
  /\ DOMAIN lists2 = DOMAIN lists
  /\ \A q \in DOMAIN lists \ {p} : lists2[q] = lists[q]
  /\ lists2[p] = Append(lists[p], c)
  /\ DOMAIN of2 = DOMAIN of \cup {c}
  /\ \A x \in DOMAIN of : of2[x] = of[x]
  /\ of2[c] = p

\* A child is made, and listed last.
LEMMA ChildAdded ==
  ASSUME NEW lists, NEW of, Level(lists, of), NEW p, NEW c, NEW lists2, NEW of2,
         ChildCame(lists, of, p, c, lists2, of2)
  PROVE  Level(lists2, of2)
<1> USE DEF ChildCame
<1>1. ChildrenOf(of2, p) = ChildrenOf(of, p) \cup {c} /\ c \notin ChildrenOf(of, p)
  BY DEF ChildrenOf
<1>2. \A q \in DOMAIN lists \ {p} : ChildrenOf(of2, q) = ChildrenOf(of, q)
  BY DEF ChildrenOf
<1>3. EachOnce(lists[p], ChildrenOf(of, p))
  BY DEF Level
<1>4. EachOnce(lists2[p], ChildrenOf(of2, p))
  BY <1>1, <1>3, AppendOnce
<1> QED
  BY <1>2, <1>4 DEF Level

ChildWent(lists, of, c, lists2, of2) ==
  /\ c \in DOMAIN of
  /\ DOMAIN lists2 = DOMAIN lists
  /\ \A q \in DOMAIN lists \ {of[c]} : lists2[q] = lists[q]
  /\ lists2[of[c]] = Without(lists[of[c]], c)
  /\ DOMAIN of2 = DOMAIN of \ {c}
  /\ \A x \in DOMAIN of \ {c} : of2[x] = of[x]

\* A child goes, from its list too.
LEMMA ChildDropped ==
  ASSUME NEW lists, NEW of, Level(lists, of), NEW c, NEW lists2, NEW of2,
         ChildWent(lists, of, c, lists2, of2)
  PROVE  Level(lists2, of2)
<1> USE DEF ChildWent
<1> DEFINE p == of[c]
<1>1. ChildrenOf(of2, p) = ChildrenOf(of, p) \ {c}
  BY DEF ChildrenOf
<1>2. \A q \in DOMAIN lists \ {p} : ChildrenOf(of2, q) = ChildrenOf(of, q)
  BY DEF ChildrenOf
<1>3. p \in DOMAIN lists /\ EachOnce(lists[p], ChildrenOf(of, p))
  BY DEF Level
<1>4. EachOnce(lists2[p], ChildrenOf(of2, p))
  BY <1>1, <1>3, WithoutOnce
<1> QED
  BY <1>2, <1>4 DEF Level

\* Parents go with their children.
FamiliesGone(lists, of, gone, lists2, of2) ==
  /\ DOMAIN lists2 = DOMAIN lists \ gone
  /\ \A q \in DOMAIN lists \ gone : lists2[q] = lists[q]
  /\ \A c : c \in DOMAIN of2 <=> c \in DOMAIN of /\ of[c] \notin gone
  /\ \A c \in DOMAIN of2 : of2[c] = of[c]

\* So do the children of all of them.
LEMMA FamiliesDropped ==
  ASSUME NEW lists, NEW of, Level(lists, of), NEW gone, NEW lists2, NEW of2,
         FamiliesGone(lists, of, gone, lists2, of2)
  PROVE  Level(lists2, of2)
<1> USE DEF FamiliesGone
<1>1. \A q \in DOMAIN lists \ gone : ChildrenOf(of2, q) = ChildrenOf(of, q)
  BY DEF ChildrenOf
<1> QED
  BY <1>1 DEF Level

\* The siblings change their order.
ListSorted(lists, of, x, y, lists2) ==
  /\ x \in DOMAIN of /\ y \in DOMAIN of /\ of[y] = of[x]
  /\ DOMAIN lists2 = DOMAIN lists
  /\ \A q \in DOMAIN lists \ {of[x]} : lists2[q] = lists[q]
  /\ lists2[of[x]] = ArrayMove(lists[of[x]], Position(lists[of[x]], x),
                               Position(lists[of[x]], y))

\* The list still holds each child once.
LEMMA ListReordered ==
  ASSUME NEW lists, NEW of, Level(lists, of), NEW x, NEW y, NEW lists2,
         ListSorted(lists, of, x, y, lists2)
  PROVE  Level(lists2, of)
<1> USE DEF ListSorted
<1> DEFINE p == of[x]
<1>1. p \in DOMAIN lists /\ EachOnce(lists[p], ChildrenOf(of, p))
      /\ x \in ChildrenOf(of, p) /\ y \in ChildrenOf(of, p)
  BY DEF Level, ChildrenOf
<1>2. EachOnce(lists2[p], ChildrenOf(of, p))
  BY <1>1, MovedOnce
<1> QED
  BY <1>2 DEF Level

\* A child gets another parent.
ChildWentTo(lists, of, c, p, lists2, of2) ==
  /\ c \in DOMAIN of /\ p \in DOMAIN lists /\ of[c] # p
  /\ DOMAIN lists2 = DOMAIN lists
  /\ \A q \in DOMAIN lists \ {of[c], p} : lists2[q] = lists[q]
  /\ lists2[of[c]] = Without(lists[of[c]], c) /\ lists2[p] = Append(lists[p], c)
  /\ DOMAIN of2 = DOMAIN of /\ of2[c] = p
  /\ \A x \in DOMAIN of \ {c} : of2[x] = of[x]

\* It goes from one list to the other.
LEMMA ChildMoved ==
  ASSUME NEW lists, NEW of, Level(lists, of), NEW c, NEW p, NEW lists2, NEW of2,
         ChildWentTo(lists, of, c, p, lists2, of2)
  PROVE  Level(lists2, of2)
<1> USE DEF ChildWentTo
<1> DEFINE from == of[c]
<1>1. /\ ChildrenOf(of2, from) = ChildrenOf(of, from) \ {c}
      /\ ChildrenOf(of2, p) = ChildrenOf(of, p) \cup {c} /\ c \notin ChildrenOf(of, p)
  BY DEF ChildrenOf
<1>2. \A q \in DOMAIN lists \ {from, p} : ChildrenOf(of2, q) = ChildrenOf(of, q)
  BY DEF ChildrenOf
<1>3. EachOnce(lists2[from], ChildrenOf(of2, from))
  BY <1>1, WithoutOnce DEF Level
<1>4. EachOnce(lists2[p], ChildrenOf(of2, p))
  BY <1>1, AppendOnce DEF Level
<1> QED
  BY <1>2, <1>3, <1>4 DEF Level

-----------------------------------------------------------------------------

SubjectLists(d) == [s \in DOMAIN d.subjects |-> d.subjects[s].chapterIds]
SubjectOf(d) == [c \in DOMAIN d.chapters |-> d.chapters[c].subjectId]
ChapterLists(d) == [c \in DOMAIN d.chapters |-> d.chapters[c].topicIds]
ChapterOf(d) == [t \in DOMAIN d.topics |-> d.topics[t].chapterId]
TagsOf(d) == [t \in DOMAIN d.topics |-> d.topics[t].tagIds]

TagsKnown(d, extra) ==
  /\ EachOnce(d.tagOrder, DOMAIN d.tags)
  /\ \A t \in DOMAIN d.topics : d.topics[t].tagIds \subseteq DOMAIN d.tags \cup extra

\* What holds of every document the store makes.
WellFormed(d, extra) ==
  /\ IsDocument(d)
  /\ EachOnce(d.subjectOrder, DOMAIN d.subjects)
  /\ Level(SubjectLists(d), SubjectOf(d)) /\ Level(ChapterLists(d), ChapterOf(d))
  /\ TagsKnown(d, extra)

\* EachOnce is Lists of module SyllabusDoc, and the type of the list.
LEMMA EachOnceIsLists ==
  ASSUME NEW S, NEW list \in Seq(S), NEW A
  PROVE  EachOnce(list, A) <=> Lists(list, A)
<1>1. list \in Seq(Range(list))
  BY DEF Range
<1> QED
  BY <1>1 DEF EachOnce, Lists

\* WellFormed is what the model says of a document, level by level.
LEMMA WellFormedIs ==
  ASSUME NEW extra, NEW d
  PROVE  WellFormed(d, extra) <=> IsDocument(d) /\ Linked(d) /\ TagsResolve(d, extra)
<1> SUFFICES ASSUME IsDocument(d)
             PROVE  WellFormed(d, extra) <=> Linked(d) /\ TagsResolve(d, extra)
  BY DEF WellFormed
<1>1. d.subjectOrder \in Seq(SubjectIds) /\ d.tagOrder \in Seq(TagIds)
  BY DEF IsDocument
<1>2. \A s \in DOMAIN d.subjects : d.subjects[s].chapterIds \in Seq(ChapterIds)
  BY DEF IsDocument, IsMap, SubjectRecord
<1>3. \A c \in DOMAIN d.chapters : d.chapters[c].topicIds \in Seq(TopicIds)
  BY DEF IsDocument, IsMap, ChapterRecord
<1>4. EachOnce(d.subjectOrder, DOMAIN d.subjects) <=> Lists(d.subjectOrder, DOMAIN d.subjects)
  BY <1>1, EachOnceIsLists
<1>5. EachOnce(d.tagOrder, DOMAIN d.tags) <=> Lists(d.tagOrder, DOMAIN d.tags)
  BY <1>1, EachOnceIsLists
<1>6. \A s : ChildrenOf(SubjectOf(d), s) = {c \in DOMAIN d.chapters : d.chapters[c].subjectId = s}
  BY DEF ChildrenOf, SubjectOf
<1>7. \A c : ChildrenOf(ChapterOf(d), c) = {t \in DOMAIN d.topics : d.topics[t].chapterId = c}
  BY DEF ChildrenOf, ChapterOf
<1>8. Level(SubjectLists(d), SubjectOf(d)) <=>
        /\ \A s \in DOMAIN d.subjects :
             Lists(d.subjects[s].chapterIds,
                   {c \in DOMAIN d.chapters : d.chapters[c].subjectId = s})
        /\ \A c \in DOMAIN d.chapters : d.chapters[c].subjectId \in DOMAIN d.subjects
  <2>1. \A s \in DOMAIN d.subjects :
          EachOnce(SubjectLists(d)[s], ChildrenOf(SubjectOf(d), s))
            <=> Lists(d.subjects[s].chapterIds,
                      {c \in DOMAIN d.chapters : d.chapters[c].subjectId = s})
    <3> TAKE s \in DOMAIN d.subjects
    <3>1. SubjectLists(d)[s] = d.subjects[s].chapterIds
      BY DEF SubjectLists
    <3> QED
      BY <1>2, <1>6, <3>1, EachOnceIsLists
  <2>2. DOMAIN SubjectLists(d) = DOMAIN d.subjects /\ DOMAIN SubjectOf(d) = DOMAIN d.chapters
        /\ \A c \in DOMAIN d.chapters : SubjectOf(d)[c] = d.chapters[c].subjectId
    BY DEF SubjectLists, SubjectOf
  <2> QED
    BY <2>1, <2>2 DEF Level
<1>9. Level(ChapterLists(d), ChapterOf(d)) <=>
        /\ \A c \in DOMAIN d.chapters :
             Lists(d.chapters[c].topicIds,
                   {t \in DOMAIN d.topics : d.topics[t].chapterId = c})
        /\ \A t \in DOMAIN d.topics : d.topics[t].chapterId \in DOMAIN d.chapters
  <2>1. \A c \in DOMAIN d.chapters :
          EachOnce(ChapterLists(d)[c], ChildrenOf(ChapterOf(d), c))
            <=> Lists(d.chapters[c].topicIds,
                      {t \in DOMAIN d.topics : d.topics[t].chapterId = c})
    <3> TAKE c \in DOMAIN d.chapters
    <3>1. ChapterLists(d)[c] = d.chapters[c].topicIds
      BY DEF ChapterLists
    <3> QED
      BY <1>3, <1>7, <3>1, EachOnceIsLists
  <2>2. DOMAIN ChapterLists(d) = DOMAIN d.chapters /\ DOMAIN ChapterOf(d) = DOMAIN d.topics
        /\ \A t \in DOMAIN d.topics : ChapterOf(d)[t] = d.topics[t].chapterId
    BY DEF ChapterLists, ChapterOf
  <2> QED
    BY <2>1, <2>2 DEF Level
<1> QED
  BY <1>4, <1>5, <1>8, <1>9 DEF WellFormed, Linked, TagsResolve, TagsKnown

-----------------------------------------------------------------------------
(* Documents and their fields.                                            *)

FieldNames == {"subjects", "chapters", "topics", "tags", "subjectOrder", "tagOrder"}

\* A document has these fields,
LEMMA DocumentFields ==
  ASSUME NEW d, IsDocument(d) PROVE IsFn(d) /\ DOMAIN d = FieldNames
<1>1. d = [subjects |-> d.subjects, chapters |-> d.chapters, topics |-> d.topics,
           tags |-> d.tags, subjectOrder |-> d.subjectOrder, tagOrder |-> d.tagOrder]
  BY DEF IsDocument
<1> QED
  BY <1>1 DEF IsFn, FieldNames

\* and what has them, each of its type, is a document.
LEMMA FieldsDocument ==
  ASSUME NEW d, IsFn(d), DOMAIN d = FieldNames,
         IsMap(d.subjects, SubjectIds, SubjectRecord),
         IsMap(d.chapters, ChapterIds, ChapterRecord),
         IsMap(d.topics, TopicIds, TopicRecord), IsMap(d.tags, TagIds, Details),
         d.subjectOrder \in Seq(SubjectIds), d.tagOrder \in Seq(TagIds)
  PROVE  IsDocument(d)
<1>1. d = [subjects |-> d.subjects, chapters |-> d.chapters, topics |-> d.topics,
           tags |-> d.tags, subjectOrder |-> d.subjectOrder, tagOrder |-> d.tagOrder]
  BY DEF IsFn, FieldNames
<1> QED
  BY <1>1 DEF IsDocument

\* Maps.
LEMMA PutMap ==
  ASSUME NEW ids, NEW record, NEW map, IsMap(map, ids, record), NEW k \in ids, NEW v \in record
  PROVE  IsMap(Put(map, k, v), ids, record)
  BY DEF IsMap, Put

\* The map without some keys.
LEMMA DropMap ==
  ASSUME NEW ids, NEW record, NEW map, IsMap(map, ids, record), NEW gone
  PROVE  IsMap(Drop(map, gone), ids, record)
  BY DEF IsMap, Drop, Restrict

\* Another record for a key.
LEMMA ChangedMap ==
  ASSUME NEW ids, NEW record, NEW map, IsMap(map, ids, record), NEW k \in DOMAIN map, NEW v \in record
  PROVE  IsMap([map EXCEPT ![k] = v], ids, record)
  BY DEF IsMap

\* A list of ids of one kind.
LEMMA OnceIsSeq ==
  ASSUME NEW S, NEW A \in SUBSET S, NEW list, EachOnce(list, A)
  PROVE  list \in Seq(S)
  BY DEF EachOnce

\* Records.
LEMMA SubjectChanged ==
  ASSUME NEW r \in SubjectRecord
  PROVE  /\ \A l \in Seq(ChapterIds) :
              /\ [r EXCEPT !.chapterIds = l] \in SubjectRecord
              /\ [r EXCEPT !.chapterIds = l].chapterIds = l
         /\ \A x \in Details :
              /\ [r EXCEPT !.details = x] \in SubjectRecord
              /\ [r EXCEPT !.details = x].chapterIds = r.chapterIds
  BY DEF SubjectRecord

\* { ...chapter, field: value }.
LEMMA ChapterChanged ==
  ASSUME NEW r \in ChapterRecord
  PROVE  /\ \A l \in Seq(TopicIds) :
              /\ [r EXCEPT !.topicIds = l] \in ChapterRecord
              /\ [r EXCEPT !.topicIds = l].topicIds = l
              /\ [r EXCEPT !.topicIds = l].subjectId = r.subjectId
         /\ \A x \in Details :
              /\ [r EXCEPT !.details = x] \in ChapterRecord
              /\ [r EXCEPT !.details = x].topicIds = r.topicIds
              /\ [r EXCEPT !.details = x].subjectId = r.subjectId
         /\ \A s \in SubjectIds :
              /\ [r EXCEPT !.subjectId = s] \in ChapterRecord
              /\ [r EXCEPT !.subjectId = s].topicIds = r.topicIds
              /\ [r EXCEPT !.subjectId = s].subjectId = s
<1>1. ASSUME NEW l \in Seq(TopicIds)
      PROVE  /\ [r EXCEPT !.topicIds = l] \in ChapterRecord
             /\ [r EXCEPT !.topicIds = l].topicIds = l
             /\ [r EXCEPT !.topicIds = l].subjectId = r.subjectId
  BY DEF ChapterRecord
<1>2. ASSUME NEW x \in Details
      PROVE  /\ [r EXCEPT !.details = x] \in ChapterRecord
             /\ [r EXCEPT !.details = x].topicIds = r.topicIds
             /\ [r EXCEPT !.details = x].subjectId = r.subjectId
  BY DEF ChapterRecord
<1>3. ASSUME NEW s \in SubjectIds
      PROVE  /\ [r EXCEPT !.subjectId = s] \in ChapterRecord
             /\ [r EXCEPT !.subjectId = s].topicIds = r.topicIds
             /\ [r EXCEPT !.subjectId = s].subjectId = s
  BY DEF ChapterRecord
<1> QED
  BY <1>1, <1>2, <1>3

\* { ...topic, field: value }.
LEMMA TopicChanged ==
  ASSUME NEW r \in TopicRecord
  PROVE  /\ \A x \in Details :
              /\ [r EXCEPT !.details = x] \in TopicRecord
              /\ [r EXCEPT !.details = x].chapterId = r.chapterId
              /\ [r EXCEPT !.details = x].tagIds = r.tagIds
         /\ \A c \in ChapterIds :
              /\ [r EXCEPT !.chapterId = c] \in TopicRecord
              /\ [r EXCEPT !.chapterId = c].chapterId = c
              /\ [r EXCEPT !.chapterId = c].tagIds = r.tagIds
         /\ \A g \in SUBSET TagIds :
              /\ [r EXCEPT !.tagIds = g] \in TopicRecord
              /\ [r EXCEPT !.tagIds = g].chapterId = r.chapterId
              /\ [r EXCEPT !.tagIds = g].tagIds = g
<1>1. ASSUME NEW x \in Details
      PROVE  /\ [r EXCEPT !.details = x] \in TopicRecord
             /\ [r EXCEPT !.details = x].chapterId = r.chapterId
             /\ [r EXCEPT !.details = x].tagIds = r.tagIds
  BY DEF TopicRecord
<1>2. ASSUME NEW c \in ChapterIds
      PROVE  /\ [r EXCEPT !.chapterId = c] \in TopicRecord
             /\ [r EXCEPT !.chapterId = c].chapterId = c
             /\ [r EXCEPT !.chapterId = c].tagIds = r.tagIds
  BY DEF TopicRecord
<1>3. ASSUME NEW g \in SUBSET TagIds
      PROVE  /\ [r EXCEPT !.tagIds = g] \in TopicRecord
             /\ [r EXCEPT !.tagIds = g].chapterId = r.chapterId
             /\ [r EXCEPT !.tagIds = g].tagIds = g
  BY DEF TopicRecord
<1> QED
  BY <1>1, <1>2, <1>3

\* The parts of a well-formed document.
LEMMA Parts ==
  ASSUME NEW extra, NEW d, WellFormed(d, extra)
  PROVE  /\ IsFn(d) /\ DOMAIN d = FieldNames
         /\ IsMap(d.subjects, SubjectIds, SubjectRecord)
         /\ IsMap(d.chapters, ChapterIds, ChapterRecord)
         /\ IsMap(d.topics, TopicIds, TopicRecord) /\ IsMap(d.tags, TagIds, Details)
         /\ DOMAIN d.subjects \subseteq SubjectIds /\ DOMAIN d.chapters \subseteq ChapterIds
         /\ DOMAIN d.topics \subseteq TopicIds /\ DOMAIN d.tags \subseteq TagIds
         /\ \A s \in DOMAIN d.subjects : d.subjects[s] \in SubjectRecord
         /\ \A c \in DOMAIN d.chapters : d.chapters[c] \in ChapterRecord
         /\ \A t \in DOMAIN d.topics : d.topics[t] \in TopicRecord
         /\ EachOnce(d.subjectOrder, DOMAIN d.subjects)
         /\ Level(SubjectLists(d), SubjectOf(d)) /\ Level(ChapterLists(d), ChapterOf(d))
         /\ TagsKnown(d, extra)
<1>1. IsDocument(d)
  BY DEF WellFormed
<1>2. IsFn(d) /\ DOMAIN d = FieldNames
  BY <1>1, DocumentFields
<1> QED
  BY <1>1, <1>2 DEF WellFormed, IsDocument, IsMap

\* What has such parts is well formed.
LEMMA Assembled ==
  ASSUME NEW extra, NEW d, IsFn(d), DOMAIN d = FieldNames,
         IsMap(d.subjects, SubjectIds, SubjectRecord),
         IsMap(d.chapters, ChapterIds, ChapterRecord),
         IsMap(d.topics, TopicIds, TopicRecord), IsMap(d.tags, TagIds, Details),
         EachOnce(d.subjectOrder, DOMAIN d.subjects),
         Level(SubjectLists(d), SubjectOf(d)), Level(ChapterLists(d), ChapterOf(d)),
         TagsKnown(d, extra)
  PROVE  WellFormed(d, extra)
<1>1. d.subjectOrder \in Seq(SubjectIds)
  BY OnceIsSeq DEF IsMap
<1>2. d.tagOrder \in Seq(TagIds)
  BY OnceIsSeq DEF IsMap, TagsKnown
<1>3. IsDocument(d)
  BY <1>1, <1>2, FieldsDocument
<1> QED
  BY <1>3 DEF WellFormed

\* What depends on which field.
LEMMA SameFields ==
  ASSUME NEW extra, NEW d, NEW e
  PROVE  /\ e.subjects = d.subjects => SubjectLists(e) = SubjectLists(d)
         /\ e.chapters = d.chapters => SubjectOf(e) = SubjectOf(d) /\ ChapterLists(e) = ChapterLists(d)
         /\ e.topics = d.topics => ChapterOf(e) = ChapterOf(d)
         /\ e.topics = d.topics /\ e.tags = d.tags /\ e.tagOrder = d.tagOrder
              => (TagsKnown(e, extra) <=> TagsKnown(d, extra))
  BY DEF SubjectLists, SubjectOf, ChapterLists, ChapterOf, TagsKnown

\* More ids may be known.
LEMMA MoreKnown ==
  ASSUME NEW d, NEW less, NEW more, less \subseteq more, WellFormed(d, less)
  PROVE  WellFormed(d, more)
  BY DEF WellFormed, TagsKnown

-----------------------------------------------------------------------------
(* Edits of subjects.                                                      *)

\* addSubject.
LEMMA AddSubjectWF ==
  ASSUME NEW extra, NEW d, WellFormed(d, extra), NEW s \in SubjectIds, s \notin DOMAIN d.subjects
  PROVE  WellFormed(AddSubject(d, s), extra)
<1> DEFINE e == AddSubject(d, s)
           new == [chapterIds |-> <<>>, details |-> Blank]
<1>1. /\ IsFn(e) /\ DOMAIN e = FieldNames
      /\ e.subjects = Put(d.subjects, s, new) /\ e.subjectOrder = Append(d.subjectOrder, s)
      /\ e.chapters = d.chapters /\ e.topics = d.topics /\ e.tags = d.tags
      /\ e.tagOrder = d.tagOrder
  BY Parts DEF AddSubject, FieldNames, IsFn
<1>2. new \in SubjectRecord
  BY DetailsAssumption DEF SubjectRecord
<1>3. DOMAIN e.subjects = DOMAIN d.subjects \cup {s} /\ e.subjects[s] = new
      /\ \A q \in DOMAIN d.subjects : e.subjects[q] = d.subjects[q]
  BY <1>1 DEF Put
<1> HIDE DEF e
<1>4. IsMap(e.subjects, SubjectIds, SubjectRecord)
  BY <1>1, <1>2, PutMap, Parts
<1>5. EachOnce(e.subjectOrder, DOMAIN e.subjects)
  BY <1>1, <1>3, AppendOnce, Parts
<1>6. Level(SubjectLists(e), SubjectOf(d))
  <2>1. /\ DOMAIN SubjectLists(d) = DOMAIN d.subjects
        /\ DOMAIN SubjectLists(e) = DOMAIN SubjectLists(d) \cup {s}
        /\ \A q \in DOMAIN SubjectLists(d) : SubjectLists(e)[q] = SubjectLists(d)[q]
        /\ SubjectLists(e)[s] = <<>>
    BY <1>3 DEF SubjectLists
  <2> QED
    BY <2>1, ParentAdded, Parts
<1>7. WellFormed(e, extra)
  BY <1>1, <1>4, <1>5, <1>6, SameFields, Parts, Assembled
<1> QED
  BY <1>7 DEF e

\* renameSubject, archiveSubject, restoreSubject.
LEMMA EditSubjectWF ==
  ASSUME NEW extra, NEW d, WellFormed(d, extra), NEW s \in DOMAIN d.subjects, NEW x \in Details
  PROVE  WellFormed(EditSubject(d, s, x), extra)
<1> DEFINE e == EditSubject(d, s, x)
           new == [d.subjects[s] EXCEPT !.details = x]
<1>1. /\ IsFn(e) /\ DOMAIN e = FieldNames
      /\ e.subjects = [d.subjects EXCEPT ![s] = new] /\ e.subjectOrder = d.subjectOrder
      /\ e.chapters = d.chapters /\ e.topics = d.topics /\ e.tags = d.tags
      /\ e.tagOrder = d.tagOrder
  BY Parts DEF EditSubject, FieldNames, IsFn
<1>2. new \in SubjectRecord /\ new.chapterIds = d.subjects[s].chapterIds
  BY SubjectChanged, Parts
<1> HIDE DEF e, new
<1>3. DOMAIN e.subjects = DOMAIN d.subjects
      /\ \A q \in DOMAIN d.subjects : e.subjects[q].chapterIds = d.subjects[q].chapterIds
  BY <1>1, <1>2
<1>4. IsMap(e.subjects, SubjectIds, SubjectRecord)
  BY <1>1, <1>2, ChangedMap, Parts
<1>5. SubjectLists(e) = SubjectLists(d)
  BY <1>3 DEF SubjectLists
<1>6. WellFormed(e, extra)
  BY <1>1, <1>3, <1>4, <1>5, SameFields, Parts, Assembled
<1> QED
  BY <1>6 DEF e

\* reorderSubjects.
LEMMA ReorderSubjectsWF ==
  ASSUME NEW extra, NEW d, WellFormed(d, extra), NEW s \in DOMAIN d.subjects, NEW over \in DOMAIN d.subjects
  PROVE  WellFormed(ReorderSubjects(d, s, over), extra)
<1> DEFINE e == ReorderSubjects(d, s, over)
<1>1. /\ IsFn(e) /\ DOMAIN e = FieldNames
      /\ e.subjectOrder = ArrayMove(d.subjectOrder, Position(d.subjectOrder, s),
                                    Position(d.subjectOrder, over))
      /\ e.subjects = d.subjects /\ e.chapters = d.chapters /\ e.topics = d.topics
      /\ e.tags = d.tags /\ e.tagOrder = d.tagOrder
  BY Parts DEF ReorderSubjects, FieldNames, IsFn
<1> HIDE DEF e
<1>2. EachOnce(e.subjectOrder, DOMAIN e.subjects)
  BY <1>1, MovedOnce, Parts
<1>3. WellFormed(e, extra)
  BY <1>1, <1>2, SameFields, Parts, Assembled
<1> QED
  BY <1>3 DEF e

\* deleteSubject: its chapters and their topics go with it.
LEMMA DeleteSubjectWF ==
  ASSUME NEW extra, NEW d, WellFormed(d, extra), NEW s \in DOMAIN d.subjects
  PROVE  WellFormed(DeleteSubject(d, s), extra)
<1> DEFINE e == DeleteSubject(d, s)
           cids == Range(d.subjects[s].chapterIds)
           tids == TopicsOf(d, cids)
<1>1. /\ IsFn(e) /\ DOMAIN e = FieldNames
      /\ e.subjects = Drop(d.subjects, {s}) /\ e.subjectOrder = Without(d.subjectOrder, s)
      /\ e.chapters = Drop(d.chapters, cids) /\ e.topics = Drop(d.topics, tids)
      /\ e.tags = d.tags /\ e.tagOrder = d.tagOrder
  BY Parts DEF DeleteSubject, FieldNames, IsFn
<1>2. cids = {c \in DOMAIN d.chapters : d.chapters[c].subjectId = s}
  <2>1. cids = ChildrenOf(SubjectOf(d), s)
    BY Parts DEF Level, EachOnce, SubjectLists
  <2> QED
    BY <2>1 DEF ChildrenOf, SubjectOf
<1>3. tids = {t \in DOMAIN d.topics : d.topics[t].chapterId \in cids}
  <2>1. \A c \in DOMAIN d.chapters :
          Range(d.chapters[c].topicIds) = {t \in DOMAIN d.topics : d.topics[t].chapterId = c}
    <3> TAKE c \in DOMAIN d.chapters
    <3>1. Range(d.chapters[c].topicIds) = ChildrenOf(ChapterOf(d), c)
      BY Parts DEF Level, EachOnce, ChapterLists
    <3> QED
      BY <3>1 DEF ChildrenOf, ChapterOf
  <2> QED
    BY <1>2, <2>1 DEF TopicsOf
<1> HIDE DEF e, cids, tids
<1>4. /\ DOMAIN e.subjects = DOMAIN d.subjects \ {s}
      /\ \A q \in DOMAIN e.subjects : e.subjects[q] = d.subjects[q]
      /\ DOMAIN e.chapters = DOMAIN d.chapters \ cids
      /\ \A c \in DOMAIN e.chapters : e.chapters[c] = d.chapters[c]
      /\ DOMAIN e.topics = DOMAIN d.topics \ tids
      /\ \A t \in DOMAIN e.topics : e.topics[t] = d.topics[t]
  BY <1>1 DEF Drop, Restrict
<1>5. /\ IsMap(e.subjects, SubjectIds, SubjectRecord)
      /\ IsMap(e.chapters, ChapterIds, ChapterRecord)
      /\ IsMap(e.topics, TopicIds, TopicRecord)
  BY <1>1, DropMap, Parts
<1>6. EachOnce(e.subjectOrder, DOMAIN e.subjects)
  BY <1>1, <1>4, WithoutOnce, Parts
<1>7. Level(SubjectLists(e), SubjectOf(e))
  <2>1. FamiliesGone(SubjectLists(d), SubjectOf(d), {s}, SubjectLists(e), SubjectOf(e))
    BY <1>2, <1>4 DEF SubjectLists, SubjectOf, FamiliesGone
  <2> QED
    BY <2>1, FamiliesDropped, Parts
<1>8. Level(ChapterLists(e), ChapterOf(e))
  <2>1. FamiliesGone(ChapterLists(d), ChapterOf(d), cids, ChapterLists(e), ChapterOf(e))
    BY <1>3, <1>4 DEF ChapterLists, ChapterOf, FamiliesGone
  <2> QED
    BY <2>1, FamiliesDropped, Parts
<1>9. TagsKnown(e, extra)
  BY <1>1, <1>4, Parts DEF TagsKnown
<1>10. WellFormed(e, extra)
  BY <1>1, <1>5, <1>6, <1>7, <1>8, <1>9, Parts, Assembled
<1> QED
  BY <1>10 DEF e

\* The lists of a well-formed document, and where a child is listed.
LEMMA Listed ==
  ASSUME NEW extra, NEW d, WellFormed(d, extra)
  PROVE  /\ \A s \in DOMAIN d.subjects : EachOnce(d.subjects[s].chapterIds, ChildrenOf(SubjectOf(d), s))
         /\ \A c \in DOMAIN d.chapters : EachOnce(d.chapters[c].topicIds, ChildrenOf(ChapterOf(d), c))
         /\ \A c \in DOMAIN d.chapters : d.chapters[c].subjectId \in DOMAIN d.subjects
                                         /\ c \in ChildrenOf(SubjectOf(d), d.chapters[c].subjectId)
         /\ \A t \in DOMAIN d.topics : d.topics[t].chapterId \in DOMAIN d.chapters
                                       /\ t \in ChildrenOf(ChapterOf(d), d.topics[t].chapterId)
         /\ \A s : ChildrenOf(SubjectOf(d), s) \subseteq DOMAIN d.chapters
         /\ \A c : ChildrenOf(ChapterOf(d), c) \subseteq DOMAIN d.topics
<1>1. Level(SubjectLists(d), SubjectOf(d)) /\ Level(ChapterLists(d), ChapterOf(d))
  BY Parts
<1>2. \A s \in DOMAIN d.subjects : EachOnce(d.subjects[s].chapterIds, ChildrenOf(SubjectOf(d), s))
  BY <1>1 DEF Level, SubjectLists
<1>3. \A c \in DOMAIN d.chapters : EachOnce(d.chapters[c].topicIds, ChildrenOf(ChapterOf(d), c))
  BY <1>1 DEF Level, ChapterLists
<1>4. \A c \in DOMAIN d.chapters : d.chapters[c].subjectId \in DOMAIN d.subjects
                                   /\ c \in ChildrenOf(SubjectOf(d), d.chapters[c].subjectId)
  BY <1>1 DEF Level, SubjectOf, SubjectLists, ChildrenOf
<1>5. \A t \in DOMAIN d.topics : d.topics[t].chapterId \in DOMAIN d.chapters
                                 /\ t \in ChildrenOf(ChapterOf(d), d.topics[t].chapterId)
  BY <1>1 DEF Level, ChapterOf, ChapterLists, ChildrenOf
<1> QED
  BY <1>2, <1>3, <1>4, <1>5 DEF ChildrenOf, SubjectOf, ChapterOf

\* A subject is given another list.
LEMMA SubjectListed ==
  ASSUME NEW extra, NEW d, WellFormed(d, extra), NEW s \in DOMAIN d.subjects, NEW l \in Seq(ChapterIds)
  PROVE  LET subjects == [d.subjects EXCEPT ![s].chapterIds = l]
         IN  /\ IsMap(subjects, SubjectIds, SubjectRecord) /\ DOMAIN subjects = DOMAIN d.subjects
             /\ subjects[s].chapterIds = l
             /\ \A q \in DOMAIN d.subjects \ {s} : subjects[q] = d.subjects[q]
<1> DEFINE new == [d.subjects[s] EXCEPT !.chapterIds = l]
<1>1. new \in SubjectRecord /\ new.chapterIds = l
  BY SubjectChanged, Parts
<1>2. [d.subjects EXCEPT ![s].chapterIds = l] = [d.subjects EXCEPT ![s] = new]
  OBVIOUS
<1> HIDE DEF new
<1>3. IsMap([d.subjects EXCEPT ![s] = new], SubjectIds, SubjectRecord)
  BY <1>1, ChangedMap, Parts
<1> QED
  BY <1>1, <1>2, <1>3

\* A chapter is given another list.
LEMMA ChapterListed ==
  ASSUME NEW extra, NEW d, WellFormed(d, extra), NEW c \in DOMAIN d.chapters, NEW l \in Seq(TopicIds)
  PROVE  LET chapters == [d.chapters EXCEPT ![c].topicIds = l]
         IN  /\ IsMap(chapters, ChapterIds, ChapterRecord) /\ DOMAIN chapters = DOMAIN d.chapters
             /\ chapters[c].topicIds = l /\ chapters[c].subjectId = d.chapters[c].subjectId
             /\ \A q \in DOMAIN d.chapters \ {c} : chapters[q] = d.chapters[q]
<1> DEFINE new == [d.chapters[c] EXCEPT !.topicIds = l]
<1>1. new \in ChapterRecord /\ new.topicIds = l /\ new.subjectId = d.chapters[c].subjectId
  BY ChapterChanged, Parts
<1>2. [d.chapters EXCEPT ![c].topicIds = l] = [d.chapters EXCEPT ![c] = new]
  OBVIOUS
<1> HIDE DEF new
<1>3. IsMap([d.chapters EXCEPT ![c] = new], ChapterIds, ChapterRecord)
  BY <1>1, ChangedMap, Parts
<1> QED
  BY <1>1, <1>2, <1>3

\* What append and filter make of a list is a list of ids.
LEMMA ListsOfIds ==
  ASSUME NEW S, NEW A \in SUBSET S, NEW list, EachOnce(list, A), NEW x \in S
  PROVE  /\ Append(list, x) \in Seq(S)
         /\ Without(list, x) \in Seq(S)
<1>1. list \in Seq(S)
  BY DEF EachOnce
<1>2. Without(list, x) \in Seq(A \ {x})
  BY WithoutOnce DEF EachOnce
<1> QED
  BY <1>1, <1>2

-----------------------------------------------------------------------------
(* Edits of chapters.                                                      *)

\* addChapter.
LEMMA AddChapterWF ==
  ASSUME NEW extra, NEW d, WellFormed(d, extra), NEW s \in DOMAIN d.subjects,
         NEW c \in ChapterIds, c \notin DOMAIN d.chapters
  PROVE  WellFormed(AddChapter(d, s, c), extra)
<1> DEFINE e == AddChapter(d, s, c)
           new == [subjectId |-> s, topicIds |-> <<>>, details |-> Blank]
           list == Append(d.subjects[s].chapterIds, c)
<1>1. /\ IsFn(e) /\ DOMAIN e = FieldNames
      /\ e.chapters = Put(d.chapters, c, new)
      /\ e.subjects = [d.subjects EXCEPT ![s].chapterIds = list]
      /\ e.topics = d.topics /\ e.subjectOrder = d.subjectOrder
      /\ e.tags = d.tags /\ e.tagOrder = d.tagOrder
  BY Parts DEF AddChapter, FieldNames, IsFn
<1>2. new \in ChapterRecord /\ new.subjectId = s /\ new.topicIds = <<>>
  <2>1. s \in SubjectIds
    BY Parts
  <2> QED
    BY <2>1, DetailsAssumption DEF ChapterRecord
<1>3. list \in Seq(ChapterIds)
  <2>1. ChildrenOf(SubjectOf(d), s) \subseteq ChapterIds
    BY Listed, Parts
  <2> QED
    BY <2>1, Listed, ListsOfIds
<1> HIDE DEF e, new, list
<1>4. /\ IsMap(e.subjects, SubjectIds, SubjectRecord) /\ DOMAIN e.subjects = DOMAIN d.subjects
      /\ e.subjects[s].chapterIds = list
      /\ \A q \in DOMAIN d.subjects \ {s} : e.subjects[q] = d.subjects[q]
  BY <1>1, <1>3, SubjectListed
<1>5. /\ IsMap(e.chapters, ChapterIds, ChapterRecord)
      /\ DOMAIN e.chapters = DOMAIN d.chapters \cup {c} /\ e.chapters[c] = new
      /\ \A q \in DOMAIN d.chapters : e.chapters[q] = d.chapters[q]
  <2>1. IsMap(e.chapters, ChapterIds, ChapterRecord)
    BY <1>1, <1>2, PutMap, Parts
  <2> QED
    BY <1>1, <2>1 DEF Put
<1>6. Level(SubjectLists(e), SubjectOf(e))
  <2>1. ChildCame(SubjectLists(d), SubjectOf(d), s, c, SubjectLists(e), SubjectOf(e))
    BY <1>2, <1>4, <1>5 DEF ChildCame, SubjectLists, SubjectOf, list
  <2> QED
    BY <2>1, ChildAdded, Parts
<1>7. Level(ChapterLists(e), ChapterOf(d))
  <2>1. /\ DOMAIN ChapterLists(e) = DOMAIN ChapterLists(d) \cup {c} /\ c \notin DOMAIN ChapterLists(d)
        /\ \A q \in DOMAIN ChapterLists(d) : ChapterLists(e)[q] = ChapterLists(d)[q]
        /\ ChapterLists(e)[c] = <<>>
    BY <1>2, <1>5 DEF ChapterLists
  <2> QED
    BY <2>1, ParentAdded, Parts
<1>8. WellFormed(e, extra)
  BY <1>1, <1>4, <1>5, <1>6, <1>7, SameFields, Parts, Assembled
<1> QED
  BY <1>8 DEF e

\* renameChapter, archiveChapter, restoreChapter.
LEMMA EditChapterWF ==
  ASSUME NEW extra, NEW d, WellFormed(d, extra), NEW c \in DOMAIN d.chapters, NEW x \in Details
  PROVE  WellFormed(EditChapter(d, c, x), extra)
<1> DEFINE e == EditChapter(d, c, x)
           new == [d.chapters[c] EXCEPT !.details = x]
<1>1. /\ IsFn(e) /\ DOMAIN e = FieldNames
      /\ e.chapters = [d.chapters EXCEPT ![c] = new] /\ e.subjectOrder = d.subjectOrder
      /\ e.subjects = d.subjects /\ e.topics = d.topics /\ e.tags = d.tags
      /\ e.tagOrder = d.tagOrder
  BY Parts DEF EditChapter, FieldNames, IsFn
<1>2. new \in ChapterRecord /\ new.topicIds = d.chapters[c].topicIds
      /\ new.subjectId = d.chapters[c].subjectId
  BY ChapterChanged, Parts
<1> HIDE DEF e, new
<1>3. DOMAIN e.chapters = DOMAIN d.chapters
      /\ \A q \in DOMAIN d.chapters : e.chapters[q].topicIds = d.chapters[q].topicIds
                                      /\ e.chapters[q].subjectId = d.chapters[q].subjectId
  BY <1>1, <1>2
<1>4. IsMap(e.chapters, ChapterIds, ChapterRecord)
  BY <1>1, <1>2, ChangedMap, Parts
<1>5. ChapterLists(e) = ChapterLists(d) /\ SubjectOf(e) = SubjectOf(d)
  BY <1>3 DEF ChapterLists, SubjectOf
<1>6. WellFormed(e, extra)
  BY <1>1, <1>3, <1>4, <1>5, SameFields, Parts, Assembled
<1> QED
  BY <1>6 DEF e

\* deleteChapter: its topics go with it.
LEMMA DeleteChapterWF ==
  ASSUME NEW extra, NEW d, WellFormed(d, extra), NEW c \in DOMAIN d.chapters
  PROVE  WellFormed(DeleteChapter(d, c), extra)
<1> DEFINE e == DeleteChapter(d, c)
           s == d.chapters[c].subjectId
           tids == Range(d.chapters[c].topicIds)
           list == Without(d.subjects[s].chapterIds, c)
<1>0. s \in DOMAIN d.subjects
  BY Listed
<1>1. /\ IsFn(e) /\ DOMAIN e = FieldNames
      /\ e.chapters = Drop(d.chapters, {c}) /\ e.topics = Drop(d.topics, tids)
      /\ e.subjects = [d.subjects EXCEPT ![s].chapterIds = list]
      /\ e.subjectOrder = d.subjectOrder /\ e.tags = d.tags /\ e.tagOrder = d.tagOrder
  BY <1>0, Parts DEF DeleteChapter, ListChapters, FieldNames, IsFn
<1>2. tids = {t \in DOMAIN d.topics : d.topics[t].chapterId = c}
  <2>1. tids = ChildrenOf(ChapterOf(d), c)
    BY Listed DEF EachOnce
  <2> QED
    BY <2>1 DEF ChildrenOf, ChapterOf
<1>3. list \in Seq(ChapterIds)
  <2>1. ChildrenOf(SubjectOf(d), s) \subseteq ChapterIds /\ c \in ChapterIds
    BY Listed, Parts
  <2> QED
    BY <1>0, <2>1, Listed, ListsOfIds
<1> HIDE DEF e, s, tids, list
<1>4. /\ IsMap(e.subjects, SubjectIds, SubjectRecord) /\ DOMAIN e.subjects = DOMAIN d.subjects
      /\ e.subjects[s].chapterIds = list
      /\ \A q \in DOMAIN d.subjects \ {s} : e.subjects[q] = d.subjects[q]
  BY <1>0, <1>1, <1>3, SubjectListed
<1>5. /\ IsMap(e.chapters, ChapterIds, ChapterRecord) /\ IsMap(e.topics, TopicIds, TopicRecord)
  BY <1>1, DropMap, Parts
<1>6. /\ DOMAIN e.chapters = DOMAIN d.chapters \ {c}
      /\ \A q \in DOMAIN e.chapters : e.chapters[q] = d.chapters[q]
      /\ DOMAIN e.topics = DOMAIN d.topics \ tids
      /\ \A t \in DOMAIN e.topics : e.topics[t] = d.topics[t]
  BY <1>1 DEF Drop, Restrict
<1>7. Level(SubjectLists(e), SubjectOf(e))
  <2>1. ChildWent(SubjectLists(d), SubjectOf(d), c, SubjectLists(e), SubjectOf(e))
    BY <1>0, <1>4, <1>6 DEF ChildWent, SubjectLists, SubjectOf, list, s
  <2> QED
    BY <2>1, ChildDropped, Parts
<1>8. Level(ChapterLists(e), ChapterOf(e))
  <2>1. FamiliesGone(ChapterLists(d), ChapterOf(d), {c}, ChapterLists(e), ChapterOf(e))
    BY <1>2, <1>6 DEF ChapterLists, ChapterOf, FamiliesGone
  <2> QED
    BY <2>1, FamiliesDropped, Parts
<1>9. TagsKnown(e, extra)
  BY <1>1, <1>6, Parts DEF TagsKnown
<1>10. WellFormed(e, extra)
  BY <1>1, <1>4, <1>5, <1>7, <1>8, <1>9, Parts, Assembled
<1> QED
  BY <1>10 DEF e

\* reorderChapters, among siblings.
LEMMA ReorderChaptersWF ==
  ASSUME NEW extra, NEW d, WellFormed(d, extra), NEW c \in DOMAIN d.chapters, NEW over \in DOMAIN d.chapters,
         d.chapters[over].subjectId = d.chapters[c].subjectId
  PROVE  WellFormed(ReorderChapters(d, c, over), extra)
<1> DEFINE e == ReorderChapters(d, c, over)
           s == d.chapters[c].subjectId
           old == d.subjects[s].chapterIds
           list == ArrayMove(old, Position(old, c), Position(old, over))
<1>0. s \in DOMAIN d.subjects
  BY Listed
<1>1. /\ IsFn(e) /\ DOMAIN e = FieldNames
      /\ e.subjects = [d.subjects EXCEPT ![s].chapterIds = list]
      /\ e.chapters = d.chapters /\ e.topics = d.topics
      /\ e.subjectOrder = d.subjectOrder /\ e.tags = d.tags /\ e.tagOrder = d.tagOrder
  BY Parts DEF ReorderChapters, FieldNames, IsFn
<1>2. list \in Seq(ChapterIds)
  <2>1. EachOnce(old, ChildrenOf(SubjectOf(d), s))
        /\ c \in ChildrenOf(SubjectOf(d), s) /\ over \in ChildrenOf(SubjectOf(d), s)
        /\ ChildrenOf(SubjectOf(d), s) \subseteq ChapterIds
    BY <1>0, Listed, Parts
  <2>2. EachOnce(list, ChildrenOf(SubjectOf(d), s))
    BY <2>1, MovedOnce
  <2> QED
    BY <2>1, <2>2, OnceIsSeq
<1> HIDE DEF e, s, old, list
<1>3. /\ IsMap(e.subjects, SubjectIds, SubjectRecord) /\ DOMAIN e.subjects = DOMAIN d.subjects
      /\ e.subjects[s].chapterIds = list
      /\ \A q \in DOMAIN d.subjects \ {s} : e.subjects[q] = d.subjects[q]
  BY <1>0, <1>1, <1>2, SubjectListed
<1>4. Level(SubjectLists(e), SubjectOf(d))
  <2>1. ListSorted(SubjectLists(d), SubjectOf(d), c, over, SubjectLists(e))
    BY <1>0, <1>3 DEF ListSorted, SubjectLists, SubjectOf, list, old, s
  <2> QED
    BY <2>1, ListReordered, Parts
<1>5. WellFormed(e, extra)
  BY <1>1, <1>3, <1>4, SameFields, Parts, Assembled
<1> QED
  BY <1>5 DEF e

\* moveChapter, to another subject.
LEMMA MoveChapterWF ==
  ASSUME NEW extra, NEW d, WellFormed(d, extra), NEW c \in DOMAIN d.chapters, NEW to \in DOMAIN d.subjects,
         d.chapters[c].subjectId # to
  PROVE  WellFormed(MoveChapter(d, c, to), extra)
<1> DEFINE e == MoveChapter(d, c, to)
           from == d.chapters[c].subjectId
           less == Without(d.subjects[from].chapterIds, c)
           more == Append(d.subjects[to].chapterIds, c)
           detached == [d.subjects EXCEPT ![from].chapterIds = less]
           moved == [d.chapters[c] EXCEPT !.subjectId = to]
<1>0. from \in DOMAIN d.subjects
  BY Listed
<1>1. /\ IsFn(e) /\ DOMAIN e = FieldNames
      /\ e.subjects = [detached EXCEPT ![to].chapterIds = more]
      /\ e.chapters = [d.chapters EXCEPT ![c] = moved]
      /\ e.topics = d.topics
      /\ e.subjectOrder = d.subjectOrder /\ e.tags = d.tags /\ e.tagOrder = d.tagOrder
  BY <1>0, Parts DEF MoveChapter, ListChapters, FieldNames, IsFn
<1>2. less \in Seq(ChapterIds) /\ more \in Seq(ChapterIds)
  <2>1. \A s \in DOMAIN d.subjects :
          EachOnce(d.subjects[s].chapterIds, ChildrenOf(SubjectOf(d), s))
          /\ ChildrenOf(SubjectOf(d), s) \subseteq ChapterIds
    BY Listed, Parts
  <2>2. c \in ChapterIds
    BY Parts
  <2> QED
    BY <1>0, <2>1, <2>2, ListsOfIds
<1>3. moved \in ChapterRecord /\ moved.subjectId = to /\ moved.topicIds = d.chapters[c].topicIds
  <2>1. to \in SubjectIds
    BY Parts
  <2> QED
    BY <2>1, ChapterChanged, Parts
<1> HIDE DEF e, less, more, moved, detached, from
<1>4. /\ IsMap(detached, SubjectIds, SubjectRecord) /\ DOMAIN detached = DOMAIN d.subjects
      /\ detached[from].chapterIds = less
      /\ \A q \in DOMAIN d.subjects \ {from} : detached[q] = d.subjects[q]
  BY <1>0, <1>2, SubjectListed DEF detached
<1>5. /\ IsMap(e.subjects, SubjectIds, SubjectRecord) /\ DOMAIN e.subjects = DOMAIN d.subjects
      /\ e.subjects[from].chapterIds = less /\ e.subjects[to].chapterIds = more
      /\ \A q \in DOMAIN d.subjects \ {from, to} : e.subjects[q] = d.subjects[q]
  <2> DEFINE new == [d.subjects[to] EXCEPT !.chapterIds = more]
  <2>1. detached[to] = d.subjects[to] /\ from # to
    BY <1>4 DEF from
  <2>2. e.subjects = [detached EXCEPT ![to] = new]
    BY <1>1, <2>1
  <2>3. new \in SubjectRecord /\ new.chapterIds = more
    BY <1>2, SubjectChanged, Parts
  <2> HIDE DEF new
  <2>4. IsMap([detached EXCEPT ![to] = new], SubjectIds, SubjectRecord)
    BY <1>4, <2>3, ChangedMap
  <2> QED
    BY <1>0, <1>4, <2>1, <2>2, <2>3, <2>4
<1>6. /\ IsMap(e.chapters, ChapterIds, ChapterRecord) /\ DOMAIN e.chapters = DOMAIN d.chapters
      /\ e.chapters[c] = moved
      /\ \A q \in DOMAIN d.chapters \ {c} : e.chapters[q] = d.chapters[q]
  <2>1. IsMap(e.chapters, ChapterIds, ChapterRecord)
    BY <1>1, <1>3, ChangedMap, Parts
  <2> QED
    BY <1>1, <2>1
<1>7. Level(SubjectLists(e), SubjectOf(e))
  <2>1. ChildWentTo(SubjectLists(d), SubjectOf(d), c, to, SubjectLists(e), SubjectOf(e))
    BY <1>0, <1>3, <1>5, <1>6 DEF ChildWentTo, SubjectLists, SubjectOf, less, more, from
  <2> QED
    BY <2>1, ChildMoved, Parts
<1>8. ChapterLists(e) = ChapterLists(d)
  <2>1. \A q \in DOMAIN d.chapters : e.chapters[q].topicIds = d.chapters[q].topicIds
    BY <1>3, <1>6
  <2> QED
    BY <1>6, <2>1 DEF ChapterLists
<1>9. Level(ChapterLists(e), ChapterOf(e)) /\ TagsKnown(e, extra)
  BY <1>1, <1>8, SameFields, Parts
<1>10. EachOnce(e.subjectOrder, DOMAIN e.subjects) /\ IsMap(e.topics, TopicIds, TopicRecord)
       /\ IsMap(e.tags, TagIds, Details)
  BY <1>1, <1>5, Parts
<1>11. WellFormed(e, extra)
  BY <1>1, <1>5, <1>6, <1>7, <1>9, <1>10, Assembled
<1> QED
  BY <1>11 DEF e

\* duplicateChapter, with an id for every topic the chapter lists.
LEMMA DuplicateChapterWF ==
  ASSUME NEW extra, NEW d, WellFormed(d, extra), NEW c \in DOMAIN d.chapters,
         NEW new \in ChapterIds, new \notin DOMAIN d.chapters,
         NEW fresh, fresh \subseteq TopicIds, fresh \cap DOMAIN d.topics = {},
         NEW copyOf \in Injection(Range(d.chapters[c].topicIds) \cap DOMAIN d.topics, fresh)
  PROVE  WellFormed(DuplicateChapter(d, c, new, copyOf), extra)
<1> DEFINE e == DuplicateChapter(d, c, new, copyOf)
           s == d.chapters[c].subjectId
           old == d.chapters[c].topicIds
           A == Range(old)
           copies == Range(copyOf)
           listed == [i \in DOMAIN old |-> copyOf[old[i]]]
           more == Append(d.subjects[s].chapterIds, new)
           copy == [d.chapters[c] EXCEPT !.topicIds = listed]
           source(u) == CHOOSE t \in DOMAIN copyOf : copyOf[t] = u
           topic(u) == [d.topics[source(u)] EXCEPT !.chapterId = new, !.revisions = 0]
<1>0. s \in DOMAIN d.subjects /\ EachOnce(old, A) /\ A \subseteq DOMAIN d.topics
  BY Listed DEF EachOnce
<1>1. /\ IsFn(e) /\ DOMAIN e = FieldNames
      /\ e.topics = [t \in DOMAIN d.topics \cup copies |->
                       IF t \in copies THEN topic(t) ELSE d.topics[t]]
      /\ e.chapters = Put(d.chapters, new, copy)
      /\ e.subjects = [d.subjects EXCEPT ![s].chapterIds = more]
      /\ e.subjectOrder = d.subjectOrder /\ e.tags = d.tags /\ e.tagOrder = d.tagOrder
  BY <1>0, Parts DEF DuplicateChapter, ListChapters, FieldNames, IsFn
<1>2. copyOf \in [A -> fresh] /\ IsInjective(copyOf)
  BY <1>0 DEF Injection
<1>3. copies \subseteq fresh /\ copies \subseteq TopicIds /\ copies \cap DOMAIN d.topics = {}
  BY <1>2 DEF Range
<1>4. \A u \in copies : source(u) \in DOMAIN d.topics
  BY <1>0, <1>2 DEF Range
<1>5. EachOnce(listed, copies)
  <2> DEFINE n == Len(old)
  <2>1. old \in Seq(A) /\ n \in Nat /\ DOMAIN old = 1..n /\ \A i \in 1..n : old[i] \in A
    BY <1>0 DEF EachOnce
  <2>2. \A t \in A : copyOf[t] \in copies
    BY <1>2 DEF Range
  <2> HIDE DEF n, copies
  <2>3. listed \in [1..n -> copies] /\ DOMAIN listed = 1..n
    BY <2>1, <2>2
  <2>4. listed \in Seq(copies)
    BY <2>1, <2>3
  <2>5. \A u \in copies : \E i \in 1..n : listed[i] = u
    <3> TAKE u \in copies
    <3>1. PICK t \in A : copyOf[t] = u
      BY <1>2 DEF copies, Range
    <3>2. PICK i \in 1..n : old[i] = t
      BY <1>0, <2>1 DEF Range
    <3> QED
      BY <2>1, <3>1, <3>2
  <2>6. \A i, j \in 1..n : listed[i] = listed[j] => i = j
    BY <1>0, <1>2, <2>1 DEF EachOnce, IsInjective
  <2> HIDE DEF listed
  <2>7. Range(listed) = copies
    BY <2>3, <2>5 DEF Range
  <2>8. IsInjective(listed)
    BY <2>3, <2>6 DEF IsInjective
  <2> QED
    BY <2>4, <2>7, <2>8 DEF EachOnce
<1>6. copy \in ChapterRecord /\ copy.topicIds = listed /\ copy.subjectId = s
  <2>1. listed \in Seq(TopicIds)
    BY <1>3, <1>5, OnceIsSeq
  <2> QED
    BY <2>1, ChapterChanged, Parts
<1>7. more \in Seq(ChapterIds)
  <2>1. ChildrenOf(SubjectOf(d), s) \subseteq ChapterIds
    BY Listed, Parts
  <2> QED
    BY <1>0, <2>1, Listed, ListsOfIds
<1>8. \A u \in copies : /\ topic(u) \in TopicRecord /\ topic(u).chapterId = new
                        /\ topic(u).tagIds = d.topics[source(u)].tagIds
  <2>1. ASSUME NEW r \in TopicRecord
        PROVE  /\ [r EXCEPT !.chapterId = new, !.revisions = 0] \in TopicRecord
               /\ [r EXCEPT !.chapterId = new, !.revisions = 0].chapterId = new
               /\ [r EXCEPT !.chapterId = new, !.revisions = 0].tagIds = r.tagIds
    BY DEF TopicRecord
  <2> QED
    BY <1>4, <2>1, Parts
<1> HIDE DEF e, s, copies, listed, more, copy, source, topic
<1>9. /\ IsMap(e.subjects, SubjectIds, SubjectRecord) /\ DOMAIN e.subjects = DOMAIN d.subjects
      /\ e.subjects[s].chapterIds = more
      /\ \A q \in DOMAIN d.subjects \ {s} : e.subjects[q] = d.subjects[q]
  BY <1>0, <1>1, <1>7, SubjectListed
<1>10. /\ IsMap(e.chapters, ChapterIds, ChapterRecord)
       /\ DOMAIN e.chapters = DOMAIN d.chapters \cup {new} /\ e.chapters[new] = copy
       /\ \A q \in DOMAIN d.chapters : e.chapters[q] = d.chapters[q]
  <2>1. IsMap(e.chapters, ChapterIds, ChapterRecord)
    BY <1>1, <1>6, PutMap, Parts
  <2> QED
    BY <1>1, <2>1 DEF Put
<1>11. /\ DOMAIN e.topics = DOMAIN d.topics \cup copies
       /\ \A u \in copies : e.topics[u] = topic(u)
       /\ \A t \in DOMAIN d.topics : e.topics[t] = d.topics[t]
  BY <1>1, <1>3
<1>12. IsMap(e.topics, TopicIds, TopicRecord)
  <2>1. \A t \in DOMAIN e.topics : e.topics[t] \in TopicRecord
    BY <1>8, <1>11, Parts
  <2>2. DOMAIN e.topics \subseteq TopicIds
    BY <1>3, <1>11, Parts
  <2>3. e.topics = [t \in DOMAIN e.topics |-> e.topics[t]]
    BY <1>1
  <2> QED
    BY <2>1, <2>2, <2>3 DEF IsMap
<1>13. Level(SubjectLists(e), SubjectOf(e))
  <2>1. ChildCame(SubjectLists(d), SubjectOf(d), s, new, SubjectLists(e), SubjectOf(e))
    BY <1>0, <1>6, <1>9, <1>10 DEF ChildCame, SubjectLists, SubjectOf, more
  <2> QED
    BY <2>1, ChildAdded, Parts
<1>14. Level(ChapterLists(e), ChapterOf(e))
  <2>1. FamilyCame(ChapterLists(d), ChapterOf(d), new, copies, ChapterLists(e), ChapterOf(e))
    BY <1>3, <1>5, <1>6, <1>8, <1>10, <1>11 DEF FamilyCame, ChapterLists, ChapterOf
  <2> QED
    BY <2>1, FamilyAdded, Parts
<1>15. TagsKnown(e, extra)
  BY <1>1, <1>4, <1>8, <1>11, Parts DEF TagsKnown
<1>16. WellFormed(e, extra)
  BY <1>1, <1>9, <1>10, <1>12, <1>13, <1>14, <1>15, Parts, Assembled
<1> QED
  BY <1>16 DEF e

-----------------------------------------------------------------------------
(* Edits of topics.                                                        *)

\* addTopic.
LEMMA AddTopicWF ==
  ASSUME NEW extra, NEW d, WellFormed(d, extra), NEW c \in DOMAIN d.chapters,
         NEW t \in TopicIds, t \notin DOMAIN d.topics
  PROVE  WellFormed(AddTopic(d, c, t), extra)
<1> DEFINE e == AddTopic(d, c, t)
           new == [chapterId |-> c, tagIds |-> {}, details |-> Blank, notes |-> 0,
                   revisions |-> 0, plannedAt |-> Absent]
           list == Append(d.chapters[c].topicIds, t)
<1>1. /\ IsFn(e) /\ DOMAIN e = FieldNames
      /\ e.topics = Put(d.topics, t, new)
      /\ e.chapters = [d.chapters EXCEPT ![c].topicIds = list]
      /\ e.subjects = d.subjects /\ e.subjectOrder = d.subjectOrder
      /\ e.tags = d.tags /\ e.tagOrder = d.tagOrder
  BY Parts DEF AddTopic, FieldNames, IsFn
<1>2. new \in TopicRecord /\ new.chapterId = c /\ new.tagIds = {}
  <2>1. c \in ChapterIds
    BY Parts
  <2> QED
    BY <2>1, DetailsAssumption DEF TopicRecord, Plans
<1>3. list \in Seq(TopicIds)
  <2>1. ChildrenOf(ChapterOf(d), c) \subseteq TopicIds
    BY Listed, Parts
  <2> QED
    BY <2>1, Listed, ListsOfIds
<1> HIDE DEF e, new, list
<1>4. /\ IsMap(e.chapters, ChapterIds, ChapterRecord) /\ DOMAIN e.chapters = DOMAIN d.chapters
      /\ e.chapters[c].topicIds = list /\ e.chapters[c].subjectId = d.chapters[c].subjectId
      /\ \A q \in DOMAIN d.chapters \ {c} : e.chapters[q] = d.chapters[q]
  BY <1>1, <1>3, ChapterListed
<1>5. /\ IsMap(e.topics, TopicIds, TopicRecord)
      /\ DOMAIN e.topics = DOMAIN d.topics \cup {t} /\ e.topics[t] = new
      /\ \A u \in DOMAIN d.topics : e.topics[u] = d.topics[u]
  <2>1. IsMap(e.topics, TopicIds, TopicRecord)
    BY <1>1, <1>2, PutMap, Parts
  <2> QED
    BY <1>1, <2>1 DEF Put
<1>6. Level(ChapterLists(e), ChapterOf(e))
  <2>1. ChildCame(ChapterLists(d), ChapterOf(d), c, t, ChapterLists(e), ChapterOf(e))
    BY <1>2, <1>4, <1>5 DEF ChildCame, ChapterLists, ChapterOf, list
  <2> QED
    BY <2>1, ChildAdded, Parts
<1>7. SubjectOf(e) = SubjectOf(d)
  BY <1>4 DEF SubjectOf
<1>8. Level(SubjectLists(e), SubjectOf(e))
  BY <1>1, <1>7, SameFields, Parts
<1>9. TagsKnown(e, extra)
  BY <1>1, <1>2, <1>5, Parts DEF TagsKnown
<1>10. WellFormed(e, extra)
  BY <1>1, <1>4, <1>5, <1>6, <1>8, <1>9, Parts, Assembled
<1> QED
  BY <1>10 DEF e

\* Edits that leave every topic where it is: `new` gives each its record.
LEMMA TopicsRewritten ==
  ASSUME NEW extra, NEW d, WellFormed(d, extra), NEW e, IsFn(e), DOMAIN e = FieldNames,
         e.subjects = d.subjects, e.chapters = d.chapters, e.subjectOrder = d.subjectOrder,
         DOMAIN e.topics = DOMAIN d.topics, IsFn(e.topics),
         \A t \in DOMAIN d.topics :
           e.topics[t] \in TopicRecord /\ e.topics[t].chapterId = d.topics[t].chapterId,
         IsMap(e.tags, TagIds, Details), TagsKnown(e, extra)
  PROVE  WellFormed(e, extra)
<1>1. IsMap(e.topics, TopicIds, TopicRecord)
  BY Parts DEF IsMap, IsFn
<1>2. ChapterOf(e) = ChapterOf(d)
  BY DEF ChapterOf
<1>3. Level(SubjectLists(e), SubjectOf(e)) /\ Level(ChapterLists(e), ChapterOf(e))
  BY <1>2, SameFields, Parts
<1> QED
  BY <1>1, <1>3, Parts, Assembled

\* renameTopic, archiving, bookmarks, a topic's attachments and cards.
LEMMA EditTopicWF ==
  ASSUME NEW extra, NEW d, WellFormed(d, extra), NEW t \in DOMAIN d.topics, NEW x \in Details
  PROVE  WellFormed(EditTopic(d, t, x), extra)
<1> DEFINE e == EditTopic(d, t, x)
           new == [d.topics[t] EXCEPT !.details = x]
<1>1. /\ IsFn(e) /\ DOMAIN e = FieldNames
      /\ e.topics = [d.topics EXCEPT ![t] = new]
      /\ e.subjects = d.subjects /\ e.chapters = d.chapters /\ e.subjectOrder = d.subjectOrder
      /\ e.tags = d.tags /\ e.tagOrder = d.tagOrder
  BY Parts DEF EditTopic, FieldNames, IsFn
<1>2. new \in TopicRecord /\ new.chapterId = d.topics[t].chapterId
      /\ new.tagIds = d.topics[t].tagIds
  BY TopicChanged, Parts
<1> HIDE DEF e, new
<1>3. /\ DOMAIN e.topics = DOMAIN d.topics /\ IsFn(e.topics) /\ e.topics[t] = new
      /\ \A u \in DOMAIN d.topics \ {t} : e.topics[u] = d.topics[u]
  BY <1>1 DEF IsFn
<1>4. \A u \in DOMAIN d.topics :
        e.topics[u] \in TopicRecord /\ e.topics[u].chapterId = d.topics[u].chapterId
        /\ e.topics[u].tagIds = d.topics[u].tagIds
  BY <1>2, <1>3, Parts
<1>5. TagsKnown(e, extra)
  BY <1>1, <1>3, <1>4, Parts DEF TagsKnown
<1>6. WellFormed(e, extra)
  BY <1>1, <1>3, <1>4, <1>5, Parts, TopicsRewritten
<1> QED
  BY <1>6 DEF e

\* deleteTopic.
LEMMA DeleteTopicWF ==
  ASSUME NEW extra, NEW d, WellFormed(d, extra), NEW t \in DOMAIN d.topics
  PROVE  WellFormed(DeleteTopic(d, t), extra)
<1> DEFINE e == DeleteTopic(d, t)
           c == d.topics[t].chapterId
           list == Without(d.chapters[c].topicIds, t)
<1>0. c \in DOMAIN d.chapters
  BY Listed
<1>1. /\ IsFn(e) /\ DOMAIN e = FieldNames
      /\ e.topics = Drop(d.topics, {t})
      /\ e.chapters = [d.chapters EXCEPT ![c].topicIds = list]
      /\ e.subjects = d.subjects /\ e.subjectOrder = d.subjectOrder
      /\ e.tags = d.tags /\ e.tagOrder = d.tagOrder
  BY <1>0, Parts DEF DeleteTopic, ListTopics, FieldNames, IsFn
<1>2. list \in Seq(TopicIds)
  <2>1. ChildrenOf(ChapterOf(d), c) \subseteq TopicIds /\ t \in TopicIds
    BY Listed, Parts
  <2> QED
    BY <1>0, <2>1, Listed, ListsOfIds
<1> HIDE DEF e, c, list
<1>3. /\ IsMap(e.chapters, ChapterIds, ChapterRecord) /\ DOMAIN e.chapters = DOMAIN d.chapters
      /\ e.chapters[c].topicIds = list /\ e.chapters[c].subjectId = d.chapters[c].subjectId
      /\ \A q \in DOMAIN d.chapters \ {c} : e.chapters[q] = d.chapters[q]
  BY <1>0, <1>1, <1>2, ChapterListed
<1>4. /\ IsMap(e.topics, TopicIds, TopicRecord) /\ DOMAIN e.topics = DOMAIN d.topics \ {t}
      /\ \A u \in DOMAIN e.topics : e.topics[u] = d.topics[u]
  <2>1. IsMap(e.topics, TopicIds, TopicRecord)
    BY <1>1, DropMap, Parts
  <2> QED
    BY <1>1, <2>1 DEF Drop, Restrict
<1>5. Level(ChapterLists(e), ChapterOf(e))
  <2>1. ChildWent(ChapterLists(d), ChapterOf(d), t, ChapterLists(e), ChapterOf(e))
    BY <1>0, <1>3, <1>4 DEF ChildWent, ChapterLists, ChapterOf, list, c
  <2> QED
    BY <2>1, ChildDropped, Parts
<1>6. SubjectOf(e) = SubjectOf(d)
  BY <1>3 DEF SubjectOf
<1>7. Level(SubjectLists(e), SubjectOf(e))
  BY <1>1, <1>6, SameFields, Parts
<1>8. TagsKnown(e, extra)
  BY <1>1, <1>4, Parts DEF TagsKnown
<1>9. WellFormed(e, extra)
  BY <1>1, <1>3, <1>4, <1>5, <1>7, <1>8, Parts, Assembled
<1> QED
  BY <1>9 DEF e

\* reorderTopics, among siblings.
LEMMA ReorderTopicsWF ==
  ASSUME NEW extra, NEW d, WellFormed(d, extra), NEW t \in DOMAIN d.topics, NEW over \in DOMAIN d.topics,
         d.topics[over].chapterId = d.topics[t].chapterId
  PROVE  WellFormed(ReorderTopics(d, t, over), extra)
<1> DEFINE e == ReorderTopics(d, t, over)
           c == d.topics[t].chapterId
           old == d.chapters[c].topicIds
           list == ArrayMove(old, Position(old, t), Position(old, over))
<1>0. c \in DOMAIN d.chapters
  BY Listed
<1>1. /\ IsFn(e) /\ DOMAIN e = FieldNames
      /\ e.chapters = [d.chapters EXCEPT ![c].topicIds = list]
      /\ e.subjects = d.subjects /\ e.topics = d.topics
      /\ e.subjectOrder = d.subjectOrder /\ e.tags = d.tags /\ e.tagOrder = d.tagOrder
  BY Parts DEF ReorderTopics, FieldNames, IsFn
<1>2. list \in Seq(TopicIds)
  <2>1. EachOnce(old, ChildrenOf(ChapterOf(d), c))
        /\ t \in ChildrenOf(ChapterOf(d), c) /\ over \in ChildrenOf(ChapterOf(d), c)
        /\ ChildrenOf(ChapterOf(d), c) \subseteq TopicIds
    BY <1>0, Listed, Parts
  <2>2. EachOnce(list, ChildrenOf(ChapterOf(d), c))
    BY <2>1, MovedOnce
  <2> QED
    BY <2>1, <2>2, OnceIsSeq
<1> HIDE DEF e, c, old, list
<1>3. /\ IsMap(e.chapters, ChapterIds, ChapterRecord) /\ DOMAIN e.chapters = DOMAIN d.chapters
      /\ e.chapters[c].topicIds = list /\ e.chapters[c].subjectId = d.chapters[c].subjectId
      /\ \A q \in DOMAIN d.chapters \ {c} : e.chapters[q] = d.chapters[q]
  BY <1>0, <1>1, <1>2, ChapterListed
<1>4. Level(ChapterLists(e), ChapterOf(d))
  <2>1. ListSorted(ChapterLists(d), ChapterOf(d), t, over, ChapterLists(e))
    BY <1>0, <1>3 DEF ListSorted, ChapterLists, ChapterOf, list, old, c
  <2> QED
    BY <2>1, ListReordered, Parts
<1>5. SubjectOf(e) = SubjectOf(d)
  BY <1>3 DEF SubjectOf
<1>6. Level(SubjectLists(e), SubjectOf(e)) /\ Level(ChapterLists(e), ChapterOf(e)) /\ TagsKnown(e, extra)
  BY <1>1, <1>4, <1>5, SameFields, Parts
<1>7. WellFormed(e, extra)
  BY <1>1, <1>3, <1>6, Parts, Assembled
<1> QED
  BY <1>7 DEF e

\* moveTopic, to another chapter.
LEMMA MoveTopicWF ==
  ASSUME NEW extra, NEW d, WellFormed(d, extra), NEW t \in DOMAIN d.topics, NEW to \in DOMAIN d.chapters,
         d.topics[t].chapterId # to
  PROVE  WellFormed(MoveTopic(d, t, to), extra)
<1> DEFINE e == MoveTopic(d, t, to)
           from == d.topics[t].chapterId
           less == Without(d.chapters[from].topicIds, t)
           more == Append(d.chapters[to].topicIds, t)
           detached == [d.chapters EXCEPT ![from].topicIds = less]
           moved == [d.topics[t] EXCEPT !.chapterId = to]
<1>0. from \in DOMAIN d.chapters
  BY Listed
<1>1. /\ IsFn(e) /\ DOMAIN e = FieldNames
      /\ e.chapters = [detached EXCEPT ![to].topicIds = more]
      /\ e.topics = [d.topics EXCEPT ![t] = moved]
      /\ e.subjects = d.subjects
      /\ e.subjectOrder = d.subjectOrder /\ e.tags = d.tags /\ e.tagOrder = d.tagOrder
  BY <1>0, Parts DEF MoveTopic, ListTopics, FieldNames, IsFn
<1>2. less \in Seq(TopicIds) /\ more \in Seq(TopicIds)
  <2>1. \A c \in DOMAIN d.chapters :
          EachOnce(d.chapters[c].topicIds, ChildrenOf(ChapterOf(d), c))
          /\ ChildrenOf(ChapterOf(d), c) \subseteq TopicIds
    BY Listed, Parts
  <2>2. t \in TopicIds
    BY Parts
  <2> QED
    BY <1>0, <2>1, <2>2, ListsOfIds
<1>3. moved \in TopicRecord /\ moved.chapterId = to /\ moved.tagIds = d.topics[t].tagIds
  <2>1. to \in ChapterIds
    BY Parts
  <2> QED
    BY <2>1, TopicChanged, Parts
<1> HIDE DEF e, less, more, moved, detached, from
<1>4. /\ IsMap(detached, ChapterIds, ChapterRecord) /\ DOMAIN detached = DOMAIN d.chapters
      /\ detached[from].topicIds = less /\ detached[from].subjectId = d.chapters[from].subjectId
      /\ \A q \in DOMAIN d.chapters \ {from} : detached[q] = d.chapters[q]
  BY <1>0, <1>2, ChapterListed DEF detached
<1>5. /\ IsMap(e.chapters, ChapterIds, ChapterRecord) /\ DOMAIN e.chapters = DOMAIN d.chapters
      /\ e.chapters[from].topicIds = less /\ e.chapters[to].topicIds = more
      /\ \A q \in DOMAIN d.chapters \ {from, to} : e.chapters[q] = d.chapters[q]
      /\ \A q \in DOMAIN d.chapters : e.chapters[q].subjectId = d.chapters[q].subjectId
  <2> DEFINE new == [d.chapters[to] EXCEPT !.topicIds = more]
  <2>1. detached[to] = d.chapters[to] /\ from # to
    BY <1>4 DEF from
  <2>2. e.chapters = [detached EXCEPT ![to] = new]
    BY <1>1, <2>1
  <2>3. new \in ChapterRecord /\ new.topicIds = more /\ new.subjectId = d.chapters[to].subjectId
    BY <1>2, ChapterChanged, Parts
  <2> HIDE DEF new
  <2>4. IsMap([detached EXCEPT ![to] = new], ChapterIds, ChapterRecord)
    BY <1>4, <2>3, ChangedMap
  <2> QED
    BY <1>0, <1>4, <2>1, <2>2, <2>3, <2>4
<1>6. /\ IsMap(e.topics, TopicIds, TopicRecord) /\ DOMAIN e.topics = DOMAIN d.topics
      /\ e.topics[t] = moved
      /\ \A u \in DOMAIN d.topics \ {t} : e.topics[u] = d.topics[u]
  <2>1. IsMap(e.topics, TopicIds, TopicRecord)
    BY <1>1, <1>3, ChangedMap, Parts
  <2> QED
    BY <1>1, <2>1
<1>7. Level(ChapterLists(e), ChapterOf(e))
  <2>1. ChildWentTo(ChapterLists(d), ChapterOf(d), t, to, ChapterLists(e), ChapterOf(e))
    BY <1>0, <1>3, <1>5, <1>6 DEF ChildWentTo, ChapterLists, ChapterOf, less, more, from
  <2> QED
    BY <2>1, ChildMoved, Parts
<1>8. SubjectOf(e) = SubjectOf(d)
  BY <1>5 DEF SubjectOf
<1>9. Level(SubjectLists(e), SubjectOf(e))
  BY <1>1, <1>8, SameFields, Parts
<1>10. TagsKnown(e, extra)
  BY <1>1, <1>3, <1>6, Parts DEF TagsKnown
<1>11. WellFormed(e, extra)
  BY <1>1, <1>5, <1>6, <1>7, <1>9, <1>10, Parts, Assembled
<1> QED
  BY <1>11 DEF e

-----------------------------------------------------------------------------
(* Edits of tags.                                                          *)

\* addTag.
LEMMA AddTagWF ==
  ASSUME NEW extra, NEW d, WellFormed(d, extra), NEW g \in TagIds, g \notin DOMAIN d.tags
  PROVE  WellFormed(AddTag(d, g), extra)
<1> DEFINE e == AddTag(d, g)
<1>1. /\ IsFn(e) /\ DOMAIN e = FieldNames
      /\ e.tags = Put(d.tags, g, Blank) /\ e.tagOrder = Append(d.tagOrder, g)
      /\ e.subjects = d.subjects /\ e.chapters = d.chapters /\ e.topics = d.topics
      /\ e.subjectOrder = d.subjectOrder
  BY Parts DEF AddTag, FieldNames, IsFn
<1> HIDE DEF e
<1>2. IsMap(e.tags, TagIds, Details) /\ DOMAIN e.tags = DOMAIN d.tags \cup {g}
  <2>1. IsMap(e.tags, TagIds, Details)
    BY <1>1, PutMap, DetailsAssumption, Parts
  <2> QED
    BY <1>1, <2>1 DEF Put
<1>3. EachOnce(e.tagOrder, DOMAIN e.tags)
  BY <1>1, <1>2, AppendOnce, Parts DEF TagsKnown
<1>4. TagsKnown(e, extra)
  BY <1>1, <1>2, <1>3, Parts DEF TagsKnown
<1>5. WellFormed(e, extra)
  BY <1>1, <1>2, <1>4, SameFields, Parts, Assembled
<1> QED
  BY <1>5 DEF e

\* updateTag.
LEMMA UpdateTagWF ==
  ASSUME NEW extra, NEW d, WellFormed(d, extra), NEW g \in DOMAIN d.tags, NEW x \in Details
  PROVE  WellFormed(UpdateTag(d, g, x), extra)
<1> DEFINE e == UpdateTag(d, g, x)
<1>1. /\ IsFn(e) /\ DOMAIN e = FieldNames
      /\ e.tags = [d.tags EXCEPT ![g] = x] /\ e.tagOrder = d.tagOrder
      /\ e.subjects = d.subjects /\ e.chapters = d.chapters /\ e.topics = d.topics
      /\ e.subjectOrder = d.subjectOrder
  BY Parts DEF UpdateTag, FieldNames, IsFn
<1> HIDE DEF e
<1>2. IsMap(e.tags, TagIds, Details) /\ DOMAIN e.tags = DOMAIN d.tags
  BY <1>1, ChangedMap, Parts
<1>3. TagsKnown(e, extra)
  BY <1>1, <1>2, Parts DEF TagsKnown
<1>4. WellFormed(e, extra)
  BY <1>1, <1>2, <1>3, SameFields, Parts, Assembled
<1> QED
  BY <1>4 DEF e

\* deleteTag: it goes from every topic that carried it.
LEMMA DeleteTagWF ==
  ASSUME NEW extra, NEW d, WellFormed(d, extra), NEW g \in DOMAIN d.tags
  PROVE  WellFormed(DeleteTag(d, g), extra)
<1> DEFINE e == DeleteTag(d, g)
           new(t) == [d.topics[t] EXCEPT !.tagIds = @ \ {g}]
<1>1. /\ IsFn(e) /\ DOMAIN e = FieldNames
      /\ e.tags = Drop(d.tags, {g}) /\ e.tagOrder = Without(d.tagOrder, g)
      /\ e.topics = [t \in DOMAIN d.topics |-> new(t)]
      /\ e.subjects = d.subjects /\ e.chapters = d.chapters
      /\ e.subjectOrder = d.subjectOrder
  BY Parts DEF DeleteTag, FieldNames, IsFn
<1>2. \A t \in DOMAIN d.topics :
        /\ new(t) \in TopicRecord /\ new(t).chapterId = d.topics[t].chapterId
        /\ new(t).tagIds = d.topics[t].tagIds \ {g}
  <2>1. \A t \in DOMAIN d.topics : d.topics[t].tagIds \ {g} \in SUBSET TagIds
    BY Parts DEF TopicRecord
  <2> QED
    BY <2>1, TopicChanged, Parts
<1> HIDE DEF e, new
<1>3. /\ DOMAIN e.topics = DOMAIN d.topics /\ IsFn(e.topics)
      /\ \A t \in DOMAIN d.topics : e.topics[t] = new(t)
  BY <1>1 DEF IsFn
<1>4. IsMap(e.tags, TagIds, Details) /\ DOMAIN e.tags = DOMAIN d.tags \ {g}
  <2>1. IsMap(e.tags, TagIds, Details)
    BY <1>1, DropMap, Parts
  <2> QED
    BY <1>1, <2>1 DEF Drop, Restrict
<1>5. EachOnce(e.tagOrder, DOMAIN e.tags)
  BY <1>1, <1>4, WithoutOnce, Parts DEF TagsKnown
<1>6. TagsKnown(e, extra)
  BY <1>2, <1>3, <1>4, <1>5, Parts DEF TagsKnown
<1>7. WellFormed(e, extra)
  BY <1>1, <1>2, <1>3, <1>4, <1>6, TopicsRewritten
<1> QED
  BY <1>7 DEF e

\* toggleTopicTag.
LEMMA ToggleTopicTagWF ==
  ASSUME NEW extra, NEW d, WellFormed(d, extra), NEW t \in DOMAIN d.topics, NEW g \in TagIds
  PROVE  WellFormed(ToggleTopicTag(d, t, g), extra \cup ({g} \ DOMAIN d.tags))
<1> DEFINE e == ToggleTopicTag(d, t, g)
           old == d.topics[t].tagIds
           toggled == IF g \in old THEN old \ {g} ELSE old \cup {g}
           more == extra \cup ({g} \ DOMAIN d.tags)
           new == [d.topics[t] EXCEPT !.tagIds = toggled]
<1>1. /\ IsFn(e) /\ DOMAIN e = FieldNames
      /\ e.topics = [d.topics EXCEPT ![t] = new]
      /\ e.subjects = d.subjects /\ e.chapters = d.chapters /\ e.subjectOrder = d.subjectOrder
      /\ e.tags = d.tags /\ e.tagOrder = d.tagOrder
  <2>1. e = [d EXCEPT !.topics = [d.topics EXCEPT ![t] = new]]
    BY DEF ToggleTopicTag
  <2> HIDE DEF e, new
  <2> QED
    BY <2>1, Parts DEF FieldNames, IsFn
<1>2. toggled \in SUBSET TagIds /\ toggled \subseteq DOMAIN d.tags \cup more
  <2>1. old \subseteq DOMAIN d.tags \cup extra /\ extra \subseteq more
    BY Parts DEF TagsKnown
  <2>2. old \subseteq TagIds
    BY Parts DEF TopicRecord
  <2> QED
    BY <2>1, <2>2
<1>3. new \in TopicRecord /\ new.chapterId = d.topics[t].chapterId /\ new.tagIds = toggled
  <2>1. PICK r \in TopicRecord : r = d.topics[t]
    BY Parts
  <2>2. PICK tags \in SUBSET TagIds : tags = toggled
    BY <1>2
  <2>3. /\ [r EXCEPT !.tagIds = tags] \in TopicRecord
        /\ [r EXCEPT !.tagIds = tags].chapterId = r.chapterId
        /\ [r EXCEPT !.tagIds = tags].tagIds = tags
    BY TopicChanged
  <2>4. new = [r EXCEPT !.tagIds = tags]
    BY <2>1, <2>2
  <2> QED
    BY <2>1, <2>2, <2>3, <2>4
<1> HIDE DEF e, new, toggled
<1>4. /\ DOMAIN e.topics = DOMAIN d.topics /\ IsFn(e.topics) /\ e.topics[t] = new
      /\ \A u \in DOMAIN d.topics \ {t} : e.topics[u] = d.topics[u]
  BY <1>1 DEF IsFn
<1>5. \A u \in DOMAIN d.topics :
        e.topics[u] \in TopicRecord /\ e.topics[u].chapterId = d.topics[u].chapterId
  BY <1>3, <1>4, Parts
<1>6. TagsKnown(e, more)
  <2>1. TagsKnown(d, extra) /\ extra \subseteq more
    BY Parts
  <2> HIDE DEF more
  <2> QED
    BY <1>1, <1>2, <1>3, <1>4, <2>1 DEF TagsKnown
<1>7. WellFormed(d, more)
  BY MoreKnown
<1> HIDE DEF more
<1>8. WellFormed(e, more)
  BY <1>1, <1>4, <1>5, <1>6, <1>7, Parts, TopicsRewritten
<1> QED
  BY <1>8 DEF e, more

\* Silent fields, wherever they come from, change nothing of all this.
LEMMA OwnRewritten ==
  ASSUME NEW extra, NEW d, WellFormed(d, extra), NEW e, IsFn(e), DOMAIN e = FieldNames,
         e.subjects = d.subjects, e.chapters = d.chapters, e.subjectOrder = d.subjectOrder,
         e.tags = d.tags, e.tagOrder = d.tagOrder,
         DOMAIN e.topics = DOMAIN d.topics, IsFn(e.topics),
         \A t \in DOMAIN d.topics :
           \/ e.topics[t] = d.topics[t]
           \/ \E o \in [notes: Nat, revisions: Nat, plannedAt: Plans] :
                e.topics[t] = WithOwn(d.topics[t], o)
  PROVE  WellFormed(e, extra)
<1>1. ASSUME NEW r \in TopicRecord, NEW o \in [notes: Nat, revisions: Nat, plannedAt: Plans]
      PROVE  /\ WithOwn(r, o) \in TopicRecord /\ WithOwn(r, o).chapterId = r.chapterId
             /\ WithOwn(r, o).tagIds = r.tagIds
  BY DEF WithOwn, TopicRecord
<1>2. \A t \in DOMAIN d.topics :
        /\ e.topics[t] \in TopicRecord /\ e.topics[t].chapterId = d.topics[t].chapterId
        /\ e.topics[t].tagIds = d.topics[t].tagIds
  BY <1>1, Parts
<1>3. TagsKnown(e, extra)
  BY <1>2, Parts DEF TagsKnown
<1> QED
  BY <1>2, <1>3, Parts, TopicsRewritten


-----------------------------------------------------------------------------
(* What the edits do to the silent fields.                                 *)

\* A topic is a record with the silent fields.
TopicShape(x) == IsFn(x) /\ {"notes", "revisions", "plannedAt"} \subseteq DOMAIN x

\* A document is a record with a map of such topics.
Shape(d) ==
  /\ IsFn(d) /\ "topics" \in DOMAIN d
  /\ IsFn(d.topics) /\ DOMAIN d.topics \subseteq TopicIds
  /\ \A t \in DOMAIN d.topics : TopicShape(d.topics[t])

\* The edit from d to e makes no topics but those of `made`, and leaves the
\* silent fields of the others alone.
EditMaking(d, e, made) ==
  /\ DOMAIN e.topics \subseteq DOMAIN d.topics \cup made
  /\ \A t \in DOMAIN e.topics \ made : Own(e.topics[t]) = Own(d.topics[t])

\* Edits of subjects, chapters, orders and tags.
LEMMA TopicsAlone ==
  ASSUME NEW d, NEW e, e.topics = d.topics
  PROVE  EditMaking(d, e, {})
  BY DEF EditMaking

\* These do.
LEMMA AloneEdits ==
  ASSUME NEW d, Shape(d), NEW a, NEW b, NEW x
  PROVE  /\ EditMaking(d, AddSubject(d, a), {})
         /\ EditMaking(d, EditSubject(d, a, x), {})
         /\ EditMaking(d, ReorderSubjects(d, a, b), {})
         /\ EditMaking(d, AddChapter(d, a, b), {})
         /\ EditMaking(d, EditChapter(d, a, x), {})
         /\ EditMaking(d, ReorderChapters(d, a, b), {})
         /\ EditMaking(d, MoveChapter(d, a, b), {})
         /\ EditMaking(d, ReorderTopics(d, a, b), {})
         /\ EditMaking(d, AddTag(d, a), {})
         /\ EditMaking(d, UpdateTag(d, a, x), {})
<1>0. "topics" \in DOMAIN d
  BY DEF Shape
<1>1. EditMaking(d, AddSubject(d, a), {})
  BY <1>0, TopicsAlone DEF AddSubject
<1>2. EditMaking(d, EditSubject(d, a, x), {})
  BY <1>0, TopicsAlone DEF EditSubject
<1>3. EditMaking(d, ReorderSubjects(d, a, b), {})
  BY <1>0, TopicsAlone DEF ReorderSubjects
<1>4. EditMaking(d, AddChapter(d, a, b), {})
  BY <1>0, TopicsAlone DEF AddChapter
<1>5. EditMaking(d, EditChapter(d, a, x), {})
  BY <1>0, TopicsAlone DEF EditChapter
<1>6. EditMaking(d, ReorderChapters(d, a, b), {})
  BY <1>0, TopicsAlone DEF ReorderChapters
<1>7. EditMaking(d, MoveChapter(d, a, b), {})
  BY <1>0, TopicsAlone DEF MoveChapter
<1>8. EditMaking(d, ReorderTopics(d, a, b), {})
  BY <1>0, TopicsAlone DEF ReorderTopics
<1>9. EditMaking(d, AddTag(d, a), {})
  BY <1>0, TopicsAlone DEF AddTag
<1>10. EditMaking(d, UpdateTag(d, a, x), {})
  BY <1>0, TopicsAlone DEF UpdateTag
<1> QED
  BY <1>1, <1>2, <1>3, <1>4, <1>5, <1>6, <1>7, <1>8, <1>9, <1>10

\* Edits that delete topics.
LEMMA TopicsDropped ==
  ASSUME NEW d, NEW gone, NEW e, e.topics = Drop(d.topics, gone)
  PROVE  EditMaking(d, e, {})
  BY DEF EditMaking, Drop, Restrict

\* These delete topics.
LEMMA DroppingEdits ==
  ASSUME NEW d, Shape(d), NEW a
  PROVE  /\ EditMaking(d, DeleteSubject(d, a), {})
         /\ EditMaking(d, DeleteChapter(d, a), {})
         /\ EditMaking(d, DeleteTopic(d, a), {})
<1>0. "topics" \in DOMAIN d
  BY DEF Shape
<1>1. EditMaking(d, DeleteSubject(d, a), {})
  BY <1>0, TopicsDropped DEF DeleteSubject
<1>2. EditMaking(d, DeleteChapter(d, a), {})
  BY <1>0, TopicsDropped DEF DeleteChapter
<1>3. EditMaking(d, DeleteTopic(d, a), {})
  BY <1>0, TopicsDropped DEF DeleteTopic
<1> QED
  BY <1>1, <1>2, <1>3

\* Edits that change other fields of topics.
LEMMA TopicsChanged ==
  ASSUME NEW d, NEW e, DOMAIN e.topics = DOMAIN d.topics,
         \A t \in DOMAIN d.topics :
           \A f \in {"notes", "revisions", "plannedAt"} : e.topics[t][f] = d.topics[t][f]
  PROVE  EditMaking(d, e, {})
  BY DEF EditMaking, Own

\* These change other fields.
LEMMA ChangingEdits ==
  ASSUME NEW d, Shape(d), NEW a, NEW b, NEW x
  PROVE  /\ EditMaking(d, EditTopic(d, a, x), {})
         /\ EditMaking(d, MoveTopic(d, a, b), {})
         /\ EditMaking(d, DeleteTag(d, a), {})
         /\ EditMaking(d, ToggleTopicTag(d, a, b), {})
<1>0. "topics" \in DOMAIN d /\ \A t \in DOMAIN d.topics : TopicShape(d.topics[t])
  BY DEF Shape
<1>1. EditMaking(d, EditTopic(d, a, x), {})
  BY <1>0, TopicsChanged DEF EditTopic, IsFn, TopicShape
<1>2. EditMaking(d, MoveTopic(d, a, b), {})
  BY <1>0, TopicsChanged DEF MoveTopic, IsFn, TopicShape
<1>3. EditMaking(d, DeleteTag(d, a), {})
  BY <1>0, TopicsChanged DEF DeleteTag, IsFn, TopicShape
<1>4. EditMaking(d, ToggleTopicTag(d, a, b), {})
  BY <1>0, TopicsChanged DEF ToggleTopicTag, IsFn, TopicShape
<1> QED
  BY <1>1, <1>2, <1>3, <1>4

\* Edits that make topics.
LEMMA AddTopicMakes ==
  ASSUME NEW d, Shape(d), NEW c, NEW t \in TopicIds
  PROVE  /\ EditMaking(d, AddTopic(d, c, t), {t})
         /\ t \in DOMAIN AddTopic(d, c, t).topics
         /\ Own(AddTopic(d, c, t).topics[t]) = FirstOwn
<1> DEFINE e == AddTopic(d, c, t)
           new == [chapterId |-> c, tagIds |-> {}, details |-> Blank, notes |-> 0,
                   revisions |-> 0, plannedAt |-> Absent]
<1>1. e.topics = Put(d.topics, t, new)
  BY DEF AddTopic, Shape
<1>2. /\ DOMAIN e.topics = DOMAIN d.topics \cup {t}
      /\ e.topics[t] = new
      /\ \A u \in DOMAIN d.topics \ {t} : e.topics[u] = d.topics[u]
  BY <1>1 DEF Put
<1>3. Own(new) = FirstOwn
  BY DEF Own, FirstOwn
<1> HIDE DEF e, new
<1> QED
  BY <1>2, <1>3 DEF EditMaking, e

\* duplicateChapter: the copies are new topics.
LEMMA DuplicateMakes ==
  ASSUME NEW d, Shape(d), NEW c, NEW new, NEW fresh \in SUBSET TopicIds,
         NEW S \in SUBSET DOMAIN d.topics, NEW copyOf \in Injection(S, fresh)
  PROVE  /\ EditMaking(d, DuplicateChapter(d, c, new, copyOf), Range(copyOf))
         /\ Range(copyOf) \subseteq fresh
         /\ Range(copyOf) \subseteq DOMAIN DuplicateChapter(d, c, new, copyOf).topics
         /\ \A x \in Range(copyOf) :
              Own(DuplicateChapter(d, c, new, copyOf).topics[x]).revisions = 0
<1> DEFINE e == DuplicateChapter(d, c, new, copyOf)
           copies == Range(copyOf)
           source(u) == CHOOSE t \in DOMAIN copyOf : copyOf[t] = u
           topic(u) == [d.topics[source(u)] EXCEPT !.chapterId = new, !.revisions = 0]
<1>1. copyOf \in [S -> fresh]
  BY DEF Injection
<1>2. copies \subseteq fresh
  BY <1>1 DEF Range
<1>3. e.topics = [u \in DOMAIN d.topics \cup copies |->
                    IF u \in copies THEN topic(u) ELSE d.topics[u]]
  BY DEF DuplicateChapter, Shape
<1>5. \A x \in copies : Own(e.topics[x]).revisions = 0
  <2> TAKE x \in copies
  <2>1. source(x) \in DOMAIN d.topics
    BY <1>1 DEF Range
  <2>2. topic(x).revisions = 0
    BY <2>1 DEF Shape, TopicShape, IsFn
  <2> QED
    BY <1>3, <2>2 DEF Own
<1> HIDE DEF e, copies, source, topic
<1>4. /\ DOMAIN e.topics = DOMAIN d.topics \cup copies
      /\ \A u \in DOMAIN d.topics \ copies : e.topics[u] = d.topics[u]
  BY <1>3
<1> QED
  BY <1>2, <1>4, <1>5 DEF EditMaking, e, copies

-----------------------------------------------------------------------------
(* What the edits do to the types and to the auxiliary `latest`.           *)

OwnType == [notes: Nat, revisions: Nat, plannedAt: Plans]

\* No plan is to be invented for what has such silent fields.
Settled(own) == own.plannedAt = Absent => own.revisions = 0

OwnRecord == {own \in OwnType : Settled(own)}

\* Every document the store can still show is well formed.
Typed ==
  /\ \A d \in Shown : WellFormed(d, unknown)
  /\ latest \in [TopicIds -> OwnRecord]
  /\ due \in BOOLEAN /\ changes \in Nat /\ unknown \subseteq TagIds

\* What a well-formed document says of a topic.
LEMMA OwnIsRecord ==
  ASSUME NEW extra, NEW d, WellFormed(d, extra), NEW t \in DOMAIN d.topics
  PROVE  Own(d.topics[t]) \in OwnType
  BY Parts DEF TopicRecord, Own, OwnType

\* A well-formed document is of the shape above.
LEMMA WellFormedShape ==
  ASSUME NEW extra, NEW d, WellFormed(d, extra)
  PROVE  Shape(d)
<1>1. /\ IsFn(d) /\ DOMAIN d = FieldNames /\ IsMap(d.topics, TopicIds, TopicRecord)
      /\ \A t \in DOMAIN d.topics : d.topics[t] \in TopicRecord
  BY Parts
<1>2. IsFn(d.topics) /\ DOMAIN d.topics \subseteq TopicIds
  BY <1>1 DEF IsMap, IsFn
<1>3. ASSUME NEW x \in TopicRecord PROVE TopicShape(x)
  BY <1>3 DEF TopicRecord, TopicShape, IsFn
<1> QED
  BY <1>1, <1>2, <1>3 DEF Shape, FieldNames

\* Ids that no shown document has are new to the present one.
LEMMA FreshIsNew ==
  /\ \A s \in FreshSubjects : s \in SubjectIds /\ s \notin DOMAIN present.subjects
  /\ \A c \in FreshChapters : c \in ChapterIds /\ c \notin DOMAIN present.chapters
  /\ \A t \in FreshTopics : t \in TopicIds /\ t \notin DOMAIN present.topics
  /\ \A g \in FreshTags : g \in TagIds /\ g \notin DOMAIN present.tags
  BY DEF FreshSubjects, FreshChapters, FreshTopics, FreshTags, Shown

\* The edit to d is committed; it makes the topics `made` and says of them what
\* they were last given.
Committed(d, made) ==
  /\ Commit(d) /\ WellFormed(d, unknown')
  /\ unknown \subseteq unknown' /\ unknown' \subseteq TagIds
  /\ EditMaking(present, d, made) /\ made \subseteq FreshTopics
  /\ latest' \in [TopicIds -> OwnRecord]
  /\ \A t \in made : latest'[t] = Own(d.topics[t])
  /\ \A t \in TopicIds \ made : latest'[t] = latest[t]

\* Structural edits that make no topic.
LEMMA PlainEdits ==
  ASSUME WellFormed(present, unknown), SubjectEdits \/ ChapterEdits \/ TopicEdits \/ TagEdits
  PROVE  \E d : Commits(d) /\ EditMaking(present, d, {}) /\ WellFormed(d, unknown)
<1>0. Shape(present)
  BY WellFormedShape
<1>1. CASE SubjectEdits
  BY <1>0, <1>1, FreshIsNew, AloneEdits, DroppingEdits, AddSubjectWF, EditSubjectWF,
     DeleteSubjectWF, ReorderSubjectsWF, Zenon DEF SubjectEdits, Subjects
<1>2. CASE ChapterEdits
  <2>1. CASE \E s \in Subjects, c \in FreshChapters : Commits(AddChapter(present, s, c))
    BY <1>0, <2>1, FreshIsNew, AloneEdits, AddChapterWF, Zenon DEF Subjects
  <2>2. CASE \E c \in Chapters, x \in Details : Commits(EditChapter(present, c, x))
    BY <1>0, <2>2, AloneEdits, EditChapterWF, Zenon DEF Chapters
  <2>3. CASE \E c \in Chapters : Commits(DeleteChapter(present, c))
    BY <1>0, <2>3, DroppingEdits, DeleteChapterWF, Zenon DEF Chapters
  <2>4. CASE \E c, over \in Chapters :
               /\ present.chapters[over].subjectId = present.chapters[c].subjectId
               /\ Commits(ReorderChapters(present, c, over))
    BY <1>0, <2>4, AloneEdits, ReorderChaptersWF, Zenon DEF Chapters
  <2>5. CASE \E c \in Chapters, s \in Subjects :
               present.chapters[c].subjectId # s /\ Commits(MoveChapter(present, c, s))
    BY <1>0, <2>5, AloneEdits, MoveChapterWF, Zenon DEF Chapters, Subjects
  <2> QED
    BY <1>2, <2>1, <2>2, <2>3, <2>4, <2>5, Zenon DEF ChapterEdits
<1>3. CASE TopicEdits
  <2>1. CASE \E t \in Topics, x \in Details : Commits(EditTopic(present, t, x))
    BY <1>0, <2>1, ChangingEdits, EditTopicWF, Zenon DEF Topics
  <2>2. CASE \E t \in Topics : Commits(DeleteTopic(present, t))
    BY <1>0, <2>2, DroppingEdits, DeleteTopicWF, Zenon DEF Topics
  <2>3. CASE \E t, over \in Topics :
               /\ present.topics[over].chapterId = present.topics[t].chapterId
               /\ Commits(ReorderTopics(present, t, over))
    BY <1>0, <2>3, AloneEdits, ReorderTopicsWF, Zenon DEF Topics
  <2>4. CASE \E t \in Topics, c \in Chapters :
               present.topics[t].chapterId # c /\ Commits(MoveTopic(present, t, c))
    BY <1>0, <2>4, ChangingEdits, MoveTopicWF, Zenon DEF Topics, Chapters
  <2> QED
    BY <1>3, <2>1, <2>2, <2>3, <2>4, Zenon DEF TopicEdits
<1>4. CASE TagEdits
  <2>1. CASE \E g \in FreshTags : Commits(AddTag(present, g))
    BY <1>0, <2>1, FreshIsNew, AloneEdits, AddTagWF, Zenon
  <2>2. CASE \E g \in Tags, x \in Details : Commits(UpdateTag(present, g, x))
    BY <1>0, <2>2, AloneEdits, UpdateTagWF, Zenon DEF Tags
  <2>3. CASE \E g \in Tags : Commits(DeleteTag(present, g))
    BY <1>0, <2>3, ChangingEdits, DeleteTagWF, Zenon DEF Tags
  <2> QED
    BY <1>4, <2>1, <2>2, <2>3, Zenon DEF TagEdits
<1> QED
  BY <1>1, <1>2, <1>3, <1>4

\* toggleTopicTag, of whatever id.
LEMMA ToggleCommits ==
  ASSUME Typed, ToggleTag
  PROVE  \E d, made : Committed(d, made)
<1>0. /\ WellFormed(present, unknown) /\ Shape(present) /\ latest \in [TopicIds -> OwnRecord]
      /\ unknown \subseteq TagIds
  BY WellFormedShape DEF Typed, Shown
<1>1. PICK t \in DOMAIN present.topics, g \in TagIds :
             /\ Commit(ToggleTopicTag(present, t, g))
             /\ unknown' = unknown \cup ({g} \ DOMAIN present.tags) /\ latest' = latest
  BY Zenon DEF ToggleTag, Topics, Tags
<1>2. WellFormed(ToggleTopicTag(present, t, g), unknown')
  BY <1>0, <1>1, ToggleTopicTagWF, Zenon
<1>3. EditMaking(present, ToggleTopicTag(present, t, g), {})
  BY <1>0, <1>1, ChangingEdits, Zenon
<1>4. unknown \subseteq unknown' /\ unknown' \subseteq TagIds
  BY <1>0, <1>1
<1>5. Committed(ToggleTopicTag(present, t, g), {})
  BY <1>0, <1>1, <1>2, <1>3, <1>4 DEF Committed
<1> QED
  BY <1>5

\* addTopic.
LEMMA NewTopicCommits ==
  ASSUME Typed, NewTopic
  PROVE  \E d, made : Committed(d, made)
<1>0. WellFormed(present, unknown) /\ Shape(present) /\ latest \in [TopicIds -> OwnRecord]
  BY WellFormedShape DEF Typed, Shown
<1>1. PICK c \in Chapters, t \in FreshTopics :
             /\ Commit(AddTopic(present, c, t)) /\ latest' = [latest EXCEPT ![t] = FirstOwn]
             /\ unknown' = unknown
  BY Zenon DEF NewTopic
<1>2. t \in TopicIds /\ t \notin DOMAIN present.topics /\ c \in DOMAIN present.chapters
  BY FreshIsNew DEF Chapters
<1>3. /\ EditMaking(present, AddTopic(present, c, t), {t})
      /\ Own(AddTopic(present, c, t).topics[t]) = FirstOwn
  BY <1>0, <1>2, AddTopicMakes
<1>4. WellFormed(AddTopic(present, c, t), unknown)
  BY <1>0, <1>2, AddTopicWF
<1>5. FirstOwn \in OwnRecord
  BY DEF FirstOwn, OwnRecord, OwnType, Settled, Plans
<1>6. /\ latest' \in [TopicIds -> OwnRecord] /\ latest'[t] = FirstOwn
      /\ \A u \in TopicIds \ {t} : latest'[u] = latest[u]
  BY <1>0, <1>1, <1>2, <1>5
<1>7. unknown \subseteq TagIds
  BY DEF Typed
<1> QED
  BY <1>1, <1>3, <1>4, <1>6, <1>7 DEF Committed

\* duplicateChapter.
LEMMA DuplicateCommits ==
  ASSUME Typed, Duplicate
  PROVE  \E d, made : Committed(d, made)
<1> DEFINE S(c) == Range(present.chapters[c].topicIds) \cap Topics
           Latest(copyOf, e) == [t \in TopicIds |-> IF t \in Range(copyOf) THEN Own(e.topics[t])
                                                    ELSE latest[t]]
<1>0. WellFormed(present, unknown) /\ Shape(present) /\ latest \in [TopicIds -> OwnRecord]
  BY WellFormedShape DEF Typed, Shown
<1>1. PICK c \in Chapters, new \in FreshChapters :
        \E copyOf \in Injection(S(c), FreshTopics) :
             /\ Commit(DuplicateChapter(present, c, new, copyOf))
             /\ latest' = Latest(copyOf, DuplicateChapter(present, c, new, copyOf))
             /\ unknown' = unknown
  BY Zenon DEF Duplicate
<1>2. PICK copyOf \in Injection(S(c), FreshTopics) :
             /\ Commit(DuplicateChapter(present, c, new, copyOf))
             /\ latest' = Latest(copyOf, DuplicateChapter(present, c, new, copyOf))
             /\ unknown' = unknown
  BY <1>1
<1> DEFINE d == DuplicateChapter(present, c, new, copyOf)
<1>3. /\ FreshTopics \subseteq TopicIds /\ FreshTopics \cap DOMAIN present.topics = {}
      /\ new \in ChapterIds /\ new \notin DOMAIN present.chapters
      /\ S(c) \in SUBSET DOMAIN present.topics /\ c \in DOMAIN present.chapters
  BY FreshIsNew DEF Topics, Chapters
<1>4. WellFormed(d, unknown)
  BY <1>0, <1>2, <1>3, DuplicateChapterWF, Zenon DEF Topics
<1> HIDE DEF S
<1>5. /\ EditMaking(present, d, Range(copyOf)) /\ Range(copyOf) \subseteq FreshTopics
      /\ Range(copyOf) \subseteq DOMAIN d.topics
      /\ \A u \in Range(copyOf) : Own(d.topics[u]).revisions = 0
  <2>1. FreshTopics \in SUBSET TopicIds
    BY <1>3
  <2>2. PICK s \in SUBSET DOMAIN present.topics : s = S(c)
    BY <1>3
  <2>3. copyOf \in Injection(s, FreshTopics)
    BY <2>2
  <2> QED
    BY <1>0, <2>1, <2>3, DuplicateMakes
<1>6. latest' = Latest(copyOf, d)
  BY <1>2
<1> HIDE DEF d
<1>7. \A u \in Range(copyOf) : Own(d.topics[u]) \in OwnRecord
  BY <1>4, <1>5, OwnIsRecord DEF OwnRecord, Settled
<1>8. /\ latest' \in [TopicIds -> OwnRecord]
      /\ \A u \in Range(copyOf) : latest'[u] = Own(d.topics[u])
      /\ \A u \in TopicIds \ Range(copyOf) : latest'[u] = latest[u]
  BY <1>0, <1>3, <1>5, <1>6, <1>7
<1>9. Commit(d)
  BY <1>2 DEF d
<1>10. unknown' = unknown /\ unknown \subseteq TagIds
  BY <1>2 DEF Typed
<1>11. Committed(d, Range(copyOf))
  BY <1>4, <1>5, <1>8, <1>9, <1>10 DEF Committed
<1> QED
  BY <1>11

\* Every structural edit commits a well-formed document.
LEMMA StructuralEdits ==
  ASSUME Typed,
         \/ SubjectEdits \/ ChapterEdits \/ Duplicate \/ NewTopic \/ TopicEdits
         \/ TagEdits \/ ToggleTag
  PROVE  \E d, made : Committed(d, made)
<1>1. /\ WellFormed(present, unknown) /\ latest \in [TopicIds -> OwnRecord]
      /\ unknown \subseteq TagIds
  BY DEF Typed, Shown
<1>2. CASE SubjectEdits \/ ChapterEdits \/ TopicEdits \/ TagEdits
  <2>1. PICK d : Commits(d) /\ EditMaking(present, d, {}) /\ WellFormed(d, unknown)
    BY <1>1, <1>2, PlainEdits
  <2>2. Committed(d, {})
    BY <1>1, <2>1 DEF Commits, Committed
  <2> QED
    BY <2>2
<1> QED
  BY <1>2, NewTopicCommits, DuplicateCommits, ToggleCommits

\* What every silent edit does.
LEMMA SilentEditsCommit ==
  ASSUME Typed, SilentEdits, \A t \in Topics : OwnNow(t) = latest[t]
  PROVE  \E own : /\ CommitSilent(own) /\ DOMAIN own \subseteq Topics
                  /\ \A t \in DOMAIN own : own[t] \in OwnRecord
<1> DEFINE Good(own) == /\ CommitSilent(own) /\ DOMAIN own \subseteq Topics
                        /\ \A t \in DOMAIN own : own[t] \in OwnRecord
<1>1. \A t \in Topics : OwnNow(t) \in OwnRecord
  <2>1. Topics \subseteq TopicIds
    BY Parts DEF Typed, Shown, Topics
  <2> QED
    BY <2>1 DEF Typed
<1>2. Stamp \in Nat
  BY DEF Typed, Stamp
<1>3. \A r \in OwnRecord, x \in Nat :
        /\ [r EXCEPT !.notes = x] \in OwnRecord
        /\ r.revisions # 0 => [r EXCEPT !.revisions = x] \in OwnRecord
        /\ [r EXCEPT !.plannedAt = x] \in OwnRecord
        /\ [r EXCEPT !.plannedAt = NoPlan] \in OwnRecord
        /\ [r EXCEPT !.revisions = x, !.plannedAt = NoPlan] \in OwnRecord
  BY PlansAssumption DEF OwnRecord, OwnType, Settled, Plans
<1>4. ASSUME NEW t \in Topics, UpdateTopicNotes(t) PROVE \E own : Good(own)
  <2> DEFINE own == [u \in {t} |-> [OwnNow(u) EXCEPT !.notes = Stamp]]
  <2>1. CommitSilent(own)
    BY <1>4 DEF UpdateTopicNotes
  <2>2. DOMAIN own \subseteq Topics /\ \A u \in DOMAIN own : own[u] \in OwnRecord
    BY <1>1, <1>2, <1>3
  <2> QED
    BY <2>1, <2>2
<1>5. ASSUME NEW t \in Topics, MarkTopicRevised(t) PROVE \E own : Good(own)
  <2> DEFINE own == [u \in {t} |-> [OwnNow(u) EXCEPT !.revisions = Stamp,
                                                     !.plannedAt = NoPlan]]
  <2>1. CommitSilent(own)
    BY <1>5 DEF MarkTopicRevised
  <2>2. DOMAIN own \subseteq Topics /\ \A u \in DOMAIN own : own[u] \in OwnRecord
    BY <1>1, <1>2, <1>3
  <2> QED
    BY <2>1, <2>2
<1>6. ASSUME NEW t \in Topics, EditRevisionHistory(t) PROVE \E own : Good(own)
  <2>1. PICK history \in {0, Stamp} :
               CommitSilent([u \in {t} |-> [OwnNow(u) EXCEPT !.revisions = history]])
    BY <1>6 DEF EditRevisionHistory
  <2>4. OwnNow(t).revisions # 0
    BY <1>6 DEF EditRevisionHistory
  <2> DEFINE own == [u \in {t} |-> [OwnNow(u) EXCEPT !.revisions = history]]
  <2>2. history \in Nat
    BY <1>2
  <2>3. DOMAIN own \subseteq Topics /\ \A u \in DOMAIN own : own[u] \in OwnRecord
    BY <1>1, <1>3, <2>2, <2>4
  <2> QED
    BY <2>1, <2>3
<1>7. ASSUME NEW t \in Topics, ClearPlan(t) PROVE \E own : Good(own)
  <2> DEFINE own == [u \in {t} |-> [OwnNow(u) EXCEPT !.plannedAt = NoPlan]]
  <2>1. CommitSilent(own)
    BY <1>7 DEF ClearPlan
  <2>2. DOMAIN own \subseteq Topics /\ \A u \in DOMAIN own : own[u] \in OwnRecord
    BY <1>1, <1>2, <1>3
  <2> QED
    BY <2>1, <2>2
<1>8. ASSUME NEW ts \in SUBSET Topics, PlanTopics(ts) PROVE \E own : Good(own)
  <2> DEFINE own == [t \in ts |-> [OwnNow(t) EXCEPT !.plannedAt = Stamp]]
  <2>1. CommitSilent(own)
    BY <1>8 DEF PlanTopics
  <2>2. DOMAIN own \subseteq Topics /\ \A u \in DOMAIN own : own[u] \in OwnRecord
    BY <1>1, <1>2, <1>3
  <2> QED
    BY <2>1, <2>2
<1> HIDE DEF Good
<1>9. \E own : Good(own)
  BY <1>4, <1>5, <1>6, <1>7, <1>8, Zenon DEF SilentEdits
<1> QED
  BY <1>9 DEF Good

-----------------------------------------------------------------------------
(* The history: past, present and future as one line of documents.         *)

\* Both parts of the history together are bounded.
History(p, f) ==
  /\ \E S : p \in Seq(S) /\ f \in Seq(S)
  /\ Len(p) + Len(f) <= MaxHistory

\* The list without its first items, at most n long.
IsEndOf(end, list, n, S) ==
  \E k \in Nat : /\ end \in Seq(S) /\ Len(end) <= n /\ Len(end) = Len(list) - k
                 /\ \A i \in 1..(Len(list) - k) : end[i] = list[i + k]

\* slice(-n).
LEMMA LastOfBounded ==
  ASSUME NEW S, NEW list \in Seq(S), NEW n \in Nat
  PROVE  IsEndOf(LastOf(list, n), list, n, S)
<1>1. Len(list) \in Nat
  OBVIOUS
<1>2. CASE Len(list) <= n
  <2>1. LastOf(list, n) = list
    BY <1>2 DEF LastOf
  <2>2. \A i \in 1..(Len(list) - 0) : list[i] = list[i + 0]
    BY <1>1
  <2> QED
    BY <1>1, <1>2, <2>1, <2>2 DEF IsEndOf
<1>3. CASE Len(list) > n
  <2> DEFINE o == Len(list) - n
             first == o + 1
  <2>1. o \in Nat /\ first \in 1..(Len(list) + 1) /\ Len(list) - o = n
    BY <1>1, <1>3
  <2>2. LastOf(list, n) = SubSeq(list, first, Len(list))
    BY <1>1, <1>3 DEF LastOf
  <2>3. SubSeq(list, first, Len(list)) \in Seq(S)
    BY <1>1, <1>3, <2>1
  <2>4. Len(SubSeq(list, first, Len(list))) = n
    BY <1>1, <1>3, <2>1
  <2>5. \A i \in 1..n : SubSeq(list, first, Len(list))[i] = list[i + o]
    BY <1>1, <1>3, <2>1
  <2> HIDE DEF o, first
  <2>6. /\ LastOf(list, n) \in Seq(S)
        /\ Len(LastOf(list, n)) <= n /\ Len(LastOf(list, n)) = Len(list) - o
        /\ \A i \in 1..(Len(list) - o) : LastOf(list, n)[i] = list[i + o]
    BY <2>1, <2>2, <2>3, <2>4, <2>5
  <2> QED
    BY <2>1, <2>6 DEF IsEndOf
<1>4. Len(list) <= n \/ Len(list) > n
  BY <1>1
<1> QED
  BY <1>2, <1>3, <1>4, Zenon

Has(d, t) == t \in DOMAIN d.topics

\* The documents of past, present and future, in this order: a topic that is in
\* two of them is in all between.
NoComeback(pr, p, f) ==
  \A t \in TopicIds :
    /\ \A i, j, k \in DOMAIN p : i < j /\ j < k /\ Has(p[i], t) /\ Has(p[k], t) => Has(p[j], t)
    /\ \A i, j \in DOMAIN p : i < j /\ Has(p[i], t) /\ Has(pr, t) => Has(p[j], t)
    /\ \A i \in DOMAIN p, k \in DOMAIN f : Has(p[i], t) /\ Has(f[k], t) => Has(pr, t)
    /\ \A j, k \in DOMAIN f : j < k /\ Has(pr, t) /\ Has(f[k], t) => Has(f[j], t)
    /\ \A i, j, k \in DOMAIN f : i < j /\ j < k /\ Has(f[i], t) /\ Has(f[k], t) => Has(f[j], t)

\* The document with the topic that is nearest to the present has what it was
\* last given.
NearestIsLatest(pr, p, f, l) ==
  \A t \in TopicIds :
    /\ Has(pr, t) => Own(pr.topics[t]) = l[t]
    /\ \A i \in DOMAIN p :
         Has(p[i], t) /\ ~Has(pr, t) /\ (\A j \in DOMAIN p : i < j => ~Has(p[j], t))
           => Own(p[i].topics[t]) = l[t]
    /\ \A i \in DOMAIN f :
         Has(f[i], t) /\ ~Has(pr, t) /\ (\A j \in DOMAIN f : j < i => ~Has(f[j], t))
           => Own(f[i].topics[t]) = l[t]

Shapes(pr, p, f) ==
  /\ Shape(pr)
  /\ \A i \in DOMAIN p : Shape(p[i])
  /\ \A i \in DOMAIN f : Shape(f[i])

Kept(pr, p, f, l) ==
  /\ History(p, f) /\ DOMAIN l = TopicIds
  /\ Shapes(pr, p, f) /\ NoComeback(pr, p, f) /\ NearestIsLatest(pr, p, f, l)

\* preserveSilentFields: the topics are those of the restored document, and those
\* the present document has, too, keep what it says of them.
LEMMA Preserved ==
  ASSUME NEW r, NEW c, Shape(r), Shape(c)
  PROVE  LET e == PreserveSilentFields(r, c)
         IN  /\ Shape(e) /\ DOMAIN e.topics = DOMAIN r.topics
             /\ \A t \in DOMAIN r.topics :
                  Own(e.topics[t]) = IF Has(c, t) THEN Own(c.topics[t]) ELSE Own(r.topics[t])
<1> DEFINE e == PreserveSilentFields(r, c)
<1>1. "topics" \in DOMAIN r /\ \A t \in DOMAIN r.topics : TopicShape(r.topics[t])
  BY DEF Shape
<1>2. ASSUME NEW x, NEW o, TopicShape(x)
      PROVE  TopicShape(WithOwn(x, Own(o))) /\ Own(WithOwn(x, Own(o))) = Own(o)
  BY <1>2 DEF TopicShape, IsFn, WithOwn, Own
<1>3. IsFn(e) /\ DOMAIN e = DOMAIN r
      /\ e.topics = [t \in DOMAIN r.topics |->
                       IF t \in DOMAIN c.topics
                       THEN WithOwn(r.topics[t], Own(c.topics[t])) ELSE r.topics[t]]
  BY <1>1 DEF PreserveSilentFields, IsFn
<1> HIDE DEF e
<1>4. /\ IsFn(e.topics) /\ DOMAIN e.topics = DOMAIN r.topics
      /\ \A t \in DOMAIN r.topics :
           e.topics[t] = IF Has(c, t) THEN WithOwn(r.topics[t], Own(c.topics[t])) ELSE r.topics[t]
  BY <1>3 DEF IsFn, Has
<1>5. ASSUME NEW t \in DOMAIN r.topics
      PROVE  /\ TopicShape(e.topics[t])
             /\ Own(e.topics[t]) = IF Has(c, t) THEN Own(c.topics[t]) ELSE Own(r.topics[t])
  BY <1>1, <1>2, <1>4
<1>6. Shape(e)
  BY <1>1, <1>3, <1>4, <1>5 DEF Shape
<1> QED
  BY <1>4, <1>5, <1>6 DEF e

-----------------------------------------------------------------------------
(* Every step keeps the line.                                              *)

\* A structural edit drops the future, so that no topic it deletes is ahead; the
\* topics it makes are new to every document of the past.
LEMMA CommitKeeps ==
  ASSUME Kept(present, past, future, latest),
         NEW d, NEW made, Commit(d), Shape(d), EditMaking(present, d, made),
         made \subseteq FreshTopics,
         DOMAIN latest' = TopicIds,
         \A t \in made : latest'[t] = Own(d.topics[t]),
         \A t \in TopicIds \ made : latest'[t] = latest[t]
  PROVE  Kept(present, past, future, latest)'
<1>1. PICK S : past \in Seq(S) /\ future \in Seq(S)
  BY DEF Kept, History
<1> DEFINE T == S \cup {present}
           all == Append(past, present)
           n == Len(past)
<1>2. all \in Seq(T) /\ n \in Nat /\ Len(all) = n + 1 /\ DOMAIN past = 1..n
      /\ all[n + 1] = present /\ \A i \in 1..n : all[i] = past[i]
  <2>1. past \in Seq(T)
    BY <1>1
  <2> QED
    BY <2>1
<1>3. PICK o \in Nat :
           /\ past' \in Seq(T)
           /\ Len(past') <= MaxHistory /\ Len(past') = Len(all) - o
           /\ \A i \in 1..(Len(all) - o) : past'[i] = all[i + o]
  <2>1. past' = LastOf(all, MaxHistory)
    BY DEF Commit, Record
  <2>2. MaxHistory \in Nat
    BY HistoryAssumption
  <2>3. PICK list : list = all
    OBVIOUS
  <2>4. list \in Seq(T) /\ past' = LastOf(list, MaxHistory)
    BY <1>2, <2>1, <2>3
  <2> HIDE DEF all
  <2>5. PICK k \in Nat :
           /\ past' \in Seq(T)
           /\ Len(past') <= MaxHistory /\ Len(past') = Len(list) - k
           /\ \A i \in 1..(Len(list) - k) : past'[i] = list[i + k]
    <3>1. IsEndOf(past', list, MaxHistory, T)
      BY <2>2, <2>4, LastOfBounded, Zenon
    <3> QED
      BY <3>1 DEF IsEndOf
  <2> QED
    BY <2>3, <2>5
<1>4. future' = <<>> /\ present' = d
  BY DEF Commit, Record
<1> HIDE DEF all, n, T
<1>5. DOMAIN past' = 1..(n + 1 - o) /\ DOMAIN future' = {}
  BY <1>2, <1>3, <1>4
<1>6. History(past', future')
  <2>1. future' \in Seq(T) /\ Len(future') = 0
    BY <1>4
  <2> QED
    BY <1>2, <1>3, <2>1, HistoryAssumption DEF History
<1>7. Shapes(present', past', future')
  <2>1. \A i \in 1..(n + 1) : Shape(all[i])
    BY <1>2 DEF Kept, Shapes
  <2> QED
    BY <1>2, <1>3, <1>4, <1>5, <2>1 DEF Shapes
<1>8. \A t \in made : ~Has(present, t) /\ \A i \in 1..n : ~Has(past[i], t)
  BY <1>2 DEF FreshTopics, Shown, Range, Has
<1>9. \A t \in TopicIds : Has(d, t) => t \in made \/ Has(present, t)
  BY DEF EditMaking, Has
<1>10. NoComeback(present', past', future')
  <2>1. \A t \in TopicIds : \A i, j, k \in 1..(n + 1) :
          i < j /\ j < k /\ Has(all[i], t) /\ Has(all[k], t) => Has(all[j], t)
    BY <1>2 DEF Kept, NoComeback
  <2>2. \A t \in TopicIds : \A i, j \in 1..(n + 1) :
          i < j /\ Has(all[i], t) /\ Has(d, t) => Has(all[j], t)
    BY <1>2, <1>8, <1>9 DEF Kept, NoComeback
  <2>3. \A i \in 1..(n + 1 - o) : i + o \in 1..(n + 1) /\ past'[i] = all[i + o]
    BY <1>2, <1>3
  <2>4. \A t \in TopicIds : \A i, j, k \in DOMAIN past' :
          i < j /\ j < k /\ Has(past'[i], t) /\ Has(past'[k], t) => Has(past'[j], t)
    BY <1>2, <1>5, <2>1, <2>3
  <2>5. \A t \in TopicIds : \A i, j \in DOMAIN past' :
          i < j /\ Has(past'[i], t) /\ Has(present', t) => Has(past'[j], t)
    BY <1>2, <1>4, <1>5, <2>2, <2>3
  <2> QED
    BY <1>5, <2>4, <2>5 DEF NoComeback
<1>11. NearestIsLatest(present', past', future', latest')
  <2> SUFFICES ASSUME NEW t \in TopicIds
               PROVE  /\ Has(d, t) => Own(d.topics[t]) = latest'[t]
                      /\ \A i \in 1..(n + 1 - o) :
                           /\ Has(past'[i], t) /\ ~Has(d, t)
                           /\ \A j \in 1..(n + 1 - o) : i < j => ~Has(past'[j], t)
                           => Own(past'[i].topics[t]) = latest'[t]
    BY <1>4, <1>5 DEF NearestIsLatest
  <2>1. Has(present, t) => Own(present.topics[t]) = latest[t]
    BY DEF Kept, NearestIsLatest
  <2>2. ASSUME Has(d, t) PROVE Own(d.topics[t]) = latest'[t]
    BY <1>9, <2>1, <2>2 DEF EditMaking, Has
  <2>3. ASSUME NEW i \in 1..(n + 1 - o), Has(past'[i], t), ~Has(d, t),
               \A j \in 1..(n + 1 - o) : i < j => ~Has(past'[j], t)
        PROVE  Own(past'[i].topics[t]) = latest'[t]
    <3>1. past'[i] = all[i + o] /\ i + o \in 1..(n + 1)
      BY <1>2, <1>3
    <3>2. t \notin made
      BY <1>2, <1>8, <2>3, <3>1
    <3>3. CASE i + o = n + 1
      BY <1>2, <2>1, <2>3, <3>1, <3>2, <3>3
    <3>4. CASE i + o < n + 1
      <4>1. n + 1 - o \in 1..(n + 1 - o) /\ past'[n + 1 - o] = present /\ i < n + 1 - o
        BY <1>2, <1>3, <3>4
      <4>2. ~Has(present, t)
        BY <2>3, <4>1
      <4>3. i + o \in 1..n /\ past'[i] = past[i + o]
        BY <1>2, <3>1, <3>4
      <4>4. ASSUME NEW j \in 1..n, i + o < j PROVE ~Has(past[j], t)
        <5>1. j - o \in 1..(n + 1 - o) /\ past'[j - o] = past[j] /\ i < j - o
          BY <1>2, <1>3, <4>4
        <5> QED
          BY <2>3, <5>1
      <4> QED
        BY <1>2, <2>3, <3>2, <4>2, <4>3, <4>4 DEF Kept, NearestIsLatest
    <3> QED
      BY <1>2, <3>1, <3>3, <3>4
  <2> QED
    BY <2>2, <2>3
<1> QED
  BY <1>6, <1>7, <1>10, <1>11 DEF Kept

\* A silent edit is of topics of the present document only.
LEMMA SilentKeeps ==
  ASSUME Kept(present, past, future, latest),
         NEW own, CommitSilent(own), DOMAIN own \subseteq Topics,
         \A t \in DOMAIN own : Own(own[t]) = own[t]
  PROVE  Kept(present, past, future, latest)'
<1>1. Shape(present) /\ DOMAIN latest = TopicIds
  BY DEF Kept, Shapes
<1>2. "topics" \in DOMAIN present /\ \A t \in DOMAIN present.topics : TopicShape(present.topics[t])
      /\ DOMAIN present.topics \subseteq TopicIds
  BY <1>1 DEF Shape
<1>3. past' = past /\ future' = future
      /\ present' = [present EXCEPT !.topics = [t \in DOMAIN @ |->
                       IF t \in DOMAIN own THEN WithOwn(@[t], own[t]) ELSE @[t]]]
      /\ latest' = [t \in TopicIds |-> IF t \in DOMAIN own THEN own[t] ELSE latest[t]]
  BY DEF CommitSilent
<1>4. IsFn(present') /\ DOMAIN present' = DOMAIN present
      /\ present'.topics = [t \in DOMAIN present.topics |->
            IF t \in DOMAIN own THEN WithOwn(present.topics[t], own[t]) ELSE present.topics[t]]
  BY <1>2, <1>3 DEF IsFn
<1>5. /\ IsFn(present'.topics) /\ DOMAIN present'.topics = DOMAIN present.topics
      /\ \A t \in DOMAIN present.topics :
           present'.topics[t] = IF t \in DOMAIN own THEN WithOwn(present.topics[t], own[t])
                                ELSE present.topics[t]
  BY <1>4 DEF IsFn
<1>6. ASSUME NEW x, NEW o, TopicShape(x), Own(o) = o
      PROVE  TopicShape(WithOwn(x, o)) /\ Own(WithOwn(x, o)) = o
  BY <1>6 DEF TopicShape, IsFn, WithOwn, Own
<1>7. \A t \in DOMAIN present.topics :
        /\ TopicShape(present'.topics[t])
        /\ Own(present'.topics[t]) = IF t \in DOMAIN own THEN own[t] ELSE Own(present.topics[t])
  BY <1>2, <1>5, <1>6
<1>8. Shape(present')
  BY <1>2, <1>4, <1>5, <1>7 DEF Shape
<1>9. Shapes(present', past', future')
  BY <1>3, <1>8 DEF Kept, Shapes
<1>10. \A t : Has(present', t) <=> Has(present, t)
  BY <1>5 DEF Has
<1>11. NoComeback(present', past', future')
  BY <1>3, <1>10 DEF Kept, NoComeback
<1>12. DOMAIN latest' = TopicIds
       /\ \A t \in TopicIds : latest'[t] = IF t \in DOMAIN own THEN own[t] ELSE latest[t]
  BY <1>3
<1>13. \A t \in DOMAIN own : Has(present, t)
  BY DEF Topics, Has
<1>14. NearestIsLatest(present', past', future', latest')
  <2> SUFFICES ASSUME NEW t \in TopicIds
               PROVE  /\ Has(present', t) => Own(present'.topics[t]) = latest'[t]
                      /\ \A i \in DOMAIN past :
                           Has(past[i], t) /\ ~Has(present', t)
                           /\ (\A j \in DOMAIN past : i < j => ~Has(past[j], t))
                             => Own(past[i].topics[t]) = latest'[t]
                      /\ \A i \in DOMAIN future :
                           Has(future[i], t) /\ ~Has(present', t)
                           /\ (\A j \in DOMAIN future : j < i => ~Has(future[j], t))
                             => Own(future[i].topics[t]) = latest'[t]
    BY <1>3 DEF NearestIsLatest
  <2>1. Has(present', t) => Own(present'.topics[t]) = latest'[t]
    BY <1>7, <1>10, <1>12 DEF Kept, NearestIsLatest, Has
  <2>2. ~Has(present', t) => latest'[t] = latest[t] /\ ~Has(present, t)
    BY <1>10, <1>12, <1>13
  <2> QED
    BY <2>1, <2>2 DEF Kept, NearestIsLatest
<1>15. History(past', future')
  BY <1>3 DEF Kept, History
<1> QED
  BY <1>9, <1>11, <1>12, <1>14, <1>15 DEF Kept

\* undo() moves one step back on the line.  A topic that is back on the screen and
\* that the document left does not have was on no document after it (NoComeback),
\* so that the restored document is the nearest that has it.
LEMMA UndoKeeps ==
  ASSUME Kept(present, past, future, latest), Undo
  PROVE  Kept(present, past, future, latest)'
<1>1. PICK S : past \in Seq(S) /\ future \in Seq(S)
  BY DEF Kept, History
<1> DEFINE T == S \cup {present}
           n == Len(past)
           m == Len(future)
<1>2. past \in Seq(T) /\ future \in Seq(T) /\ past # <<>>
  BY <1>1 DEF Undo
<1>3. n \in Nat \ {0} /\ m \in Nat /\ n + m <= MaxHistory
      /\ DOMAIN past = 1..n /\ DOMAIN future = 1..m
  BY <1>2 DEF Kept, History
<1>4. /\ present' = PreserveSilentFields(past[n], present)
      /\ past' = SubSeq(past, 1, n - 1) /\ future' = <<present>> \o future
      /\ latest' = latest
  BY DEF Undo, Becomes, AfterUndo, Store
<1>5. past' \in Seq(T) /\ Len(past') = n - 1 /\ DOMAIN past' = 1..(n - 1)
      /\ \A i \in 1..(n - 1) : past'[i] = past[i]
  BY <1>2, <1>3, <1>4
<1>6. <<present>> \in Seq(T) /\ Len(<<present>>) = 1 /\ <<present>>[1] = present
  OBVIOUS
<1>7. future' \in Seq(T) /\ Len(future') = m + 1 /\ DOMAIN future' = 1..(m + 1)
      /\ future'[1] = present /\ \A i \in 1..m : future'[i + 1] = future[i]
  BY <1>2, <1>3, <1>4, <1>6
<1> HIDE DEF T, n, m
<1>8. n \in 1..n /\ Shape(past[n]) /\ Shape(present)
  BY <1>3 DEF Kept, Shapes
<1>9. /\ Shape(present')
      /\ \A t : Has(present', t) <=> Has(past[n], t)
      /\ \A t : Has(past[n], t) =>
           Own(present'.topics[t]) = IF Has(present, t) THEN Own(present.topics[t])
                                     ELSE Own(past[n].topics[t])
  BY <1>4, <1>8, Preserved DEF Has
<1>10. \A k \in 1..(m + 1) : k = 1 \/ (k - 1 \in 1..m /\ future'[k] = future[k - 1])
  BY <1>3, <1>7
<1>11. History(past', future')
  BY <1>3, <1>5, <1>7 DEF History
<1>12. Shapes(present', past', future')
  <2>1. \A i \in DOMAIN past' : Shape(past'[i])
    BY <1>3, <1>5 DEF Kept, Shapes
  <2>2. \A i \in DOMAIN future' : Shape(future'[i])
    BY <1>3, <1>7, <1>8, <1>10 DEF Kept, Shapes
  <2> QED
    BY <1>9, <2>1, <2>2 DEF Shapes
<1>13. NoComeback(present', past', future')
  <2> SUFFICES ASSUME NEW t \in TopicIds
      PROVE
        /\ \A i, j, k \in 1..(n - 1) : i < j /\ j < k /\ Has(past'[i], t) /\ Has(past'[k], t) => Has(past'[j], t)
        /\ \A i, j \in 1..(n - 1) : i < j /\ Has(past'[i], t) /\ Has(present', t) => Has(past'[j], t)
        /\ \A i \in 1..(n - 1), k \in 1..(m + 1) : Has(past'[i], t) /\ Has(future'[k], t) => Has(present', t)
        /\ \A j, k \in 1..(m + 1) : j < k /\ Has(present', t) /\ Has(future'[k], t) => Has(future'[j], t)
        /\ \A i, j, k \in 1..(m + 1) : i < j /\ j < k /\ Has(future'[i], t) /\ Has(future'[k], t) => Has(future'[j], t)
    BY <1>5, <1>7 DEF NoComeback
  <2>0. /\ \A i, j, k \in 1..n : i < j /\ j < k /\ Has(past[i], t) /\ Has(past[k], t) => Has(past[j], t)
        /\ \A i, j \in 1..n : i < j /\ Has(past[i], t) /\ Has(present, t) => Has(past[j], t)
        /\ \A i \in 1..n, k \in 1..m : Has(past[i], t) /\ Has(future[k], t) => Has(present, t)
        /\ \A j, k \in 1..m : j < k /\ Has(present, t) /\ Has(future[k], t) => Has(future[j], t)
        /\ \A i, j, k \in 1..m : i < j /\ j < k /\ Has(future[i], t) /\ Has(future[k], t) => Has(future[j], t)
    BY <1>3 DEF Kept, NoComeback
  <2>1. \A i, j, k \in 1..(n - 1) : i < j /\ j < k /\ Has(past'[i], t) /\ Has(past'[k], t) => Has(past'[j], t)
    BY <1>3, <1>5, <2>0
  <2>2. \A i, j \in 1..(n - 1) : i < j /\ Has(past'[i], t) /\ Has(present', t) => Has(past'[j], t)
    BY <1>3, <1>5, <1>9, <2>0
  <2>3. \A i \in 1..(n - 1), k \in 1..(m + 1) : Has(past'[i], t) /\ Has(future'[k], t) => Has(present', t)
    BY <1>3, <1>5, <1>7, <1>9, <1>10, <2>0, SMTT(30)
  <2>4. \A j, k \in 1..(m + 1) : j < k /\ Has(present', t) /\ Has(future'[k], t) => Has(future'[j], t)
    BY <1>3, <1>7, <1>9, <1>10, <2>0
  <2>5. ASSUME NEW i \in 1..(m + 1), NEW j \in 1..(m + 1), NEW k \in 1..(m + 1),
               i < j, j < k, Has(future'[i], t), Has(future'[k], t)
        PROVE  Has(future'[j], t)
    <3>0. j # 1 /\ k # 1 /\ j - 1 < k - 1
      BY <1>3, <2>5
    <3>1. /\ j - 1 \in 1..m /\ future'[j] = future[j - 1] /\ k - 1 \in 1..m
          /\ future'[k] = future[k - 1] /\ j - 1 < k - 1
      BY <1>10, <3>0
    <3>2. CASE i = 1
      BY <1>7, <2>0, <2>5, <3>1, <3>2
    <3>3. CASE i # 1
      <4>1. i - 1 \in 1..m /\ future'[i] = future[i - 1] /\ i - 1 < j - 1
        BY <1>3, <1>10, <2>5, <3>3
      <4> QED
        BY <2>0, <2>5, <3>1, <4>1
    <3> QED
      BY <3>2, <3>3
  <2> QED
    BY <2>1, <2>2, <2>3, <2>4, <2>5
<1>14. NearestIsLatest(present', past', future', latest')
  <2> SUFFICES ASSUME NEW t \in TopicIds
      PROVE
        /\ Has(present', t) => Own(present'.topics[t]) = latest[t]
        /\ \A i \in 1..(n - 1) :
             Has(past'[i], t) /\ ~Has(present', t) /\ (\A j \in 1..(n - 1) : i < j => ~Has(past'[j], t))
               => Own(past'[i].topics[t]) = latest[t]
        /\ \A i \in 1..(m + 1) :
             Has(future'[i], t) /\ ~Has(present', t) /\ (\A j \in 1..(m + 1) : j < i => ~Has(future'[j], t))
               => Own(future'[i].topics[t]) = latest[t]
    BY <1>4, <1>5, <1>7, ZenonT(30) DEF NearestIsLatest
  <2>0. /\ Has(present, t) => Own(present.topics[t]) = latest[t]
        /\ \A i \in 1..n :
             Has(past[i], t) /\ ~Has(present, t) /\ (\A j \in 1..n : i < j => ~Has(past[j], t))
               => Own(past[i].topics[t]) = latest[t]
        /\ \A i \in 1..m :
             Has(future[i], t) /\ ~Has(present, t) /\ (\A j \in 1..m : j < i => ~Has(future[j], t))
               => Own(future[i].topics[t]) = latest[t]
        /\ \A i, j \in 1..n : i < j /\ Has(past[i], t) /\ Has(present, t) => Has(past[j], t)
    BY <1>3 DEF Kept, NearestIsLatest, NoComeback
  <2>1. Has(present', t) => Own(present'.topics[t]) = latest[t]
    BY <1>3, <1>9, <2>0
  <2>2. ASSUME NEW i \in 1..(n - 1), Has(past'[i], t), ~Has(present', t),
               \A j \in 1..(n - 1) : i < j => ~Has(past'[j], t)
        PROVE  Own(past'[i].topics[t]) = latest[t]
    <3>1. ~Has(past[n], t) /\ i \in 1..n /\ i < n /\ past'[i] = past[i]
      BY <1>3, <1>5, <1>9, <2>2
    <3>2. ~Has(present, t)
      BY <1>8, <2>0, <2>2, <3>1
    <3>3. \A j \in 1..n : i < j => ~Has(past[j], t)
      BY <1>3, <1>5, <2>2, <3>1
    <3> QED
      BY <2>0, <2>2, <3>1, <3>2, <3>3
  <2>3. ASSUME NEW i \in 1..(m + 1), Has(future'[i], t), ~Has(present', t),
               \A j \in 1..(m + 1) : j < i => ~Has(future'[j], t)
        PROVE  Own(future'[i].topics[t]) = latest[t]
    <3>1. CASE i = 1
      BY <1>7, <2>0, <2>3, <3>1
    <3>2. CASE i # 1
      <4>1. i - 1 \in 1..m /\ future'[i] = future[i - 1]
        BY <1>10, <3>2
      <4>2. ~Has(present, t)
        BY <1>3, <1>7, <2>3, <3>2
      <4>3. \A j \in 1..m : j < i - 1 => ~Has(future[j], t)
        BY <1>3, <1>7, <2>3
      <4> QED
        BY <2>0, <2>3, <4>1, <4>2, <4>3
    <3> QED
      BY <3>1, <3>2
  <2> QED
    BY <2>1, <2>2, <2>3
<1> QED
  BY <1>4, <1>11, <1>12, <1>13, <1>14 DEF Kept

\* redo() moves one step ahead, likewise.
LEMMA RedoKeeps ==
  ASSUME Kept(present, past, future, latest), Redo
  PROVE  Kept(present, past, future, latest)'
<1>1. PICK S : past \in Seq(S) /\ future \in Seq(S)
  BY DEF Kept, History
<1> DEFINE T == S \cup {present}
           n == Len(past)
           m == Len(future)
<1>2. past \in Seq(T) /\ future \in Seq(T) /\ future # <<>>
  BY <1>1 DEF Redo
<1>3. n \in Nat /\ m \in Nat \ {0} /\ n + m <= MaxHistory
      /\ DOMAIN past = 1..n /\ DOMAIN future = 1..m
  BY <1>2 DEF Kept, History
<1>4. /\ present' = PreserveSilentFields(future[1], present)
      /\ past' = Append(past, present) /\ future' = Tail(future)
      /\ latest' = latest
  BY <1>2 DEF Redo, Becomes, AfterRedo, Store
<1>5. past' \in Seq(T) /\ Len(past') = n + 1 /\ DOMAIN past' = 1..(n + 1)
      /\ past'[n + 1] = present /\ \A i \in 1..n : past'[i] = past[i]
  BY <1>2, <1>3, <1>4
<1>6. future' \in Seq(T) /\ Len(future') = m - 1 /\ DOMAIN future' = 1..(m - 1)
      /\ \A i \in 1..(m - 1) : future'[i] = future[i + 1]
  BY <1>2, <1>3, <1>4
<1> HIDE DEF T, n, m
<1>7. 1 \in 1..m /\ Shape(future[1]) /\ Shape(present)
  BY <1>3 DEF Kept, Shapes
<1>8. /\ Shape(present')
      /\ \A t : Has(present', t) <=> Has(future[1], t)
      /\ \A t : Has(future[1], t) =>
           Own(present'.topics[t]) = IF Has(present, t) THEN Own(present.topics[t])
                                     ELSE Own(future[1].topics[t])
  BY <1>4, <1>7, Preserved DEF Has
<1>9. \A i \in 1..(n + 1) : i = n + 1 \/ (i \in 1..n /\ past'[i] = past[i])
  BY <1>3, <1>5
<1>10. \A i \in 1..(m - 1) : i + 1 \in 1..m /\ future'[i] = future[i + 1]
  BY <1>3, <1>6
<1>11. History(past', future')
  BY <1>3, <1>5, <1>6 DEF History
<1>12. Shapes(present', past', future')
  <2>1. \A i \in DOMAIN past' : Shape(past'[i])
    BY <1>3, <1>5, <1>7, <1>9 DEF Kept, Shapes
  <2>2. \A i \in DOMAIN future' : Shape(future'[i])
    BY <1>3, <1>6, <1>10 DEF Kept, Shapes
  <2> QED
    BY <1>8, <2>1, <2>2 DEF Shapes
<1>13. NoComeback(present', past', future')
  <2> SUFFICES ASSUME NEW t \in TopicIds
      PROVE
        /\ \A i, j, k \in 1..(n + 1) : i < j /\ j < k /\ Has(past'[i], t) /\ Has(past'[k], t) => Has(past'[j], t)
        /\ \A i, j \in 1..(n + 1) : i < j /\ Has(past'[i], t) /\ Has(present', t) => Has(past'[j], t)
        /\ \A i \in 1..(n + 1), k \in 1..(m - 1) : Has(past'[i], t) /\ Has(future'[k], t) => Has(present', t)
        /\ \A j, k \in 1..(m - 1) : j < k /\ Has(present', t) /\ Has(future'[k], t) => Has(future'[j], t)
        /\ \A i, j, k \in 1..(m - 1) : i < j /\ j < k /\ Has(future'[i], t) /\ Has(future'[k], t) => Has(future'[j], t)
    BY <1>5, <1>6 DEF NoComeback
  <2>0. /\ \A i, j, k \in 1..n : i < j /\ j < k /\ Has(past[i], t) /\ Has(past[k], t) => Has(past[j], t)
        /\ \A i, j \in 1..n : i < j /\ Has(past[i], t) /\ Has(present, t) => Has(past[j], t)
        /\ \A i \in 1..n, k \in 1..m : Has(past[i], t) /\ Has(future[k], t) => Has(present, t)
        /\ \A j, k \in 1..m : j < k /\ Has(present, t) /\ Has(future[k], t) => Has(future[j], t)
        /\ \A i, j, k \in 1..m : i < j /\ j < k /\ Has(future[i], t) /\ Has(future[k], t) => Has(future[j], t)
    BY <1>3 DEF Kept, NoComeback
  <2>1. ASSUME NEW i \in 1..(n + 1), NEW j \in 1..(n + 1), NEW k \in 1..(n + 1),
               i < j, j < k, Has(past'[i], t), Has(past'[k], t)
        PROVE  Has(past'[j], t)
    <3>1. i \in 1..n /\ j \in 1..n /\ past'[i] = past[i] /\ past'[j] = past[j]
      BY <1>3, <1>9, <2>1
    <3>2. CASE k = n + 1
      BY <1>5, <2>0, <2>1, <3>1, <3>2
    <3>3. CASE k # n + 1
      BY <1>9, <2>0, <2>1, <3>1, <3>3
    <3> QED
      BY <3>2, <3>3
  <2>2. ASSUME NEW i \in 1..(n + 1), NEW j \in 1..(n + 1),
               i < j, Has(past'[i], t), Has(present', t)
        PROVE  Has(past'[j], t)
    <3>1. i \in 1..n /\ past'[i] = past[i] /\ Has(present, t)
      BY <1>3, <1>7, <1>8, <1>9, <2>0, <2>2
    <3> QED
      BY <1>5, <1>9, <2>0, <2>2, <3>1
  <2>3. \A i \in 1..(n + 1), k \in 1..(m - 1) : Has(past'[i], t) /\ Has(future'[k], t) => Has(present', t)
    BY <1>3, <1>5, <1>7, <1>8, <1>9, <1>10, <2>0
  <2>4. \A j, k \in 1..(m - 1) : j < k /\ Has(present', t) /\ Has(future'[k], t) => Has(future'[j], t)
    BY <1>3, <1>7, <1>8, <1>10, <2>0
  <2>5. \A i, j, k \in 1..(m - 1) : i < j /\ j < k /\ Has(future'[i], t) /\ Has(future'[k], t) => Has(future'[j], t)
    BY <1>3, <1>10, <2>0, SMTT(30)
  <2> QED
    BY <2>1, <2>2, <2>3, <2>4, <2>5
<1>14. NearestIsLatest(present', past', future', latest')
  <2> SUFFICES ASSUME NEW t \in TopicIds
      PROVE
        /\ Has(present', t) => Own(present'.topics[t]) = latest[t]
        /\ \A i \in 1..(n + 1) :
             Has(past'[i], t) /\ ~Has(present', t) /\ (\A j \in 1..(n + 1) : i < j => ~Has(past'[j], t))
               => Own(past'[i].topics[t]) = latest[t]
        /\ \A i \in 1..(m - 1) :
             Has(future'[i], t) /\ ~Has(present', t) /\ (\A j \in 1..(m - 1) : j < i => ~Has(future'[j], t))
               => Own(future'[i].topics[t]) = latest[t]
    BY <1>4, <1>5, <1>6 DEF NearestIsLatest
  <2>0. /\ Has(present, t) => Own(present.topics[t]) = latest[t]
        /\ \A i \in 1..n :
             Has(past[i], t) /\ ~Has(present, t) /\ (\A j \in 1..n : i < j => ~Has(past[j], t))
               => Own(past[i].topics[t]) = latest[t]
        /\ \A i \in 1..m :
             Has(future[i], t) /\ ~Has(present, t) /\ (\A j \in 1..m : j < i => ~Has(future[j], t))
               => Own(future[i].topics[t]) = latest[t]
        /\ \A j, k \in 1..m : j < k /\ Has(present, t) /\ Has(future[k], t) => Has(future[j], t)
    BY <1>3 DEF Kept, NearestIsLatest, NoComeback
  <2>1. Has(present', t) => Own(present'.topics[t]) = latest[t]
    BY <1>3, <1>7, <1>8, <2>0
  <2>2. ASSUME NEW i \in 1..(n + 1), Has(past'[i], t), ~Has(present', t),
               \A j \in 1..(n + 1) : i < j => ~Has(past'[j], t)
        PROVE  Own(past'[i].topics[t]) = latest[t]
    <3>1. CASE i = n + 1
      BY <1>5, <2>0, <2>2, <3>1
    <3>2. CASE i # n + 1
      <4>1. i \in 1..n /\ past'[i] = past[i] /\ i < n + 1
        BY <1>3, <1>9, <3>2
      <4>2. n + 1 \in 1..(n + 1)
        BY <1>3
      <4>3. ~Has(present, t)
        BY <1>5, <2>2, <4>1, <4>2
      <4>4. \A j \in 1..n : i < j => ~Has(past[j], t)
        BY <1>3, <1>5, <2>2
      <4> QED
        BY <2>0, <2>2, <4>1, <4>3, <4>4
    <3> QED
      BY <3>1, <3>2
  <2>3. ASSUME NEW i \in 1..(m - 1), Has(future'[i], t), ~Has(present', t),
               \A j \in 1..(m - 1) : j < i => ~Has(future'[j], t)
        PROVE  Own(future'[i].topics[t]) = latest[t]
    <3>1. i + 1 \in 1..m /\ future'[i] = future[i + 1] /\ 1 < i + 1
      BY <1>3, <1>10
    <3>2. ~Has(future[1], t) /\ ~Has(present, t)
      BY <1>7, <1>8, <2>0, <2>3, <3>1
    <3>3. ASSUME NEW j \in 1..m, j < i + 1 PROVE ~Has(future[j], t)
      <4>1. CASE j = 1
        BY <3>2, <4>1
      <4>2. CASE j # 1
        <5>1. j - 1 \in 1..(m - 1) /\ future'[j - 1] = future[j] /\ j - 1 < i
          BY <1>3, <1>10, <3>3, <4>2
        <5> QED
          BY <2>3, <5>1
      <4> QED
        BY <4>1, <4>2
    <3> QED
      BY <2>0, <2>3, <3>1, <3>2, <3>3
  <2> QED
    BY <2>1, <2>2, <2>3
<1> QED
  BY <1>4, <1>11, <1>12, <1>13, <1>14 DEF Kept

\* A document that invents no plan when it is loaded.
Plain(d) == \A t \in DOMAIN d.topics : Settled(Own(d.topics[t]))

\* Loading it changes nothing.
LEMMA PlainLoads ==
  ASSUME NEW d, IsDocument(d), Plain(d), NEW g
  PROVE  Normalize(d, g) = d
<1>1. IsFn(d) /\ DOMAIN d = FieldNames /\ IsMap(d.topics, TopicIds, TopicRecord)
  BY DocumentFields DEF IsDocument
<1>2. /\ d.topics = [t \in DOMAIN d.topics |-> d.topics[t]]
      /\ \A t \in DOMAIN d.topics : d.topics[t] \in TopicRecord
  BY <1>1 DEF IsMap
<1>3. \A t \in DOMAIN d.topics : WithPlan(d.topics[t]) = d.topics[t]
  BY <1>2 DEF Plain, Settled, Own, WithPlan
<1>4. [t \in DOMAIN d.topics |-> WithPlan(d.topics[t])] = d.topics
  BY <1>2, <1>3
<1>5. \A f \in FieldNames : FieldOr(d, f, <<>>) = d[f]
  BY <1>1 DEF FieldOr
<1>6. Normalize(d, g) = [subjects |-> d.subjects, chapters |-> d.chapters,
                         topics |-> d.topics, tags |-> d.tags,
                         subjectOrder |-> d.subjectOrder, tagOrder |-> d.tagOrder]
  BY <1>1, <1>4, <1>5 DEF Normalize, FieldNames
<1> QED
  BY <1>6 DEF IsDocument

\* What a load makes of a document invents no plan a second time.
LEMMA LoadedIsPlain ==
  ASSUME NEW raw, NEW g, IsDocument(Normalize(raw, g))
  PROVE  Plain(Normalize(raw, g))
<1> DEFINE d == Normalize(raw, g)
           stored == FieldOr(raw, "topics", <<>>)
<1>1. \A t \in DOMAIN d.topics : d.topics[t] \in TopicRecord
  BY DEF IsDocument, IsMap
<1>2. d.topics = [t \in DOMAIN stored |-> WithPlan(stored[t])]
  BY DEF Normalize
<1> HIDE DEF d, stored
<1>3. ASSUME NEW t \in DOMAIN d.topics PROVE Settled(Own(d.topics[t]))
  <2> DEFINE x == stored[t]
  <2>1. d.topics[t] = WithPlan(x)
    BY <1>2
  <2>2. CASE x.plannedAt = Absent /\ x.revisions # 0
    <3>1. d.topics[t] = [x EXCEPT !.plannedAt = x.revisions]
      BY <2>1, <2>2 DEF WithPlan, Suggested
    <3>2. /\ d.topics[t].revisions \in Nat
          /\ "plannedAt" \in DOMAIN d.topics[t] /\ "revisions" \in DOMAIN d.topics[t]
      BY <1>1 DEF TopicRecord
    <3> HIDE DEF x
    <3>3. d.topics[t].plannedAt = d.topics[t].revisions
      BY <3>1, <3>2
    <3> QED
      BY <3>2, <3>3, PlansAssumption DEF Settled, Own
  <2>3. CASE ~(x.plannedAt = Absent /\ x.revisions # 0)
    BY <2>1, <2>3 DEF WithPlan, Settled, Own
  <2> QED
    BY <2>2, <2>3
<1> QED
  BY <1>3 DEF Plain, d

\* What a load or the seed installs.
LEMMA InitialIsWellFormed ==
  ASSUME NEW raw \in InitialDocs, NEW d \in Loads(raw)
  PROVE  WellFormed(d, {}) /\ IsDocument(d) /\ Plain(d)
<1>1. WellFormed(d, {}) /\ IsDocument(d)
  BY InitialAssumption, WellFormedIs
<1>2. PICK g \in TagIds : d = Normalize(raw, g)
  BY DEF Loads
<1> QED
  BY <1>1, <1>2, LoadedIsPlain

\* Right after an installation everything is kept.
LEMMA FreshIsKept ==
  ASSUME NEW d, Shape(d)
  PROVE  Kept(d, <<>>, <<>>, OwnOf(d))
<1>2. <<>> \in Seq({}) /\ Len(<<>>) = 0 /\ DOMAIN <<>> = {}
  OBVIOUS
<1>3. History(<<>>, <<>>)
  BY <1>2, HistoryAssumption DEF History
<1>4. DOMAIN OwnOf(d) = TopicIds /\ \A t \in TopicIds : Has(d, t) => OwnOf(d)[t] = Own(d.topics[t])
  BY DEF OwnOf, Has
<1> QED
  BY <1>2, <1>3, <1>4 DEF Kept, Shapes, NoComeback, NearestIsLatest

-----------------------------------------------------------------------------
(* Every step keeps every shown document well formed.                      *)

\* A restored document with the present silent fields put in is well formed
\* (preserveSilentFields, silentFields.ts).
LEMMA PreservedWF ==
  ASSUME NEW extra, NEW r, NEW c, WellFormed(r, extra), WellFormed(c, extra)
  PROVE  WellFormed(PreserveSilentFields(r, c), extra)
<1> DEFINE e == PreserveSilentFields(r, c)
<1>1. /\ IsFn(e) /\ DOMAIN e = FieldNames
      /\ e.topics = [t \in DOMAIN r.topics |->
                       IF t \in DOMAIN c.topics
                       THEN WithOwn(r.topics[t], Own(c.topics[t])) ELSE r.topics[t]]
      /\ e.subjects = r.subjects /\ e.chapters = r.chapters /\ e.subjectOrder = r.subjectOrder
      /\ e.tags = r.tags /\ e.tagOrder = r.tagOrder
  BY Parts DEF PreserveSilentFields, FieldNames, IsFn
<1> HIDE DEF e
<1>2. \A t \in DOMAIN c.topics : Own(c.topics[t]) \in [notes: Nat, revisions: Nat, plannedAt: Plans]
  BY Parts DEF TopicRecord, Own
<1>3. /\ DOMAIN e.topics = DOMAIN r.topics /\ IsFn(e.topics)
      /\ \A t \in DOMAIN r.topics :
           \/ e.topics[t] = r.topics[t]
           \/ t \in DOMAIN c.topics /\ e.topics[t] = WithOwn(r.topics[t], Own(c.topics[t]))
  BY <1>1 DEF IsFn
<1>4. WellFormed(e, extra)
  BY <1>1, <1>2, <1>3, OwnRewritten
<1> QED
  BY <1>4 DEF e

\* A structural edit.
LEMMA CommitTyped ==
  ASSUME Typed, History(past, future), NEW d, NEW made, Committed(d, made)
  PROVE  Typed'
<1>1. PICK S : past \in Seq(S)
  BY DEF History
<1>2. PICK all : all = Append(past, present)
  OBVIOUS
<1> DEFINE T == S \cup {present}
<1>3. /\ all \in Seq(T) /\ Len(all) = Len(past) + 1 /\ DOMAIN past = 1..Len(past)
      /\ Len(past) \in Nat
      /\ \A i \in 1..Len(all) : all[i] \in {present} \cup Range(past)
  <2>1. past \in Seq(T) /\ present \in T
    BY <1>1
  <2> HIDE DEF T
  <2>2. /\ all \in Seq(T) /\ Len(all) = Len(past) + 1 /\ DOMAIN past = 1..Len(past)
        /\ Len(past) \in Nat /\ all[Len(past) + 1] = present
        /\ \A i \in 1..Len(past) : all[i] = past[i]
    BY <1>2, <2>1
  <2> QED
    BY <2>2 DEF Range
<1>4. past' = LastOf(all, MaxHistory) /\ future' = <<>> /\ present' = d
  BY <1>2 DEF Committed, Commit, Record
<1> HIDE DEF T
<1>5. PICK o \in Nat :
           /\ past' \in Seq(T) /\ Len(past') = Len(all) - o
           /\ \A i \in 1..(Len(all) - o) : past'[i] = all[i + o]
  <2>1. MaxHistory \in Nat
    BY HistoryAssumption
  <2>2. IsEndOf(past', all, MaxHistory, T)
    BY <1>3, <1>4, <2>1, LastOfBounded, Zenon
  <2> QED
    BY <2>2 DEF IsEndOf
<1>6. Range(past') \subseteq {present} \cup Range(past)
  <2>1. DOMAIN past' = 1..(Len(all) - o)
    BY <1>5
  <2>2. \A i \in 1..(Len(all) - o) : i + o \in 1..Len(all)
    BY <1>3
  <2> QED
    BY <1>3, <1>5, <2>1, <2>2 DEF Range
<1>7. Range(future') = {}
  BY <1>4 DEF Range
<1>8. \A e \in Shown' : WellFormed(e, unknown')
  <2>1. \A e \in {present} \cup Range(past) : WellFormed(e, unknown')
    BY MoreKnown DEF Typed, Shown, Committed
  <2>2. WellFormed(d, unknown')
    BY DEF Committed
  <2> QED
    BY <1>4, <1>6, <1>7, <2>1, <2>2 DEF Shown
<1>9. latest' \in [TopicIds -> OwnRecord]
  BY DEF Committed
<1>10. due' \in BOOLEAN /\ changes' \in Nat /\ unknown' \subseteq TagIds
  BY DEF Typed, Committed, Commit, Persist
<1> QED
  BY <1>8, <1>9, <1>10 DEF Typed

\* A silent edit.
LEMMA SilentTyped ==
  ASSUME Typed, NEW own, CommitSilent(own), DOMAIN own \subseteq Topics,
         \A t \in DOMAIN own : own[t] \in OwnRecord
  PROVE  Typed'
<1>1. WellFormed(present, unknown) /\ latest \in [TopicIds -> OwnRecord]
  BY DEF Typed, Shown
<1>2. past' = past /\ future' = future
      /\ present' = [present EXCEPT !.topics = [t \in DOMAIN @ |->
                       IF t \in DOMAIN own THEN WithOwn(@[t], own[t]) ELSE @[t]]]
      /\ latest' = [t \in TopicIds |-> IF t \in DOMAIN own THEN own[t] ELSE latest[t]]
  BY DEF CommitSilent
<1>3. PICK e : e = present'
  OBVIOUS
<1>4. /\ IsFn(e) /\ DOMAIN e = FieldNames
      /\ e.topics = [t \in DOMAIN present.topics |->
           IF t \in DOMAIN own THEN WithOwn(present.topics[t], own[t]) ELSE present.topics[t]]
      /\ e.subjects = present.subjects /\ e.chapters = present.chapters
      /\ e.subjectOrder = present.subjectOrder
      /\ e.tags = present.tags /\ e.tagOrder = present.tagOrder
  BY <1>1, <1>2, <1>3, Parts DEF FieldNames, IsFn
<1>5. /\ DOMAIN e.topics = DOMAIN present.topics /\ IsFn(e.topics)
      /\ \A t \in DOMAIN present.topics :
           \/ e.topics[t] = present.topics[t]
           \/ t \in DOMAIN own /\ e.topics[t] = WithOwn(present.topics[t], own[t])
  BY <1>4 DEF IsFn
<1>6. WellFormed(e, unknown)
  BY <1>1, <1>4, <1>5, OwnRewritten DEF OwnRecord, OwnType
<1>7. Shown' \subseteq Shown \cup {e}
  BY <1>2, <1>3 DEF Shown
<1>8. latest' \in [TopicIds -> OwnRecord]
  BY <1>1, <1>2
<1>9. due' \in BOOLEAN /\ unknown' = unknown /\ changes' \in Nat
  BY DEF Typed, CommitSilent, Persist
<1> QED
  BY <1>6, <1>7, <1>8, <1>9 DEF Typed

\* undo().
LEMMA UndoTyped ==
  ASSUME Typed, History(past, future), Undo
  PROVE  Typed'
<1>1. PICK S : past \in Seq(S) /\ future \in Seq(S)
  BY DEF History
<1> DEFINE T == S \cup {present}
           n == Len(past)
<1>2. past \in Seq(T) /\ future \in Seq(T) /\ present \in T /\ past # <<>>
  BY <1>1 DEF Undo
<1>3. /\ present' = PreserveSilentFields(past[n], present)
      /\ past' = SubSeq(past, 1, n - 1) /\ future' = <<present>> \o future
      /\ latest' = latest /\ due' = TRUE /\ unknown' = unknown /\ changes' = changes
  BY DEF Undo, Becomes, AfterUndo, Store, Persist
<1> HIDE DEF T
<1>4. n \in 1..n /\ DOMAIN past = 1..n
  BY <1>2
<1>5. WellFormed(present', unknown)
  <2>1. past[n] \in Shown /\ present \in Shown
    BY <1>4 DEF Shown, Range
  <2> QED
    BY <1>3, <2>1, PreservedWF DEF Typed
<1>6. Range(past') \subseteq Range(past)
  <2>1. DOMAIN past' = 1..(n - 1) /\ \A i \in 1..(n - 1) : i \in 1..n /\ past'[i] = past[i]
    BY <1>2, <1>3, <1>4
  <2> QED
    BY <1>4, <2>1 DEF Range
<1>7. Range(future') \subseteq {present} \cup Range(future)
  <2>1. <<present>> \in Seq(T) /\ Len(<<present>>) = 1 /\ <<present>>[1] = present
    BY <1>2
  <2>2. /\ DOMAIN future = 1..Len(future) /\ Len(future) \in Nat
        /\ DOMAIN future' = 1..(Len(future) + 1) /\ future'[1] = present
        /\ \A i \in 1..Len(future) : future'[i + 1] = future[i]
    BY <1>2, <1>3, <2>1
  <2>3. \A i \in 1..(Len(future) + 1) :
          i = 1 \/ (i - 1 \in 1..Len(future) /\ future'[i] = future[i - 1])
    BY <2>2
  <2> QED
    BY <2>2, <2>3 DEF Range
<1>8. \A e \in Shown' : WellFormed(e, unknown)
  BY <1>5, <1>6, <1>7 DEF Typed, Shown
<1> QED
  BY <1>3, <1>8 DEF Typed

\* redo().
LEMMA RedoTyped ==
  ASSUME Typed, History(past, future), Redo
  PROVE  Typed'
<1>1. PICK S : past \in Seq(S) /\ future \in Seq(S)
  BY DEF History
<1> DEFINE T == S \cup {present}
<1>2. past \in Seq(T) /\ future \in Seq(T) /\ present \in T /\ future # <<>>
  BY <1>1 DEF Redo
<1>3. /\ present' = PreserveSilentFields(future[1], present)
      /\ past' = Append(past, present) /\ future' = Tail(future)
      /\ latest' = latest /\ due' = TRUE /\ unknown' = unknown /\ changes' = changes
  BY <1>2 DEF Redo, Becomes, AfterRedo, Store, Persist
<1> HIDE DEF T
<1>4. 1 \in DOMAIN future
  BY <1>2
<1>5. WellFormed(present', unknown)
  <2>1. future[1] \in Shown /\ present \in Shown
    BY <1>4 DEF Shown, Range
  <2> QED
    BY <1>3, <2>1, PreservedWF DEF Typed
<1>6. Range(past') \subseteq {present} \cup Range(past)
  <2>1. /\ DOMAIN past = 1..Len(past) /\ Len(past) \in Nat
        /\ DOMAIN past' = 1..(Len(past) + 1) /\ past'[Len(past) + 1] = present
        /\ \A i \in 1..Len(past) : past'[i] = past[i]
    BY <1>2, <1>3
  <2>2. \A i \in 1..(Len(past) + 1) :
          i = Len(past) + 1 \/ (i \in 1..Len(past) /\ past'[i] = past[i])
    BY <2>1
  <2> QED
    BY <2>1, <2>2 DEF Range
<1>7. Range(future') \subseteq Range(future)
  <2>1. \A i \in DOMAIN future' : i + 1 \in DOMAIN future /\ future'[i] = future[i + 1]
    BY <1>2, <1>3
  <2> QED
    BY <2>1 DEF Range
<1>8. \A e \in Shown' : WellFormed(e, unknown)
  BY <1>5, <1>6, <1>7 DEF Typed, Shown
<1> QED
  BY <1>3, <1>8 DEF Typed

\* After an installation.
LEMMA FreshIsTyped ==
  ASSUME NEW d, NEW known, WellFormed(d, known), Plain(d)
  PROVE  OwnOf(d) \in [TopicIds -> OwnRecord]
<1>1. FirstOwn \in OwnRecord
  BY DEF FirstOwn, OwnRecord, OwnType, Settled, Plans
<1>2. \A t \in DOMAIN d.topics : Own(d.topics[t]) \in OwnRecord
  BY OwnIsRecord DEF Plain, OwnRecord
<1> QED
  BY <1>1, <1>2 DEF OwnOf

-----------------------------------------------------------------------------
(* The inductive invariant.                                                *)

\* What repo was last given, if it is not the stored document the session began
\* with, is a document that loads as it is.
HandedLoads == handed \in InitialDocs \/ (WellFormed(handed, unknown) /\ Plain(handed))

IInv ==
  /\ Typed /\ HandedLoads
  /\ Kept(present, past, future, latest) /\ LoadShowsTheScreen

\* The topics on the screen have what `latest` says, and no plan is to be
\* invented for them.
LEMMA PresentIsPlain ==
  ASSUME Typed, Kept(present, past, future, latest)
  PROVE  /\ \A t \in Topics : OwnNow(t) = latest[t]
         /\ Plain(present) /\ WellFormed(present, unknown)
<1>1. WellFormed(present, unknown)
  BY DEF Typed, Shown
<1>2. DOMAIN present.topics \subseteq TopicIds
  BY <1>1, Parts
<1>3. \A t \in DOMAIN present.topics : Own(present.topics[t]) = latest[t]
  BY <1>2 DEF Kept, NearestIsLatest, Has
<1>4. \A t \in DOMAIN present.topics : Settled(latest[t])
  BY <1>2 DEF Typed, OwnRecord
<1> QED
  BY <1>1, <1>3, <1>4 DEF Topics, OwnNow, Plain

\* The store as created or first hydrated.
LEMMA Initially == ASSUME Init PROVE IInv
<1>0. PICK raw \in InitialDocs : \E d \in Loads(raw) :
             /\ present = d /\ past = <<>> /\ future = <<>> /\ due = FALSE
             /\ handed = raw /\ latest = OwnOf(d) /\ unknown = {} /\ changes = 0
  BY DEF Init
<1>1. PICK d \in Loads(raw) :
             /\ present = d /\ past = <<>> /\ future = <<>> /\ due = FALSE
             /\ handed = raw /\ latest = OwnOf(d) /\ unknown = {} /\ changes = 0
  BY <1>0
<1>2. WellFormed(d, {}) /\ Plain(d) /\ Shape(d)
  BY InitialIsWellFormed, WellFormedShape
<1>3. Shown = {d}
  BY <1>1 DEF Shown, Range
<1>4. Typed
  BY <1>1, <1>2, <1>3, FreshIsTyped DEF Typed
<1>5. LoadShowsTheScreen /\ HandedLoads
  BY <1>1 DEF LoadShowsTheScreen, HandedLoads
<1> QED
  BY <1>1, <1>2, <1>4, <1>5, FreshIsKept DEF IInv

\* hydrate() again.
LEMMA HydrateKeeps ==
  ASSUME IInv, Hydrate
  PROVE  IInv'
<1>1. PICK raw :
        /\ \E d \in Loads(raw) :
             /\ present' = d /\ past' = <<>> /\ future' = <<>> /\ due' = due
             /\ handed' = raw /\ latest' = OwnOf(d)
        /\ \/ raw \in InitialDocs /\ unknown' = {} /\ changes' = 0
           \/ raw = handed /\ unknown' = unknown /\ changes' = changes
  BY Zenon DEF Hydrate, Install
<1>2. PICK d \in Loads(raw) :
             /\ present' = d /\ past' = <<>> /\ future' = <<>> /\ due' = due
             /\ handed' = raw /\ latest' = OwnOf(d)
  BY <1>1
<1>3. /\ WellFormed(d, unknown') /\ Plain(d)
      /\ raw \in InitialDocs \/ (WellFormed(raw, unknown') /\ Plain(raw))
  <2>1. CASE raw \in InitialDocs
    <3>1. WellFormed(d, {}) /\ Plain(d)
      BY <2>1, InitialIsWellFormed
    <3> QED
      BY <2>1, <3>1, MoreKnown
  <2>2. CASE raw \notin InitialDocs
    <3>1. raw = handed /\ unknown' = unknown
      BY <1>1, <2>2
    <3>2. WellFormed(raw, unknown') /\ Plain(raw)
      BY <2>2, <3>1 DEF IInv, HandedLoads
    <3>3. PICK g \in TagIds : d = Normalize(raw, g)
      BY DEF Loads
    <3>4. d = raw
      BY <3>2, <3>3, PlainLoads DEF WellFormed
    <3> QED
      BY <3>2, <3>4
  <2> QED
    BY <2>1, <2>2
<1>4. Shown' = {d}
  BY <1>2 DEF Shown, Range
<1>5. unknown' \subseteq TagIds /\ changes' \in Nat /\ due' \in BOOLEAN
  BY <1>1, <1>2 DEF IInv, Typed
<1>6. Typed'
  BY <1>2, <1>3, <1>4, <1>5, FreshIsTyped DEF Typed
<1>7. Kept(present, past, future, latest)'
  BY <1>2, <1>3, FreshIsKept, WellFormedShape
<1>8. LoadShowsTheScreen' /\ HandedLoads'
  BY <1>2, <1>3 DEF LoadShowsTheScreen, HandedLoads, Loads
<1> QED
  BY <1>6, <1>7, <1>8 DEF IInv

\* Every step keeps the invariant.
LEMMA Inductive == ASSUME IInv, [Next]_vars PROVE IInv'
<1>0. /\ Typed /\ Kept(present, past, future, latest) /\ LoadShowsTheScreen /\ HandedLoads
      /\ History(past, future) /\ due \in BOOLEAN
      /\ \A t \in Topics : OwnNow(t) = latest[t]
      /\ Plain(present) /\ WellFormed(present, unknown)
  BY PresentIsPlain DEF IInv, Kept, Typed
<1> DEFINE Edited == /\ Typed' /\ Kept(present, past, future, latest)'
                     /\ due' = TRUE /\ handed' = handed /\ unknown \subseteq unknown'
<1>1. ASSUME Edited PROVE IInv'
  <2>1. HandedLoads'
    BY <1>0, <1>1, MoreKnown DEF HandedLoads
  <2> QED
    BY <1>1, <2>1 DEF IInv, LoadShowsTheScreen
<1>2. CASE \/ SubjectEdits \/ ChapterEdits \/ Duplicate \/ NewTopic \/ TopicEdits
           \/ TagEdits \/ ToggleTag
  <2>1. PICK d, made : Committed(d, made)
    BY <1>0, <1>2, StructuralEdits
  <2>2. Shape(d) /\ DOMAIN latest' = TopicIds
    BY <2>1, WellFormedShape DEF Committed
  <2>3. Kept(present, past, future, latest)'
    BY <1>0, <2>1, <2>2, CommitKeeps DEF Committed
  <2>4. Typed' /\ due' = TRUE /\ handed' = handed /\ unknown \subseteq unknown'
    BY <1>0, <2>1, CommitTyped DEF Committed, Commit, Persist
  <2> QED
    BY <1>1, <2>3, <2>4
<1>3. CASE SilentEdits
  <2>1. PICK own : /\ CommitSilent(own) /\ DOMAIN own \subseteq Topics
                   /\ \A t \in DOMAIN own : own[t] \in OwnRecord
    BY <1>0, <1>3, SilentEditsCommit
  <2>2. \A t \in DOMAIN own : Own(own[t]) = own[t]
    BY <2>1 DEF Own, OwnRecord, OwnType
  <2>3. Kept(present, past, future, latest)'
    BY <1>0, <2>1, <2>2, SilentKeeps
  <2>4. Typed' /\ due' = TRUE /\ handed' = handed /\ unknown' = unknown
    BY <1>0, <2>1, SilentTyped DEF CommitSilent, Persist
  <2> QED
    BY <1>1, <2>3, <2>4
<1>4. CASE Undo
  <2>1. due' = TRUE /\ handed' = handed /\ unknown' = unknown
    BY <1>4 DEF Undo, Becomes, Persist
  <2> QED
    BY <1>0, <1>1, <1>4, <2>1, UndoKeeps, UndoTyped
<1>5. CASE Redo
  <2>1. due' = TRUE /\ handed' = handed /\ unknown' = unknown
    BY <1>5 DEF Redo, Becomes, Persist
  <2> QED
    BY <1>0, <1>1, <1>5, <2>1, RedoKeeps, RedoTyped
<1>6. CASE Hydrate
  BY <1>6, HydrateKeeps
<1>7. CASE Snapshot
  <2>1. /\ present' = present /\ past' = past /\ future' = future /\ latest' = latest
        /\ handed' = present /\ due' = FALSE /\ changes' = changes /\ unknown' = unknown
    BY <1>7 DEF Snapshot
  <2>2. Typed' /\ HandedLoads'
    BY <1>0, <2>1 DEF Typed, Shown, HandedLoads
  <2>3. present \in Loads(present)
    <3>1. PICK g \in TagIds : TRUE
      BY TagsAssumption
    <3>2. Normalize(present, g) = present
      BY <1>0, PlainLoads DEF WellFormed
    <3> QED
      BY <3>2 DEF Loads
  <2> QED
    BY <1>0, <2>1, <2>2, <2>3 DEF IInv, LoadShowsTheScreen
<1>8. CASE UNCHANGED vars
  BY <1>0, <1>8 DEF vars, IInv, Typed, Shown, LoadShowsTheScreen, HandedLoads
<1> QED
  BY <1>2, <1>3, <1>4, <1>5, <1>6, <1>7, <1>8 DEF Next

-----------------------------------------------------------------------------
(* Undo and redo.                                                          *)

\* Putting a document's own silent fields back changes nothing.
LEMMA PreservedBack ==
  ASSUME NEW c, NEW e, Shape(c), Shape(e),
         \A t \in DOMAIN c.topics : Has(e, t) => Own(e.topics[t]) = Own(c.topics[t])
  PROVE  PreserveSilentFields(c, e) = c
<1>1. /\ IsFn(c) /\ "topics" \in DOMAIN c /\ IsFn(c.topics)
      /\ \A t \in DOMAIN c.topics : TopicShape(c.topics[t])
  BY DEF Shape
<1>2. ASSUME NEW x, TopicShape(x) PROVE WithOwn(x, Own(x)) = x
  BY <1>2 DEF WithOwn, Own, TopicShape, IsFn
<1>3. \A t \in DOMAIN c.topics :
        (IF t \in DOMAIN e.topics THEN WithOwn(c.topics[t], Own(e.topics[t])) ELSE c.topics[t])
          = c.topics[t]
  BY <1>1, <1>2 DEF Has
<1>4. [t \in DOMAIN c.topics |->
         IF t \in DOMAIN e.topics THEN WithOwn(c.topics[t], Own(e.topics[t])) ELSE c.topics[t]]
      = c.topics
  BY <1>1, <1>3 DEF IsFn
<1>5. PreserveSilentFields(c, e) = [c EXCEPT !.topics = c.topics]
  BY <1>4 DEF PreserveSilentFields
<1> QED
  BY <1>1, <1>5 DEF IsFn

\* It never changes the structure.
LEMMA PreservedStructure ==
  ASSUME NEW r, NEW c, Shape(r), Shape(c)
  PROVE  Structure(PreserveSilentFields(r, c)) = Structure(r)
<1> DEFINE none == [notes |-> 0, revisions |-> 0, plannedAt |-> NoPlan]
           e == PreserveSilentFields(r, c)
<1>1. /\ IsFn(r) /\ "topics" \in DOMAIN r
      /\ \A t \in DOMAIN r.topics : TopicShape(r.topics[t])
  BY DEF Shape
<1>2. ASSUME NEW x, NEW o, NEW z, TopicShape(x)
      PROVE  WithOwn(WithOwn(x, o), z) = WithOwn(x, z)
  BY <1>2 DEF WithOwn, TopicShape, IsFn
<1>3. e = [r EXCEPT !.topics = e.topics]
      /\ e.topics = [t \in DOMAIN r.topics |->
                       IF t \in DOMAIN c.topics
                       THEN WithOwn(r.topics[t], Own(c.topics[t])) ELSE r.topics[t]]
  BY <1>1 DEF PreserveSilentFields
<1> HIDE DEF e, none
<1>4. \A t \in DOMAIN r.topics : WithOwn(e.topics[t], none) = WithOwn(r.topics[t], none)
  BY <1>1, <1>2, <1>3
<1>5. [t \in DOMAIN e.topics |-> WithOwn(e.topics[t], none)]
        = [t \in DOMAIN r.topics |-> WithOwn(r.topics[t], none)]
  BY <1>3, <1>4
<1>6. \A z : [e EXCEPT !.topics = z] = [r EXCEPT !.topics = z]
  BY <1>1, <1>3
<1> QED
  BY <1>5, <1>6 DEF Structure, e, none

\* Sequences with the same items are the same.
LEMMA SameList ==
  ASSUME NEW S, NEW s \in Seq(S), NEW t \in Seq(S),
         Len(s) = Len(t), \A i \in 1..Len(s) : s[i] = t[i]
  PROVE  s = t
  OBVIOUS

\* undo then redo, and redo then undo, from any state of the invariant.
LEMMA RoundTrip ==
  ASSUME Kept(present, past, future, latest)
  PROVE  UndoRedoRoundTrip
<1>1. PICK S : past \in Seq(S) /\ future \in Seq(S)
  BY DEF Kept, History
<1> DEFINE T == S \cup {present}
           n == Len(past)
           m == Len(future)
<1>2. /\ past \in Seq(T) /\ future \in Seq(T) /\ n \in Nat /\ m \in Nat
      /\ DOMAIN past = 1..n /\ DOMAIN future = 1..m
      /\ Shape(present) /\ (\A i \in 1..n : Shape(past[i])) /\ \A i \in 1..m : Shape(future[i])
  <2>1. past \in Seq(T) /\ future \in Seq(T)
    BY <1>1
  <2> QED
    BY <2>1 DEF Kept, Shapes
<1>3. ASSUME past # <<>> PROVE SameStore(AfterRedo(AfterUndo(Store)), Store)
  <2> DEFINE u == AfterUndo(Store)
             restored == PreserveSilentFields(past[n], present)
             r == AfterRedo(u)
  <2>1. n \in 1..n
    BY <1>2, <1>3
  <2>2. u = [present |-> restored, past |-> SubSeq(past, 1, n - 1), future |-> <<present>> \o future]
    BY DEF AfterUndo, Store
  <2>3. Head(<<present>> \o future) = present /\ Tail(<<present>> \o future) = future
    BY <1>2
  <2>4. r = [present |-> PreserveSilentFields(present, restored),
             past |-> Append(SubSeq(past, 1, n - 1), restored), future |-> future]
    <3>1. \A p, q, f : AfterRedo([present |-> p, past |-> q, future |-> f])
            = [present |-> PreserveSilentFields(Head(f), p), past |-> Append(q, p),
               future |-> Tail(f)]
      BY DEF AfterRedo
    <3> HIDE DEF u, restored, n
    <3> QED
      BY <2>2, <2>3, <3>1, Zenon
  <2>5. Shape(restored) /\ \A t \in DOMAIN present.topics :
           Has(restored, t) => Own(restored.topics[t]) = Own(present.topics[t])
    BY <1>2, <2>1, Preserved DEF Has
  <2>6. PreserveSilentFields(present, restored) = present
    BY <1>2, <2>5, PreservedBack
  <2>7. Structure(restored) = Structure(past[n])
    BY <1>2, <2>1, PreservedStructure
  <2> HIDE DEF restored, n
  <2>8. /\ Len(Append(SubSeq(past, 1, n - 1), restored)) = n
        /\ DOMAIN Append(SubSeq(past, 1, n - 1), restored) = 1..n
        /\ \A i \in 1..n : Structure(Append(SubSeq(past, 1, n - 1), restored)[i]) = Structure(past[i])
    <3>1. PICK list : list = SubSeq(past, 1, n - 1)
      OBVIOUS
    <3>2. list \in Seq(T) /\ Len(list) = n - 1 /\ \A i \in 1..(n - 1) : list[i] = past[i]
      BY <1>2, <2>1, <3>1 DEF n
    <3>3. /\ Len(Append(list, restored)) = n /\ DOMAIN Append(list, restored) = 1..n
          /\ Append(list, restored)[n] = restored
          /\ \A i \in 1..(n - 1) : Append(list, restored)[i] = past[i]
      BY <1>2, <2>1, <3>2
    <3>4. \A i \in 1..n : i = n \/ i \in 1..(n - 1)
      BY <1>2
    <3> QED
      BY <2>7, <3>1, <3>3, <3>4
  <2> HIDE DEF r, u
  <2>9. /\ r.present = present /\ r.past = Append(SubSeq(past, 1, n - 1), restored)
        /\ r.future = future
    BY <2>4, <2>6
  <2>10. Store.present = present /\ Store.past = past /\ Store.future = future
    BY DEF Store
  <2>11. SameStore(r, Store)
    BY <1>2, <2>8, <2>9, <2>10 DEF SameStore, n
  <2> QED
    BY <2>11 DEF r, u
<1>4. ASSUME future # <<>> PROVE SameStore(AfterUndo(AfterRedo(Store)), Store)
  <2> DEFINE r == AfterRedo(Store)
             restored == PreserveSilentFields(future[1], present)
             u == AfterUndo(r)
             longer == Append(past, present)
  <2>1. 1 \in 1..m /\ Head(future) = future[1]
    BY <1>2, <1>4
  <2>2. r = [present |-> restored, past |-> longer, future |-> Tail(future)]
    BY <2>1 DEF AfterRedo, Store
  <2>3. Len(longer) = n + 1 /\ longer[n + 1] = present /\ SubSeq(longer, 1, n) = past
    <3>1. Len(longer) = n + 1 /\ longer[n + 1] = present /\ longer \in Seq(T)
          /\ \A i \in 1..n : longer[i] = past[i]
      BY <1>2
    <3>2. SubSeq(longer, 1, n) \in Seq(T) /\ Len(SubSeq(longer, 1, n)) = n
          /\ \A i \in 1..n : SubSeq(longer, 1, n)[i] = longer[i]
      BY <1>2, <3>1
    <3> HIDE DEF longer
    <3>3. SubSeq(longer, 1, n) = past
      BY <1>2, <3>1, <3>2, SameList
    <3> QED
      BY <3>1, <3>3
  <2> HIDE DEF longer
  <2>4. u = [present |-> PreserveSilentFields(present, restored), past |-> past,
             future |-> <<restored>> \o Tail(future)]
    <3>1. \A p, q, f : AfterUndo([present |-> p, past |-> q, future |-> f])
            = [present |-> PreserveSilentFields(q[Len(q)], p),
               past |-> SubSeq(q, 1, Len(q) - 1), future |-> <<p>> \o f]
      BY DEF AfterUndo
    <3> HIDE DEF r, restored, n
    <3>2. u = [present |-> PreserveSilentFields(longer[Len(longer)], restored),
               past |-> SubSeq(longer, 1, Len(longer) - 1),
               future |-> <<restored>> \o Tail(future)]
      BY <2>2, <3>1, Zenon
    <3>3. Len(longer) - 1 = n /\ longer[Len(longer)] = present
      BY <1>2, <2>3
    <3> QED
      BY <2>3, <3>2, <3>3, Zenon
  <2>5. Shape(restored) /\ \A t \in DOMAIN present.topics :
           Has(restored, t) => Own(restored.topics[t]) = Own(present.topics[t])
    BY <1>2, <2>1, Preserved DEF Has
  <2>6. PreserveSilentFields(present, restored) = present
    BY <1>2, <2>5, PreservedBack
  <2>7. Structure(restored) = Structure(future[1])
    BY <1>2, <2>1, PreservedStructure
  <2> HIDE DEF restored
  <2>8. /\ Len(<<restored>> \o Tail(future)) = m
        /\ DOMAIN (<<restored>> \o Tail(future)) = 1..m
        /\ \A i \in 1..m : Structure((<<restored>> \o Tail(future))[i]) = Structure(future[i])
    <3>1. PICK list : list = Tail(future)
      OBVIOUS
    <3>2. list \in Seq(T) /\ Len(list) = m - 1 /\ \A i \in 1..(m - 1) : list[i] = future[i + 1]
      BY <1>2, <2>1, <3>1
    <3> HIDE DEF m
    <3>3. /\ Len(<<restored>> \o list) = m /\ DOMAIN (<<restored>> \o list) = 1..m
          /\ (<<restored>> \o list)[1] = restored
          /\ \A i \in 2..m : (<<restored>> \o list)[i] = list[i - 1]
      <4>1. <<restored>> \in Seq({restored}) /\ Len(<<restored>>) = 1 /\ <<restored>>[1] = restored
        OBVIOUS
      <4> QED
        BY <1>2, <2>1, <3>2, <4>1
    <3>4. \A i \in 1..m : i = 1 \/ (i \in 2..m /\ i - 1 \in 1..(m - 1))
      BY <1>2
    <3>5. \A i \in 2..m : list[i - 1] = future[i]
      BY <1>2, <3>2
    <3> QED
      BY <2>7, <3>1, <3>3, <3>4, <3>5
  <2> HIDE DEF r, u
  <2>9. /\ u.present = present /\ u.past = past
        /\ u.future = <<restored>> \o Tail(future)
    BY <2>4, <2>6
  <2>10. Store.present = present /\ Store.past = past /\ Store.future = future
    BY DEF Store
  <2>11. SameStore(u, Store)
    BY <1>2, <2>8, <2>9, <2>10 DEF SameStore
  <2> QED
    BY <2>11 DEF r, u
<1> QED
  BY <1>3, <1>4 DEF UndoRedoRoundTrip

-----------------------------------------------------------------------------
(* What the store promises.                                                *)

\* The invariant holds throughout, whatever edits, undo, redo, snapshots and
\* hydrations are mixed.
THEOREM Invariance == Spec => []IInv
<1>1. Init => IInv
  BY Initially
<1>2. IInv /\ [Next]_vars => IInv'
  BY Inductive
<1> QED
  BY <1>1, <1>2, PTL DEF Spec

\* Every document on the screen or in the history has the shape AppData says
\* (packages/shared/src/types.ts).
THEOREM TypeCorrect == Spec => []TypeOK
<1>1. IInv => TypeOK
  BY DEF IInv, Typed, HandedLoads, WellFormed, OwnRecord, OwnType, TypeOK
<1> QED
  BY <1>1, Invariance, PTL

\* The two directions of the hierarchy agree in every document undo or redo can
\* bring back (useStore.ts:111-375), for any number of subjects, chapters and
\* topics and however long the lists are.
THEOREM LinkedHierarchy == Spec => []HierarchyLinked
<1>1. IInv => HierarchyLinked
  BY WellFormedIs DEF IInv, Typed, HierarchyLinked
<1> QED
  BY <1>1, Invariance, PTL

\* A tag that does not exist is on a topic of any of those documents only if it
\* was toggled by hand when it did not exist (toggleTopicTag, useStore.ts:447-454):
\* a deleted tag is on none (deleteTag, useStore.ts:436-446), and undo brings a tag
\* back with the topics that carried it.
THEOREM TagsExist == Spec => []TagsNeverDangle
<1>1. IInv => TagsNeverDangle
  BY WellFormedIs DEF IInv, Typed, TagsNeverDangle
<1> QED
  BY <1>1, Invariance, PTL

\* redo() appends to the past without a bound of its own, yet past and future
\* together never exceed MAX_HISTORY (history.ts:12-27).
THEOREM HistoryIsBounded == Spec => []HistoryBounded
<1>1. IInv => HistoryBounded
  BY DEF IInv, Kept, History, HistoryBounded
<1> QED
  BY <1>1, Invariance, PTL

\* "Undo reverts structure, never typing" (silentFields.ts:3-5): a topic on the
\* screen has the notes, the revision history and the plan it was last given,
\* also when it was deleted and restored in between.
THEOREM TypingIsKept == Spec => []TypingNeverReverted
<1>1. IInv => TypingNeverReverted
  BY DEF IInv, Kept, Shapes, Shape, NearestIsLatest, Has, TypingNeverReverted
<1> QED
  BY <1>1, Invariance, PTL

\* undo() and redo() are each other's inverse (history.ts:17-27,
\* useStore.ts:456-467).
THEOREM UndoIsRedosInverse == Spec => []UndoRedoRoundTrip
<1>1. IInv => UndoRedoRoundTrip
  BY RoundTrip DEF IInv
<1> QED
  BY <1>1, Invariance, PTL

\* With no save due, a load of what repo was last given shows what is on the
\* screen: every change is handed on (persist(), useStore.ts:79-87), and
\* normalizeData (normalize.ts:9-34) finds nothing to invent in a document that
\* edits, undo and redo have made.
THEOREM LoadsShowTheScreen == Spec => []LoadShowsTheScreen
<1>1. IInv => LoadShowsTheScreen
  BY DEF IInv
<1> QED
  BY <1>1, Invariance, PTL
=============================================================================
