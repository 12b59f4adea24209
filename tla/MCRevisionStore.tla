-------------------------- MODULE MCRevisionStore ---------------------------
(***************************************************************************)
(* RevisionStore for TLC.  Either the store is still empty, or it loads    *)
(* two chapters under one subject, a topic in each, stored before there    *)
(* were tags and plans, one topic revised already.  There is room for one  *)
(* more of each kind.  No stored document names a tag: their ids are       *)
(* symmetric.                                                              *)
(***************************************************************************)
EXTENDS RevisionStore, TLC

CONSTANTS s1, s2, c1, c2, c3, t1, t2, t3, g1, g2, x1

Legacy ==
  [subjects |-> s1 :> [chapterIds |-> <<c1, c2>>, details |-> x1],
   chapters |-> c1 :> [subjectId |-> s1, topicIds |-> <<t1>>, details |-> x1]
             @@ c2 :> [subjectId |-> s1, topicIds |-> <<t2>>, details |-> x1],
   topics |-> t1 :> [chapterId |-> c1, tagIds |-> {}, details |-> x1,
                     notes |-> 0, revisions |-> 1, plannedAt |-> Absent]
           @@ t2 :> [chapterId |-> c2, tagIds |-> {}, details |-> x1,
                     notes |-> 0, revisions |-> 0, plannedAt |-> Absent],
   subjectOrder |-> <<s1>>]

\* The store before its first hydrate().
EmptyStore ==
  [subjects |-> <<>>, chapters |-> <<>>, topics |-> <<>>, tags |-> <<>>,
   subjectOrder |-> <<>>, tagOrder |-> <<>>]

MCInitialDocs == {Legacy, EmptyStore}

TagSymmetry == Permutations(TagIds)
=============================================================================
