---------------------------- MODULE MCStatistics ----------------------------
(* Statistics for TLC: days of two ticks, zones east and west of UTC, and   *)
(* for what is stored two topics of one chapter, or for the views, which no *)
(* transaction touches, three topics in chapters of two and of one.  Slots  *)
(* are alike, and so are the topics of a chapter.                           *)
EXTENDS Cohort, TLC

OneChapter == {Topics}
TwoAndOne == LET t == CHOOSE u \in Topics : TRUE IN {{t}, Topics \ {t}}
EastAndWest == {-1, 1}
East == {1}
LongAgo == {0}
AllAlike ==
  {p \in Permutations(Topics) : \A c \in Chapters : {p[t] : t \in c} \in Chapters}
    \cup Permutations(Txs)
=============================================================================
