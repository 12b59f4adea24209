------------------------------ MODULE MCAiQuota -----------------------------
(* AiQuota for TLC: two panels of one student.  Panels and slots are alike. *)
EXTENDS AiQuota, TLC

OnlyOwner == [p \in Panels |-> CHOOSE u \in Users : TRUE]
AllAlike == Permutations(Panels) \cup Permutations(Requests)
=============================================================================
