----------------------------- MODULE MCCoaching -----------------------------
(* Coaching for TLC: two people, each the coach or the admin, two groups.    *)
(* Slots of requests are alike.                                              *)
EXTENDS Coaching, TLC

SlotsAlike == Permutations(Slots) \cup Permutations(Asks)
=============================================================================
