---------------------------- MODULE MCSaveQueue -----------------------------
(* SaveQueue for TLC.  Four versions and one hydrate() are enough for a save *)
(* in flight, its follow-up, a window that opens meanwhile, a seed saved past *)
(* the queue, and a change after its alarm.                                  *)
EXTENDS SaveQueue
=============================================================================
