--------------------------- MODULE MCAttachments ----------------------------
(* Attachments for TLC: two blobs, two tabs.  Blobs, tabs and slots are      *)
(* alike.                                                                    *)
EXTENDS Attachments, TLC

AllAlike == Permutations(Blobs) \cup Permutations(Tabs) \cup Permutations(Uploads)
              \cup Permutations(Sweeps)
=============================================================================
