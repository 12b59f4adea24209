--------------------------- MODULE MCDocumentSync ---------------------------
(* DocumentSync for TLC: two users of one tab, each with or without a stored *)
(* document (version 1), two logins, one reload, one edit, one late write. *)
(* Users are alike, and no property is temporal: symmetry is sound.          *)
EXTENDS DocumentSync, TLC

UsersAlike == Permutations(Users)
=============================================================================
