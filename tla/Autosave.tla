------------------------------ MODULE Autosave ------------------------------
(***************************************************************************)
(* What the browser's autosave promises its user, without timers, requests *)
(* or a server.  The user changes a draft; now and then some version of it *)
(* becomes the stored document; an indicator tells how the draft stands.   *)
(* When the user signs in, the stored document or the seed takes the place *)
(* of the draft.  Versions are numbered as they come to be.                *)
(*                                                                         *)
(* Writes the page waits for reach the store in the order of their         *)
(* versions.  Others - a write that was reported as failed and is executed *)
(* after all, a seed - put any version there: `stored` says of the         *)
(* document whether it was put there that way.                             *)
(***************************************************************************)
EXTENDS Naturals

VARIABLES draft,      \* the version the user sees
          last,       \* the highest version
          stored,     \* [version, stray]: the stored document
          displaced,  \* the draft is not what was saved or being saved when it
                      \* was installed, and the user has not changed it since
          told        \* what the indicator says about the draft

avars == <<draft, last, stored, displaced, told>>

Told == {"idle", "saving", "saved", "error"}

AInit == /\ draft = 0 /\ last \in {0, 1}
         /\ stored = [version |-> last, stray |-> FALSE]
         /\ displaced = TRUE /\ told = "idle"

\* The user changes the document: whatever was said of it no longer counts.
Change == /\ last' = last + 1 /\ draft' = last'
          /\ displaced' = FALSE /\ told' = "saving"
          /\ UNCHANGED stored

\* The stored document is loaded, or another takes the place of the draft.
Fetch == /\ draft' = stored.version /\ displaced' = FALSE
         /\ UNCHANGED <<last, stored, told>>
Replace == /\ last' = last + 1 /\ draft' = last'
           /\ displaced' \in BOOLEAN
           /\ UNCHANGED <<stored, told>>

\* A write in progress is executed: never with an older version than before.
Store == /\ \E v \in 0..last :
              /\ ~stored.stray => v >= stored.version
              /\ stored' = [version |-> v, stray |-> FALSE]
         /\ UNCHANGED <<draft, last, displaced, told>>

StoreStray == /\ last' \in {last, last + 1}
              /\ \E v \in 0..last' : stored' = [version |-> v, stray |-> TRUE]
              /\ UNCHANGED <<draft, displaced, told>>

\* The number of a seed that is still to be stored.
Number == /\ last' = last + 1
          /\ UNCHANGED <<draft, stored, displaced, told>>

\* "saved" is said only of a draft that the last write in order has stored,
\* or that has just been displaced.
TellSaved == /\ told \in {"saving", "error"}
             /\ stored.stray \/ stored.version = draft \/ displaced
             /\ told' = "saved"
             /\ UNCHANGED <<draft, last, stored, displaced>>

TellError == /\ told' = "error"
             /\ UNCHANGED <<draft, last, stored, displaced>>

ANext == \/ Change \/ Fetch \/ Replace \/ Store \/ StoreStray \/ Number
         \/ TellSaved \/ TellError

ASpec == AInit /\ [][ANext]_avars
=============================================================================
