---------------------------- MODULE Attachments -----------------------------
(***************************************************************************)
(* Attachments: uploads, the blobs they leave on the files service's disk  *)
(* (services/files-service/src), and the sweep that removes the blobs the  *)
(* stored document does not refer to, run whenever a tab has loaded.  The  *)
(* tabs are those of one user: AttachmentsPanel, MarkdownEditor and the    *)
(* topic page of the frontend.                                             *)
(*                                                                         *)
(* A document is the set of the blobs it refers to, and a topic's notes    *)
(* are the set of what has been typed or inserted.  How a tab's document   *)
(* gets to the content service is modules SaveQueue and DocumentSync;      *)
(* here it gets there at any time.                                         *)
(***************************************************************************)
EXTENDS Naturals, FiniteSets

CONSTANTS
  Blobs, Tabs,
  Uploads, Sweeps,   \* slots: uploads and sweeps under way
  None,
  Grace,             \* GC_GRACE_MS in ticks
  SweepTime,         \* from the look at the document to the sweep: PROXY_TIMEOUT_MS
  MaxTime, MaxEvents   \* bounds of the model

ASSUME AttachmentsAssumption ==
  /\ None \notin Blobs
  /\ {Grace, SweepTime, MaxTime, MaxEvents} \subseteq Nat

VARIABLES
  disk,      \* [blob -> its two files, and the time of the first]
  stored,    \* the document of the content service
  tabs,
  uploads, sweeps,
  now,
  events,    \* what the user has done so far, for the bound
  outAt      \* history: when a blob was last out of the stored document

vars == <<disk, stored, tabs, uploads, sweeps, now, events, outAt>>

Absent == [bytes |-> FALSE, meta |-> FALSE, mtime |-> 0, used |-> FALSE]
NoUpload == [pc |-> "idle", by |-> "panel", tab |-> None, blob |-> None, left |-> 0,
             inserted |-> {}, base |-> {}, heard |-> TRUE]
NoSweep == [pc |-> "idle", refs |-> {}, readAt |-> 0, at |-> 0, ids |-> {}, blob |-> None]
Tab(doc) == [doc |-> doc, before |-> doc, notes |-> {}]

Init ==
  /\ disk = [b \in Blobs |-> Absent]
  /\ stored = {}
  /\ tabs = [t \in Tabs |-> Tab({})]
  /\ uploads = [u \in Uploads |-> NoUpload]
  /\ sweeps = [s \in Sweeps |-> NoSweep]
  /\ now = 0 /\ events = 0
  /\ outAt = [b \in Blobs |-> 0]

\* readBlob: both files, or nothing.
Readable(b) == disk[b].bytes /\ disk[b].meta
\* GET /:id, of a user with a session or a link that is good.
Get(b) == IF Readable(b) THEN 200 ELSE 404

-----------------------------------------------------------------------------
(* A tab.                                                                  *)

\* commit.  Of the history, which is module RevisionStore's, the last step is here:
\* undo and redo go to and fro.
Commit(t, doc) == [tabs[t] EXCEPT !.doc = doc, !.before = tabs[t].doc]

Event == events < MaxEvents /\ events' = events + 1

Remove(t, b) ==
  /\ Event
  /\ b \in tabs[t].doc
  /\ tabs' = [tabs EXCEPT ![t] = Commit(t, @.doc \ {b})]
  /\ UNCHANGED <<disk, stored, uploads, sweeps, now, outAt>>

UndoOrRedo(t) ==
  /\ Event
  /\ tabs[t].before # tabs[t].doc
  /\ tabs' = [tabs EXCEPT ![t] = Commit(t, @.before)]
  /\ UNCHANGED <<disk, stored, uploads, sweeps, now, outAt>>

Type(t) ==
  /\ Event
  /\ tabs' = [tabs EXCEPT ![t].notes = @ \cup {events + 1}]
  /\ UNCHANGED <<disk, stored, uploads, sweeps, now, outAt>>

\* A document reaches the content service; what it lacks is out from now on.
Store(doc) ==
  /\ stored' = doc
  /\ outAt' = [b \in Blobs |-> IF b \in stored /\ b \in doc THEN outAt[b] ELSE now]
Save(t) ==
  /\ tabs[t].doc # stored
  /\ Store(tabs[t].doc)
  /\ UNCHANGED <<disk, tabs, uploads, sweeps, now, events>>

\* A tab is loaded anew: from what is stored, or, when that fails, from a seed
\* without attachments.  Either way it asks for a sweep.  The page that was there
\* hears no more of its uploads.
Load(t, doc) ==
  /\ Event
  /\ doc \in {stored, {}}
  /\ tabs' = [tabs EXCEPT ![t] = Tab(doc)]
  /\ uploads' = [u \in Uploads |-> IF uploads[u].tab = t THEN [uploads[u] EXCEPT !.heard = FALSE]
                                                         ELSE uploads[u]]
  /\ \E s \in Sweeps :
       sweeps[s].pc = "idle" /\ sweeps' = [sweeps EXCEPT ![s].pc = "asked"]
  /\ UNCHANGED <<disk, stored, now, outAt>>

-----------------------------------------------------------------------------
(* An upload: the panel's loop over the chosen files, the editor's image.  *)

Unused == {b \in Blobs : ~disk[b].used}

\* The files are posted one after the other.
Post(u, upload) ==
  \E b \in Unused :
    /\ uploads' = [uploads EXCEPT ![u] = [upload EXCEPT !.pc = "bytes", !.blob = b]]
    /\ disk' = [disk EXCEPT ![b].used = TRUE]

Upload(u, t, by, files) ==
  /\ uploads[u].pc = "idle"
  /\ Event
  /\ by = "editor" => files = 1
  /\ Post(u, [NoUpload EXCEPT !.by = by, !.tab = t, !.left = files, !.base = tabs[t].notes])
  /\ UNCHANGED <<stored, tabs, sweeps, now, outAt>>

\* writeBlob: the bytes, then the metadata.
WriteBytes(u) ==
  /\ uploads[u].pc = "bytes"
  /\ disk' = [disk EXCEPT ![uploads[u].blob].bytes = TRUE, ![uploads[u].blob].mtime = now]
  /\ uploads' = [uploads EXCEPT ![u].pc = "meta"]
  /\ UNCHANGED <<stored, tabs, sweeps, now, events, outAt>>
WriteMeta(u) ==
  /\ uploads[u].pc = "meta"
  /\ disk' = [disk EXCEPT ![uploads[u].blob].meta = TRUE]
  /\ uploads' = [uploads EXCEPT ![u] = IF @.heard THEN [@ EXCEPT !.pc = "answer"] ELSE NoUpload]
  /\ UNCHANGED <<stored, tabs, sweeps, now, events, outAt>>

\* Mutant: the panel inserts into the notes its page was rendered with.
InsertedStale(upload, notes) == {upload.base \cup upload.inserted}
\* insertMarkdown asks the store for the notes of now; the editor's block() has the
\* text of the rendering whose button was clicked, and in preview no place for it.
Inserted(upload, notes) ==
  IF upload.by = "editor" THEN {upload.base \cup upload.inserted, notes}
                          ELSE {notes \cup upload.inserted}

\* Mutant: the loop goes one file too far.
AllPostedLate(upload) == upload.left = 1
AllPosted(upload) == upload.left = 0

\* The attachment is added; then the next file, or the text is inserted.
UploadAnswered(u) ==
  LET t == uploads[u].tab
      done == [uploads[u] EXCEPT !.inserted = @ \cup {uploads[u].blob}, !.left = @ - 1]
      added == Commit(t, tabs[t].doc \cup {uploads[u].blob}) IN
  /\ uploads[u].pc = "answer" /\ uploads[u].heard
  /\ IF AllPosted(done)
     THEN /\ \E notes \in Inserted(done, added.notes) :
               tabs' = [tabs EXCEPT ![t] = [added EXCEPT !.notes = notes]]
          /\ uploads' = [uploads EXCEPT ![u] = NoUpload]
          /\ UNCHANGED disk
     ELSE /\ tabs' = [tabs EXCEPT ![t] = added]
          /\ Post(u, done)
  /\ UNCHANGED <<stored, sweeps, now, events, outAt>>

\* Refused, timed out, or the page is gone: "Upload failed", the files that came
\* before stay attached but get no text, and the service goes on.
UploadGivenUp(u) ==
  /\ uploads[u].pc # "idle"
  /\ uploads' = [uploads EXCEPT ![u] = IF @.pc = "answer" THEN NoUpload
                                                          ELSE [@ EXCEPT !.heard = FALSE]]
  /\ UNCHANGED <<disk, stored, tabs, sweeps, now, events, outAt>>

-----------------------------------------------------------------------------
(* POST /api/files/gc.                                                     *)

\* The frontend's route reads the stored document.
ReadReferences(s) ==
  /\ sweeps[s].pc = "asked"
  /\ sweeps' = [sweeps EXCEPT ![s] = [NoSweep EXCEPT !.pc = "posted", !.refs = stored,
                                                     !.readAt = now]]
  /\ UNCHANGED <<disk, stored, tabs, uploads, now, events, outAt>>

\* sweepUnreferenced begins: its time, the directory's list.
ListDirectory(s) ==
  /\ sweeps[s].pc = "posted"
  /\ sweeps' = [sweeps EXCEPT ![s].pc = "sweeping", ![s].at = now, ![s].readAt = 0,
                              ![s].ids = {b \in Blobs : disk[b].bytes}]
  /\ UNCHANGED <<disk, stored, tabs, uploads, now, events, outAt>>

\* Mutant: without the time of grace.
UnreferencedNow(sweep, b) == b \notin sweep.refs /\ disk[b].bytes
\* Unreferenced, still there for stat(), and old enough.
Doomed(sweep, b) ==
  /\ b \notin sweep.refs
  /\ disk[b].bytes /\ sweep.at >= disk[b].mtime + Grace

\* One entry of the list: deleteBlob removes the bytes first.
Examine(s, b) ==
  /\ sweeps[s].pc = "sweeping" /\ b \in sweeps[s].ids
  /\ LET rest == [sweeps[s] EXCEPT !.ids = @ \ {b}] IN
     IF Doomed(sweeps[s], b)
     THEN /\ disk' = [disk EXCEPT ![b].bytes = FALSE]
          /\ sweeps' = [sweeps EXCEPT ![s] = [rest EXCEPT !.pc = "unlink", !.blob = b]]
     ELSE sweeps' = [sweeps EXCEPT ![s] = rest] /\ UNCHANGED disk
  /\ UNCHANGED <<stored, tabs, uploads, now, events, outAt>>
Unlink(s) ==
  /\ sweeps[s].pc = "unlink"
  /\ disk' = [disk EXCEPT ![sweeps[s].blob].meta = FALSE]
  /\ sweeps' = [sweeps EXCEPT ![s].pc = "sweeping", ![s].blob = None]
  /\ UNCHANGED <<stored, tabs, uploads, now, events, outAt>>
SweepEnds(s) ==
  /\ sweeps[s].pc = "asked" \/ (sweeps[s].pc = "sweeping" /\ sweeps[s].ids = {})
  /\ sweeps' = [sweeps EXCEPT ![s] = NoSweep]
  /\ UNCHANGED <<disk, stored, tabs, uploads, now, events, outAt>>

\* The files service stops between any two steps, with whatever is on the disk.
Crash ==
  /\ uploads' = [u \in Uploads |-> NoUpload]
  /\ sweeps' = [s \in Sweeps |-> IF sweeps[s].pc = "asked" THEN sweeps[s] ELSE NoSweep]
  /\ UNCHANGED <<disk, stored, tabs, now, events, outAt>>

\* Time passes, but a sweep starts within SweepTime of its look at the document.
Tick ==
  /\ now < MaxTime
  /\ \A s \in Sweeps : sweeps[s].pc = "posted" => now < sweeps[s].readAt + SweepTime
  /\ now' = now + 1
  /\ outAt' = [b \in Blobs |-> IF b \in stored THEN outAt[b] ELSE now + 1]
  /\ UNCHANGED <<disk, stored, tabs, uploads, sweeps, events>>

Next ==
  \/ \E t \in Tabs : \/ Type(t) \/ Save(t) \/ UndoOrRedo(t)
                     \/ \E b \in Blobs : Remove(t, b)
                     \/ \E doc \in {stored, {}} : Load(t, doc)
                     \/ \E u \in Uploads, by \in {"panel", "editor"}, files \in 1..2 :
                          Upload(u, t, by, files)
  \/ \E u \in Uploads : WriteBytes(u) \/ WriteMeta(u) \/ UploadAnswered(u) \/ UploadGivenUp(u)
  \/ \E s \in Sweeps : \/ ReadReferences(s) \/ ListDirectory(s) \/ Unlink(s) \/ SweepEnds(s)
                       \/ \E b \in Blobs : Examine(s, b)
  \/ Crash \/ Tick

Spec == Init /\ [][Next]_vars

-----------------------------------------------------------------------------
Texts == SUBSET (Blobs \cup 1..MaxEvents)
TypeOK ==
  /\ disk \in [Blobs -> [bytes : BOOLEAN, meta : BOOLEAN, mtime : 0..now, used : BOOLEAN]]
  /\ stored \subseteq Blobs
  /\ \A t \in Tabs : /\ tabs[t].doc \subseteq Blobs
                     /\ tabs[t].before \subseteq Blobs /\ tabs[t].notes \in Texts
  /\ \A u \in Uploads :
       /\ uploads[u].pc \in {"idle", "bytes", "meta", "answer"}
       /\ uploads[u].left \in 0..2 /\ (uploads[u].pc = "idle") = (uploads[u].left = 0)
       /\ uploads[u].inserted \subseteq Blobs /\ uploads[u].base \in Texts
  /\ \A s \in Sweeps :
       /\ sweeps[s].pc \in {"idle", "asked", "posted", "sweeping", "unlink"}
       /\ sweeps[s].refs \cup sweeps[s].ids \subseteq Blobs
       /\ sweeps[s].at <= now /\ sweeps[s].readAt <= now
       /\ (sweeps[s].blob # None) = (sweeps[s].pc = "unlink")
  /\ now \in 0..MaxTime /\ events \in 0..MaxEvents
  /\ outAt \in [Blobs -> 0..now]

\* What the stored document refers to can be read, both files of it, unless it was
\* out of the stored document when it was (but for the sweep's own delay) older
\* than the time of grace: an upload that is saved in time is safe from sweeps that
\* read the document earlier, from other tabs' sweeps and from crashes, and only a
\* removal that is undone after a day, or overwritten, or a save a day late, loses it.
StoredIsReadable ==
  \A b \in stored : Get(b) = 200 \/ outAt[b] + SweepTime >= disk[b].mtime + Grace

\* What is in a topic's notes is lost by a reload, or by the editor's image, which
\* loses what came between the click and the upload's end and nothing else
\* (MarkdownEditor.tsx:58, 70); the panel's insertion loses nothing.
NotesLostOnlyToTheEditor ==
  [][\A t \in Tabs :
       \/ tabs[t].notes \subseteq tabs'[t].notes
       \/ tabs'[t] \in {Tab(stored), Tab({})}
       \/ \E u \in Uploads : /\ uploads[u].tab = t /\ uploads[u].by = "editor"
                             /\ uploads'[u] # uploads[u]
                             /\ uploads[u].base \subseteq tabs'[t].notes]_vars
=============================================================================
