-------------------------- MODULE AttachmentsProofs --------------------------
(***************************************************************************)
(* Theorems about Attachments, for any blobs, tabs, uploads and sweeps,    *)
(* any time of grace and any delay of a sweep, and their proofs: the type  *)
(* of its state, that what the stored document refers to can be read, and  *)
(* that only the editor's insertion loses notes.  A sweep deletes a blob   *)
(* by what it saw of the document and of the clock; what it saw is brought *)
(* into relation with outAt, when the blob was last out of the document.   *)
(***************************************************************************)
EXTENDS Attachments, TLAPS

File == [bytes : BOOLEAN, meta : BOOLEAN, mtime : Nat, used : BOOLEAN]
Page == [doc : SUBSET Blobs, before : SUBSET Blobs, notes : Texts]
AnUpload == [pc : {"idle", "bytes", "meta", "answer"}, by : {"panel", "editor"},
             tab : Tabs \cup {None}, blob : Blobs \cup {None}, left : 0..2,
             inserted : SUBSET Blobs, base : Texts, heard : BOOLEAN]
ASweep == [pc : {"idle", "asked", "posted", "sweeping", "unlink"}, refs : SUBSET Blobs,
           readAt : Nat, at : Nat, ids : SUBSET Blobs, blob : Blobs \cup {None}]

TypesOK ==
  /\ disk \in [Blobs -> File] /\ stored \subseteq Blobs
  /\ tabs \in [Tabs -> Page]
  /\ uploads \in [Uploads -> AnUpload] /\ sweeps \in [Sweeps -> ASweep]
  /\ now \in 0..MaxTime /\ events \in 0..MaxEvents
  /\ outAt \in [Blobs -> Nat]

\* The clock is ahead of whatever was read from it, and stands still for nothing
\* that is out of the document.
TimesOK ==
  \A b \in Blobs : /\ disk[b].mtime <= now /\ outAt[b] <= now
                   /\ b \notin stored => outAt[b] = now

\* Out of the stored document long enough after its upload for a sweep to take it.
Expired(b) == outAt[b] + SweepTime >= disk[b].mtime + Grace
Whole(b) == disk[b].bytes = TRUE /\ disk[b].meta = TRUE

UploadAt(u, pc, b) == uploads[u].pc = pc /\ uploads[u].blob = b
SweepUnlinks(s, b) == sweeps[s].pc = "unlink" /\ sweeps[s].blob = b

\* In a document somewhere, or about to be.
Known(b) == \/ b \in stored
            \/ \E t \in Tabs : b \in tabs[t].doc \cup tabs[t].before
            \/ \E u \in Uploads : UploadAt(u, "answer", b)

UploadsOK ==
  /\ \A u \in Uploads : /\ uploads[u].pc = "idle" <=> uploads[u].left = 0
                        /\ uploads[u].pc # "idle" =>
                             uploads[u].blob \in Blobs /\ uploads[u].tab \in Tabs
  /\ \A u, v \in Uploads : uploads[u].pc # "idle" /\ uploads[v].pc # "idle"
                           /\ uploads[u].blob = uploads[v].blob => u = v

\* A blob that anything refers to is whole or has been fair game; before its bytes
\* are there, nothing refers to it.
BlobOK(b) ==
  /\ disk[b].used = FALSE =>
       /\ disk[b].bytes = FALSE /\ ~Known(b)
       /\ \A u \in Uploads : uploads[u].pc # "idle" => uploads[u].blob # b
       /\ \A s \in Sweeps : ~SweepUnlinks(s, b)
  /\ Known(b) => Whole(b) \/ Expired(b)
  /\ \A u \in Uploads : UploadAt(u, "bytes", b) =>
       /\ disk[b].bytes = FALSE /\ ~Known(b)
       /\ \A s \in Sweeps : ~SweepUnlinks(s, b)
  /\ \A u \in Uploads : UploadAt(u, "meta", b) => disk[b].bytes = TRUE \/ Expired(b)
  /\ \A s \in Sweeps : SweepUnlinks(s, b) => Expired(b)

\* What a sweep does not find in its references has been out since it read them.
SweepOK(s) ==
  /\ sweeps[s].at <= now /\ sweeps[s].readAt <= now
  /\ sweeps[s].blob # None <=> sweeps[s].pc = "unlink"
  /\ sweeps[s].pc = "posted" =>
       /\ now <= sweeps[s].readAt + SweepTime
       /\ \A b \in Blobs : b \notin sweeps[s].refs => outAt[b] >= sweeps[s].readAt
  /\ sweeps[s].pc \in {"sweeping", "unlink"} =>
       \A b \in Blobs : b \notin sweeps[s].refs => outAt[b] + SweepTime >= sweeps[s].at

BlobsOK == \A b \in Blobs : BlobOK(b)
SweepsOK == \A s \in Sweeps : SweepOK(s)

IInv == TypesOK /\ TimesOK /\ UploadsOK /\ BlobsOK /\ SweepsOK

-----------------------------------------------------------------------------
(* What steps have in common.                                              *)

LEMMA Consts == /\ None \notin Blobs /\ Grace \in Nat /\ SweepTime \in Nat
                /\ MaxTime \in Nat /\ MaxEvents \in Nat
BY AttachmentsAssumption

\* The clock does not go back, nor does a blob's last time out of the document.
TimeGoesOn == now <= now' /\ \A b \in Blobs : outAt[b] <= outAt'[b]

\* Files that stay as they are stay expired.
LEMMA ExpiredStays ==
  ASSUME TypesOK, TypesOK', TimeGoesOn, NEW b \in Blobs, disk'[b].mtime = disk[b].mtime,
         Expired(b)
  PROVE  Expired(b)'
<1>1. /\ disk[b].mtime \in Nat /\ outAt[b] \in Nat /\ outAt'[b] \in Nat
      /\ outAt[b] <= outAt'[b]
  BY DEF TypesOK, File, TimeGoesOn
<1> QED
  BY <1>1, Consts DEF Expired

\* Of an upload, the blob and how far it has come.
UploadsGoOn ==
  \A u \in Uploads : uploads'[u].pc = "idle" \/
    (uploads'[u].pc = uploads[u].pc /\ uploads'[u].blob = uploads[u].blob)
NothingNewKnown == \A b \in Blobs : Known(b)' => Known(b)
NoNewUnlinking == \A s \in Sweeps : sweeps'[s].pc = "unlink" =>
                    sweeps[s].pc = "unlink" /\ sweeps'[s].blob = sweeps[s].blob

\* Steps that write no file.
LEMMA BlobsKept ==
  ASSUME IInv, TypesOK', TimeGoesOn, UNCHANGED disk, UploadsGoOn, NothingNewKnown,
         NoNewUnlinking
  PROVE  BlobsOK'
<1>1. ASSUME NEW b \in Blobs
      PROVE  BlobOK(b)'
  <2>1. BlobOK(b) /\ disk'[b] = disk[b] /\ (Known(b)' => Known(b))
    BY DEF IInv, BlobsOK, NothingNewKnown
  <2>2. Expired(b) => Expired(b)'
    BY ExpiredStays DEF IInv
  <2>3. Whole(b) => Whole(b)'
    BY DEF Whole
  <2>4. \A s \in Sweeps : SweepUnlinks(s, b)' => SweepUnlinks(s, b)
    BY DEF SweepUnlinks, NoNewUnlinking
  <2>5. \A u \in Uploads : /\ UploadAt(u, "bytes", b)' => UploadAt(u, "bytes", b)
                           /\ UploadAt(u, "meta", b)' => UploadAt(u, "meta", b)
    BY DEF UploadAt, UploadsGoOn
  <2>6. \A u \in Uploads : uploads'[u].pc # "idle" =>
          uploads[u].pc # "idle" /\ uploads'[u].blob = uploads[u].blob
    BY DEF UploadsGoOn
  <2> QED
    BY <2>1, <2>2, <2>3, <2>4, <2>5, <2>6 DEF BlobOK
<1> QED
  BY <1>1 DEF BlobsOK

\* Steps of no sweep that keep the time.
LEMMA SweepsKept ==
  ASSUME IInv, TypesOK', TimeGoesOn, UNCHANGED <<sweeps, now>>
  PROVE  SweepsOK'
<1>1. ASSUME NEW s \in Sweeps
      PROVE  SweepOK(s)'
  <2>1. SweepOK(s) /\ sweeps[s] \in ASweep /\ \A b \in Blobs : outAt[b] \in Nat
        /\ outAt'[b] \in Nat /\ outAt[b] <= outAt'[b]
    BY DEF IInv, SweepsOK, TypesOK, TimeGoesOn
  <2>2. sweeps[s].at \in Nat /\ sweeps[s].readAt \in Nat
    BY <2>1 DEF ASweep
  <2> QED
    BY <2>1, <2>2, Consts DEF SweepOK
<1> QED
  BY <1>1 DEF SweepsOK

\* Steps that store nothing.
LEMMA TimesKept ==
  ASSUME IInv, UNCHANGED <<now, stored, outAt>>
  PROVE  TimeGoesOn /\ ((\A b \in Blobs : disk'[b].mtime <= now) => TimesOK')
BY DEF TimeGoesOn, IInv, TypesOK, TimesOK

-----------------------------------------------------------------------------
(* Tabs.                                                                   *)

\* A tab's document changes within what is known.
LEMMA PageStep ==
  ASSUME IInv, NEW t \in Tabs, NEW page \in Page, tabs' = [tabs EXCEPT ![t] = page],
         \A b \in page.doc \cup page.before : Known(b),
         UNCHANGED <<disk, stored, uploads, sweeps, now, outAt>>, events' \in 0..MaxEvents
  PROVE  IInv'
<1>1. TypesOK' /\ TimesOK' /\ UploadsOK'
  BY DEF IInv, TypesOK, TimesOK, UploadsOK
<1>2. TimeGoesOn
  BY TimesKept
<1>3. SweepsOK'
  BY <1>1, <1>2, SweepsKept
<1>4. NothingNewKnown
  <2>1. \A u \in Tabs : tabs'[u] = IF u = t THEN page ELSE tabs[u]
    BY DEF IInv, TypesOK
  <2>2. ASSUME NEW b \in Blobs, Known(b)'
        PROVE  Known(b)
    <3>1. CASE \E u \in Tabs : b \in tabs'[u].doc \cup tabs'[u].before
      BY <2>1, <3>1 DEF Known
    <3>2. CASE b \in stored' \/ \E u \in Uploads : UploadAt(u, "answer", b)'
      BY <3>2 DEF Known, UploadAt
    <3> QED
      BY <2>2, <3>1, <3>2 DEF Known
  <2> QED
    BY <2>2 DEF NothingNewKnown
<1>5. UploadsGoOn /\ NoNewUnlinking
  BY DEF UploadsGoOn, NoNewUnlinking
<1>6. BlobsOK'
  BY <1>1, <1>2, <1>4, <1>5, BlobsKept
<1> QED
  BY <1>1, <1>3, <1>6 DEF IInv

LEMMA CommitOK ==
  ASSUME IInv, NEW t \in Tabs, NEW doc \in SUBSET Blobs
  PROVE  /\ Commit(t, doc) \in Page /\ Commit(t, doc).doc = doc
         /\ Commit(t, doc).before = tabs[t].doc /\ Commit(t, doc).notes = tabs[t].notes
         /\ tabs[t] \in Page
BY DEF Commit, IInv, TypesOK, Page

LEMMA EventOK ==
  ASSUME IInv, Event
  PROVE  events' \in 0..MaxEvents /\ events + 1 \in 1..MaxEvents
BY Consts DEF IInv, TypesOK, Event

LEMMA RemoveKeeps ==
  ASSUME IInv, NEW t \in Tabs, NEW b \in Blobs, Remove(t, b)
  PROVE  IInv'
<1> DEFINE doc == tabs[t].doc \ {b}
           page == Commit(t, doc)
<1>1. tabs[t].doc \subseteq Blobs
  BY DEF IInv, TypesOK, Page
<1>2. page \in Page /\ page.doc = doc /\ page.before = tabs[t].doc
  BY <1>1, CommitOK
<1>3. \A c \in page.doc \cup page.before : Known(c)
  BY <1>2 DEF Known
<1> HIDE DEF page
<1>4. tabs' = [tabs EXCEPT ![t] = page]
  BY DEF Remove, page
<1> QED
  BY <1>2, <1>3, <1>4, EventOK, PageStep DEF Remove

LEMMA UndoOrRedoKeeps ==
  ASSUME IInv, NEW t \in Tabs, UndoOrRedo(t)
  PROVE  IInv'
<1> DEFINE page == Commit(t, tabs[t].before)
<1>1. tabs[t].doc \subseteq Blobs /\ tabs[t].before \subseteq Blobs
  BY DEF IInv, TypesOK, Page
<1>2. page \in Page /\ page.doc = tabs[t].before /\ page.before = tabs[t].doc
  BY <1>1, CommitOK
<1>3. \A c \in page.doc \cup page.before : Known(c)
  BY <1>2 DEF Known
<1> HIDE DEF page
<1>4. tabs' = [tabs EXCEPT ![t] = page]
  BY DEF UndoOrRedo, page
<1> QED
  BY <1>2, <1>3, <1>4, EventOK, PageStep DEF UndoOrRedo

LEMMA TypeKeeps ==
  ASSUME IInv, NEW t \in Tabs, Type(t)
  PROVE  IInv'
<1> DEFINE notes == tabs[t].notes \cup {events + 1}
           page == [tabs[t] EXCEPT !.notes = notes]
<1>1. tabs[t] \in Page /\ events + 1 \in 1..MaxEvents
  BY EventOK DEF IInv, TypesOK, Type
<1>2. notes \in Texts
  BY <1>1 DEF Page, Texts
<1> HIDE DEF notes
<1>3. page \in Page /\ page.doc = tabs[t].doc /\ page.before = tabs[t].before
  BY <1>1, <1>2 DEF Page
<1>4. \A c \in page.doc \cup page.before : Known(c)
  BY <1>3 DEF Known
<1>5. tabs' = [tabs EXCEPT ![t] = page]
  BY DEF Type, notes
<1> HIDE DEF page
<1> QED
  BY <1>3, <1>4, <1>5, EventOK, PageStep DEF Type

LEMMA SaveKeeps ==
  ASSUME IInv, NEW t \in Tabs, Save(t)
  PROVE  IInv'
<1>1. tabs[t].doc \subseteq Blobs /\ stored' = tabs[t].doc
      /\ outAt' = [b \in Blobs |-> IF b \in stored /\ b \in tabs[t].doc THEN outAt[b] ELSE now]
      /\ UNCHANGED <<disk, tabs, uploads, sweeps, now, events>> /\ now \in Nat
  BY DEF Save, Store, IInv, TypesOK, Page
<1>2. \A b \in Blobs : outAt[b] \in Nat /\ outAt[b] <= now
  BY DEF IInv, TypesOK, TimesOK
<1>3. TypesOK'
  BY <1>1, <1>2 DEF IInv, TypesOK
<1>4. TimeGoesOn
  BY <1>1, <1>2 DEF TimeGoesOn
<1>5. TimesOK' /\ UploadsOK'
  BY <1>1, <1>2 DEF IInv, TimesOK, UploadsOK
<1>6. SweepsOK'
  BY <1>1, <1>3, <1>4, SweepsKept
<1>7. NothingNewKnown
  BY <1>1 DEF NothingNewKnown, Known, UploadAt
<1>8. UploadsGoOn /\ NoNewUnlinking
  BY <1>1 DEF UploadsGoOn, NoNewUnlinking
<1>9. BlobsOK'
  BY <1>1, <1>3, <1>4, <1>7, <1>8, BlobsKept
<1> QED
  BY <1>3, <1>5, <1>6, <1>9 DEF IInv

-----------------------------------------------------------------------------
(* Steps of uploads and sweeps that write no file.                         *)

\* A step in which documents, files and the clock stay.
LEMMA ServiceStep ==
  ASSUME IInv, UNCHANGED <<disk, stored, tabs, now, outAt>>, events' \in 0..MaxEvents,
         uploads' \in [Uploads -> AnUpload], sweeps' \in [Sweeps -> ASweep],
         UploadsGoOn, NoNewUnlinking, UploadsOK', SweepsOK'
  PROVE  IInv'
<1>1. TypesOK' /\ TimesOK'
  BY DEF IInv, TypesOK, TimesOK
<1>2. TimeGoesOn
  BY TimesKept
<1>3. NothingNewKnown
  <2>1. \A u \in Uploads, b \in Blobs : UploadAt(u, "answer", b)' => UploadAt(u, "answer", b)
    BY DEF UploadsGoOn, UploadAt
  <2> QED
    BY <2>1 DEF NothingNewKnown, Known
<1>4. BlobsOK'
  BY <1>1, <1>2, <1>3, BlobsKept
<1> QED
  BY <1>1, <1>4 DEF IInv

LEMMA Typed ==
  ASSUME IInv
  PROVE  /\ \A u \in Uploads : uploads[u] \in AnUpload
         /\ \A s \in Sweeps : sweeps[s] \in ASweep
         /\ \A t \in Tabs : tabs[t] \in Page
         /\ \A b \in Blobs : disk[b] \in File /\ outAt[b] \in Nat /\ outAt[b] <= now
         /\ now \in Nat /\ stored \subseteq Blobs /\ events \in 0..MaxEvents
BY DEF IInv, TypesOK, TimesOK

LEMMA NoUploadTyped ==
  NoUpload \in AnUpload /\ NoUpload.pc = "idle" /\ NoUpload.left = 0
BY DEF NoUpload, AnUpload, Texts

LEMMA NoSweepTyped ==
  /\ NoSweep \in ASweep /\ NoSweep.pc = "idle" /\ NoSweep.blob = None
  /\ NoSweep.at = 0 /\ NoSweep.readAt = 0
BY DEF NoSweep, ASweep

\* Uploads that end or are no longer heard of.
LEMMA UploadsSettled ==
  ASSUME IInv, uploads' \in [Uploads -> AnUpload],
         \A u \in Uploads :
           \/ uploads'[u] = NoUpload
           \/ /\ uploads'[u].pc = uploads[u].pc /\ uploads'[u].blob = uploads[u].blob
              /\ uploads'[u].tab = uploads[u].tab /\ uploads'[u].left = uploads[u].left
  PROVE  UploadsOK' /\ UploadsGoOn
<1>1. UploadsGoOn
  BY NoUploadTyped DEF UploadsGoOn
<1>2. UploadsOK'
  BY NoUploadTyped DEF IInv, UploadsOK
<1> QED
  BY <1>1, <1>2

LEMMA UnheardTyped ==
  ASSUME NEW upload \in AnUpload
  PROVE  LET unheard == [upload EXCEPT !.heard = FALSE] IN
           /\ unheard \in AnUpload /\ unheard.pc = upload.pc /\ unheard.blob = upload.blob
           /\ unheard.tab = upload.tab /\ unheard.left = upload.left
BY DEF AnUpload

LEMMA UploadGivenUpKeeps ==
  ASSUME IInv, NEW u \in Uploads, UploadGivenUp(u)
  PROVE  IInv'
<1> DEFINE unheard == [uploads[u] EXCEPT !.heard = FALSE]
           upload == IF uploads[u].pc = "answer" THEN NoUpload ELSE unheard
<1>1. /\ unheard \in AnUpload /\ unheard.pc = uploads[u].pc /\ unheard.blob = uploads[u].blob
      /\ unheard.tab = uploads[u].tab /\ unheard.left = uploads[u].left
  BY Typed, UnheardTyped
<1>2. uploads' = [uploads EXCEPT ![u] = upload] /\ uploads \in [Uploads -> AnUpload]
  BY DEF UploadGivenUp, IInv, TypesOK
<1>3. UNCHANGED <<disk, stored, tabs, sweeps, now, events, outAt>>
  BY DEF UploadGivenUp
<1> HIDE DEF unheard
<1>4. uploads' \in [Uploads -> AnUpload]
  BY <1>1, <1>2, NoUploadTyped
<1>5. UploadsOK' /\ UploadsGoOn
  BY <1>1, <1>2, <1>4, UploadsSettled
<1>6. NoNewUnlinking /\ events' \in 0..MaxEvents /\ sweeps' \in [Sweeps -> ASweep]
  BY <1>3 DEF NoNewUnlinking, IInv, TypesOK
<1>7. SweepsOK'
  BY <1>3 DEF IInv, SweepsOK, SweepOK
<1> QED
  BY <1>3, <1>4, <1>5, <1>6, <1>7, ServiceStep

\* What SweepOK says of a sweep, at times t and by what is out of the document.
SweepFits(w) ==
  /\ w.at <= now /\ w.readAt <= now
  /\ w.blob # None <=> w.pc = "unlink"
  /\ w.pc = "posted" =>
       /\ now <= w.readAt + SweepTime
       /\ \A b \in Blobs : b \notin w.refs => outAt[b] >= w.readAt
  /\ w.pc \in {"sweeping", "unlink"} =>
       \A b \in Blobs : b \notin w.refs => outAt[b] + SweepTime >= w.at

\* One sweep goes on.
LEMMA SweepMoves ==
  ASSUME IInv, NEW s \in Sweeps, NEW w \in ASweep, sweeps' = [sweeps EXCEPT ![s] = w],
         UNCHANGED <<now, outAt>>, SweepFits(w)
  PROVE  /\ sweeps' \in [Sweeps -> ASweep] /\ SweepsOK'
         /\ (w.pc # "unlink" => NoNewUnlinking)
<1>1. sweeps \in [Sweeps -> ASweep]
  BY DEF IInv, TypesOK
<1>2. \A r \in Sweeps : sweeps'[r] = IF r = s THEN w ELSE sweeps[r]
  BY <1>1
<1>3. \A r \in Sweeps : r # s => SweepOK(r)'
  BY <1>2 DEF IInv, SweepsOK, SweepOK
<1>4. SweepOK(s)'
  BY <1>2 DEF SweepFits, SweepOK
<1> QED
  BY <1>1, <1>2, <1>3, <1>4 DEF SweepsOK, NoNewUnlinking

\* A sweep's step that writes no file.
LEMMA QuietSweep ==
  ASSUME IInv, NEW s \in Sweeps, NEW w \in ASweep, sweeps' = [sweeps EXCEPT ![s] = w],
         w.pc # "unlink", SweepFits(w),
         UNCHANGED <<disk, stored, tabs, uploads, now, events, outAt>>
  PROVE  IInv'
<1>1. sweeps' \in [Sweeps -> ASweep] /\ SweepsOK' /\ NoNewUnlinking
  BY SweepMoves
<1>2. uploads' \in [Uploads -> AnUpload] /\ UploadsOK' /\ UploadsGoOn /\ events' \in 0..MaxEvents
  BY DEF IInv, TypesOK, UploadsOK, UploadsGoOn
<1> QED
  BY <1>1, <1>2, ServiceStep

LEMMA ReadReferencesKeeps ==
  ASSUME IInv, NEW s \in Sweeps, ReadReferences(s)
  PROVE  IInv'
<1> DEFINE w == [NoSweep EXCEPT !.pc = "posted", !.refs = stored, !.readAt = now]
<1>1. NoSweep \in ASweep /\ NoSweep.blob = None /\ NoSweep.at = 0 /\ now \in Nat
      /\ stored \subseteq Blobs
  BY NoSweepTyped, Typed
<1>2. /\ w \in ASweep /\ w.pc = "posted" /\ w.refs = stored /\ w.readAt = now
      /\ w.at = 0 /\ w.blob = None
  BY <1>1 DEF ASweep
<1>3. sweeps' = [sweeps EXCEPT ![s] = w]
  BY DEF ReadReferences
<1> HIDE DEF w
<1>4. SweepFits(w)
  <2>1. \A b \in Blobs : b \notin stored => outAt[b] = now
    BY DEF IInv, TimesOK
  <2> QED
    BY <1>1, <1>2, <2>1, Consts DEF SweepFits
<1> QED
  BY <1>2, <1>3, <1>4, QuietSweep DEF ReadReferences

\* The sweep's time is at most SweepTime after its look at the document.
LEMMA ListDirectoryKeeps ==
  ASSUME IInv, NEW s \in Sweeps, ListDirectory(s)
  PROVE  IInv'
<1> DEFINE ids == {b \in Blobs : disk[b].bytes}
           w == [sweeps[s] EXCEPT !.pc = "sweeping", !.at = now, !.readAt = 0, !.ids = ids]
<1>1. sweeps[s] \in ASweep /\ SweepOK(s) /\ now \in Nat /\ \A b \in Blobs : outAt[b] \in Nat
  BY Typed DEF IInv, SweepsOK
<1>2. ids \in SUBSET Blobs
  OBVIOUS
<1>3. sweeps' = [sweeps EXCEPT ![s] = w]
  BY DEF ListDirectory, IInv, TypesOK
<1> HIDE DEF ids
<1>4. /\ w \in ASweep /\ w.pc = "sweeping" /\ w.refs = sweeps[s].refs /\ w.readAt = 0
      /\ w.at = now /\ w.blob = sweeps[s].blob
  BY <1>1, <1>2 DEF ASweep
<1> HIDE DEF w
<1>5. SweepFits(w)
  <2>1. sweeps[s].pc = "posted" /\ sweeps[s].readAt \in Nat
    BY <1>1 DEF ListDirectory, ASweep
  <2>2. /\ now <= sweeps[s].readAt + SweepTime /\ sweeps[s].blob = None
        /\ \A b \in Blobs : b \notin sweeps[s].refs => outAt[b] >= sweeps[s].readAt
    BY <1>1, <2>1 DEF SweepOK
  <2>3. \A b \in Blobs : b \notin sweeps[s].refs => outAt[b] + SweepTime >= now
    BY <1>1, <2>1, <2>2, Consts
  <2> QED
    BY <1>1, <1>4, <2>2, <2>3 DEF SweepFits
<1> QED
  BY <1>3, <1>4, <1>5, QuietSweep DEF ListDirectory

LEMMA SweepEndsKeeps ==
  ASSUME IInv, NEW s \in Sweeps, SweepEnds(s)
  PROVE  IInv'
<1>1. SweepFits(NoSweep)
  BY NoSweepTyped, Typed DEF SweepFits
<1> QED
  BY <1>1, NoSweepTyped, QuietSweep DEF SweepEnds

LEMMA CrashKeeps ==
  ASSUME IInv, Crash
  PROVE  IInv'
<1>1. /\ uploads' = [u \in Uploads |-> NoUpload]
      /\ sweeps' = [s \in Sweeps |-> IF sweeps[s].pc = "asked" THEN sweeps[s] ELSE NoSweep]
      /\ UNCHANGED <<disk, stored, tabs, now, events, outAt>>
  BY DEF Crash
<1>2. uploads' \in [Uploads -> AnUpload] /\ sweeps' \in [Sweeps -> ASweep]
      /\ events' \in 0..MaxEvents
  BY <1>1, Typed, NoUploadTyped, NoSweepTyped
<1>3. UploadsOK' /\ UploadsGoOn
  BY <1>1, <1>2, UploadsSettled
<1>4. NoNewUnlinking
  BY <1>1, NoSweepTyped DEF NoNewUnlinking
<1>5. SweepsOK'
  <2>1. ASSUME NEW s \in Sweeps
        PROVE  SweepOK(s)'
    <3>1. CASE sweeps[s].pc = "asked"
      BY <1>1, <3>1 DEF IInv, SweepsOK, SweepOK
    <3>2. CASE sweeps[s].pc # "asked"
      <4>1. sweeps'[s] = NoSweep /\ now' \in Nat
        BY <1>1, <3>2, Typed
      <4> QED
        BY <4>1, NoSweepTyped DEF SweepOK
    <3> QED
      BY <3>1, <3>2
  <2> QED
    BY <2>1 DEF SweepsOK
<1> QED
  BY <1>1, <1>2, <1>3, <1>4, <1>5, ServiceStep

\* A sweep on its way keeps the clock within SweepTime of its look at the document.
LEMMA TickKeeps ==
  ASSUME IInv, Tick
  PROVE  IInv'
<1>1. /\ now' = now + 1 /\ now \in Nat /\ now' \in 0..MaxTime
      /\ outAt' = [b \in Blobs |-> IF b \in stored THEN outAt[b] ELSE now + 1]
      /\ UNCHANGED <<disk, stored, tabs, uploads, sweeps, events>>
      /\ \A b \in Blobs : outAt[b] \in Nat /\ outAt[b] <= now
  BY Typed, Consts DEF Tick, IInv, TypesOK
<1>2. TypesOK'
  BY <1>1 DEF IInv, TypesOK
<1>3. TimeGoesOn
  BY <1>1 DEF TimeGoesOn
<1>4. TimesOK'
  <2>1. \A b \in Blobs : disk[b].mtime \in Nat /\ disk[b].mtime <= now
    BY DEF IInv, TypesOK, File, TimesOK
  <2> QED
    BY <1>1, <2>1 DEF TimesOK
<1>5. UploadsOK' /\ NothingNewKnown /\ UploadsGoOn /\ NoNewUnlinking
  BY <1>1 DEF IInv, UploadsOK, NothingNewKnown, Known, UploadAt, UploadsGoOn, NoNewUnlinking
<1>6. BlobsOK'
  BY <1>1, <1>2, <1>3, <1>5, BlobsKept
<1>7. ASSUME NEW s \in Sweeps
      PROVE  SweepOK(s)'
  <2>1. SweepOK(s) /\ sweeps[s].at \in Nat /\ sweeps[s].readAt \in Nat /\ sweeps'[s] = sweeps[s]
    BY <1>1, Typed DEF IInv, SweepsOK, ASweep
  <2>2. sweeps[s].pc = "posted" => now < sweeps[s].readAt + SweepTime
    BY DEF Tick
  <2>3. \A b \in Blobs : outAt'[b] \in Nat /\ outAt[b] \in Nat /\ outAt[b] <= outAt'[b]
    BY <1>1
  <2> QED
    BY <1>1, <2>1, <2>2, <2>3, Consts DEF SweepOK
<1> QED
  BY <1>2, <1>4, <1>5, <1>6, <1>7 DEF IInv, SweepsOK

LEMMA LoadKeeps ==
  ASSUME IInv, NEW t \in Tabs, NEW doc \in {stored, {}}, Load(t, doc)
  PROVE  IInv'
<1> DEFINE Unheard(u) == [uploads[u] EXCEPT !.heard = FALSE]
<1>1. PICK s \in Sweeps : sweeps[s].pc = "idle" /\ sweeps' = [sweeps EXCEPT ![s].pc = "asked"]
  BY DEF Load
<1>2. /\ uploads' = [u \in Uploads |-> IF uploads[u].tab = t THEN Unheard(u) ELSE uploads[u]]
      /\ tabs' = [tabs EXCEPT ![t] = Tab(doc)]
      /\ UNCHANGED <<disk, stored, now, outAt>> /\ events' \in 0..MaxEvents
  BY EventOK DEF Load
<1>3. /\ Tab(doc) \in Page /\ Tab(doc).doc = doc /\ Tab(doc).before = doc
      /\ doc \subseteq stored
  BY Typed DEF Tab, Page, Texts
<1>4. \A u \in Uploads :
        /\ Unheard(u) \in AnUpload /\ Unheard(u).pc = uploads[u].pc
        /\ Unheard(u).blob = uploads[u].blob /\ Unheard(u).tab = uploads[u].tab
        /\ Unheard(u).left = uploads[u].left
  BY Typed, UnheardTyped
<1> HIDE DEF Unheard
<1>5. uploads' \in [Uploads -> AnUpload] /\ UploadsOK' /\ UploadsGoOn
      /\ \A u \in Uploads : uploads'[u].pc = uploads[u].pc /\ uploads'[u].blob = uploads[u].blob
  <2>1. uploads' \in [Uploads -> AnUpload]
    BY <1>2, <1>4, Typed
  <2>2. \A u \in Uploads :
          /\ uploads'[u].pc = uploads[u].pc /\ uploads'[u].blob = uploads[u].blob
          /\ uploads'[u].tab = uploads[u].tab /\ uploads'[u].left = uploads[u].left
    BY <1>2, <1>4
  <2> QED
    BY <2>1, <2>2, UploadsSettled
<1>6. sweeps' \in [Sweeps -> ASweep] /\ SweepsOK' /\ NoNewUnlinking
  <2> DEFINE w == [sweeps[s] EXCEPT !.pc = "asked"]
  <2>1. sweeps[s] \in ASweep /\ SweepOK(s)
    BY Typed DEF IInv, SweepsOK
  <2>2. /\ w \in ASweep /\ w.pc = "asked" /\ w.at = sweeps[s].at /\ w.readAt = sweeps[s].readAt
        /\ w.blob = sweeps[s].blob
    BY <2>1 DEF ASweep
  <2>3. sweeps' = [sweeps EXCEPT ![s] = w]
    BY <1>1 DEF IInv, TypesOK
  <2> HIDE DEF w
  <2>4. SweepFits(w)
    BY <1>1, <2>1, <2>2 DEF SweepFits, SweepOK
  <2> QED
    BY <1>2, <2>2, <2>3, <2>4, SweepMoves
<1>7. TypesOK' /\ TimesOK'
  BY <1>2, <1>3, <1>5, <1>6 DEF IInv, TypesOK, TimesOK
<1>8. TimeGoesOn
  BY <1>2, TimesKept
<1>9. NothingNewKnown
  <2>1. \A u \in Tabs : tabs'[u] = IF u = t THEN Tab(doc) ELSE tabs[u]
    BY <1>2 DEF IInv, TypesOK
  <2>2. ASSUME NEW b \in Blobs, Known(b)'
        PROVE  Known(b)
    <3>1. CASE \E u \in Tabs : b \in tabs'[u].doc \cup tabs'[u].before
      BY <1>3, <2>1, <3>1 DEF Known
    <3>2. CASE b \in stored' \/ \E u \in Uploads : UploadAt(u, "answer", b)'
      BY <1>2, <1>5, <3>2 DEF Known, UploadAt
    <3> QED
      BY <2>2, <3>1, <3>2 DEF Known
  <2> QED
    BY <2>2 DEF NothingNewKnown
<1>10. BlobsOK'
  BY <1>2, <1>5, <1>6, <1>7, <1>8, <1>9, BlobsKept
<1> QED
  BY <1>5, <1>6, <1>7, <1>10 DEF IInv

-----------------------------------------------------------------------------
(* Steps that write a file.                                                *)

\* A blob that the step is not about.
LEMMA OtherBlob ==
  ASSUME IInv, TypesOK', TimeGoesOn, NEW b \in Blobs, disk'[b] = disk[b],
         Known(b)' => Known(b),
         \A u \in Uploads : uploads'[u].pc # "idle" /\ uploads'[u].blob = b =>
           uploads'[u].pc = uploads[u].pc /\ uploads'[u].blob = uploads[u].blob,
         \A s \in Sweeps : SweepUnlinks(s, b)' => SweepUnlinks(s, b)
  PROVE  BlobOK(b)'
<1>1. BlobOK(b)
  BY DEF IInv, BlobsOK
<1>2. Expired(b) => Expired(b)'
  BY ExpiredStays DEF IInv
<1>3. Whole(b) => Whole(b)'
  BY DEF Whole
<1>4. \A u \in Uploads : /\ UploadAt(u, "bytes", b)' => UploadAt(u, "bytes", b)
                         /\ UploadAt(u, "meta", b)' => UploadAt(u, "meta", b)
  BY DEF UploadAt
<1> QED
  BY <1>1, <1>2, <1>3, <1>4 DEF BlobOK

LEMMA FileTyped ==
  ASSUME NEW f \in File, NEW x \in BOOLEAN
  PROVE  /\ [f EXCEPT !.bytes = x] \in File /\ [f EXCEPT !.bytes = x].mtime = f.mtime
         /\ [f EXCEPT !.bytes = x].bytes = x /\ [f EXCEPT !.bytes = x].meta = f.meta
         /\ [f EXCEPT !.bytes = x].used = f.used
         /\ [f EXCEPT !.meta = x] \in File /\ [f EXCEPT !.meta = x].mtime = f.mtime
         /\ [f EXCEPT !.meta = x].bytes = f.bytes /\ [f EXCEPT !.meta = x].meta = x
         /\ [f EXCEPT !.meta = x].used = f.used
         /\ [f EXCEPT !.used = x] \in File /\ [f EXCEPT !.used = x].mtime = f.mtime
         /\ [f EXCEPT !.used = x].bytes = f.bytes /\ [f EXCEPT !.used = x].meta = f.meta
         /\ [f EXCEPT !.used = x].used = x
BY DEF File

\* A file of one blob is written.
LEMMA FileStep ==
  ASSUME IInv, NEW b \in Blobs, NEW f \in File, disk' = [disk EXCEPT ![b] = f]
  PROVE  /\ disk' \in [Blobs -> File] /\ disk'[b] = f
         /\ \A c \in Blobs : c # b => disk'[c] = disk[c]
BY DEF IInv, TypesOK

\* One upload goes on, with a blob that no other has.
LEMMA UploadMoves ==
  ASSUME IInv, NEW u \in Uploads, NEW upload \in AnUpload,
         uploads' = [uploads EXCEPT ![u] = upload],
         upload.pc = "idle" <=> upload.left = 0,
         upload.pc # "idle" =>
           /\ upload.blob \in Blobs /\ upload.tab \in Tabs
           /\ \A v \in Uploads : v # u /\ uploads[v].pc # "idle" => uploads[v].blob # upload.blob
  PROVE  /\ uploads' \in [Uploads -> AnUpload] /\ UploadsOK'
         /\ \A v \in Uploads : uploads'[v] = IF v = u THEN upload ELSE uploads[v]
<1>1. \A v \in Uploads : uploads'[v] = IF v = u THEN upload ELSE uploads[v]
  BY DEF IInv, TypesOK
<1>2. uploads' \in [Uploads -> AnUpload]
  BY DEF IInv, TypesOK
<1>3. UploadsOK'
  BY <1>1 DEF IInv, UploadsOK
<1> QED
  BY <1>1, <1>2, <1>3

\* A post takes a blob nobody has heard of.
LEMMA PostKeeps ==
  ASSUME IInv, NEW u \in Uploads, NEW upload \in AnUpload, Post(u, upload),
         upload.left # 0, upload.tab \in Tabs, tabs' \in [Tabs -> Page],
         \A t \in Tabs : \A c \in tabs'[t].doc \cup tabs'[t].before : Known(c),
         UNCHANGED <<stored, sweeps, now, outAt>>, events' \in 0..MaxEvents
  PROVE  IInv'
<1>1. PICK b \in Unused :
        /\ uploads' = [uploads EXCEPT ![u] = [upload EXCEPT !.pc = "bytes", !.blob = b]]
        /\ disk' = [disk EXCEPT ![b].used = TRUE]
  BY DEF Post
<1> DEFINE posted == [upload EXCEPT !.pc = "bytes", !.blob = b]
           f == [disk[b] EXCEPT !.used = TRUE]
<1>2. b \in Blobs /\ disk[b] \in File /\ disk[b].used = FALSE
  <2>1. b \in Blobs /\ ~disk[b].used
    BY DEF Unused
  <2>2. disk[b] \in File
    BY <2>1, Typed
  <2>3. disk[b].used \in BOOLEAN
    BY <2>2 DEF File
  <2> QED
    BY <2>1, <2>2, <2>3
<1>3. /\ f \in File /\ f.bytes = disk[b].bytes /\ f.mtime = disk[b].mtime /\ f.used = TRUE
  BY <1>2, FileTyped
<1>4. posted \in AnUpload /\ posted.pc = "bytes" /\ posted.blob = b
      /\ posted.tab = upload.tab /\ posted.left = upload.left
  BY <1>2 DEF AnUpload
<1>5. disk' = [disk EXCEPT ![b] = f]
  BY <1>1 DEF IInv, TypesOK
<1> HIDE DEF f, posted
<1>6. BlobOK(b)
  BY <1>2 DEF IInv, BlobsOK
<1>7. /\ disk[b].bytes = FALSE /\ ~Known(b)
      /\ \A v \in Uploads : uploads[v].pc # "idle" => uploads[v].blob # b
      /\ \A s \in Sweeps : ~SweepUnlinks(s, b)
  BY <1>2, <1>6 DEF BlobOK
<1>8. /\ uploads' \in [Uploads -> AnUpload] /\ UploadsOK'
      /\ \A v \in Uploads : uploads'[v] = IF v = u THEN posted ELSE uploads[v]
  BY <1>1, <1>2, <1>4, <1>7, UploadMoves DEF posted
<1>9. /\ disk' \in [Blobs -> File] /\ disk'[b] = f
      /\ \A c \in Blobs : c # b => disk'[c] = disk[c]
  BY <1>2, <1>3, <1>5, FileStep
<1>10. TypesOK'
  BY <1>8, <1>9 DEF IInv, TypesOK
<1>11. TimeGoesOn /\ TimesOK'
  <2>1. \A c \in Blobs : disk'[c].mtime = disk[c].mtime
    BY <1>3, <1>9
  <2> QED
    BY <2>1, TimesKept DEF IInv, TimesOK
<1>12. SweepsOK'
  BY <1>10, <1>11, SweepsKept
<1>13. \A c \in Blobs : Known(c)' => Known(c)
  <2>1. \A c \in Blobs, v \in Uploads : UploadAt(v, "answer", c)' => UploadAt(v, "answer", c)
    BY <1>4, <1>8 DEF UploadAt
  <2> QED
    BY <2>1 DEF Known
<1>14. \A s \in Sweeps, c \in Blobs : SweepUnlinks(s, c)' => SweepUnlinks(s, c)
  BY DEF SweepUnlinks
<1>15. BlobOK(b)'
  <2>1. disk'[b].bytes = FALSE /\ disk'[b].used = TRUE /\ ~Known(b)'
    BY <1>2, <1>3, <1>7, <1>9, <1>13
  <2>2. \A v \in Uploads : ~UploadAt(v, "meta", b)'
    BY <1>4, <1>7, <1>8 DEF UploadAt
  <2> QED
    BY <1>2, <1>7, <1>14, <2>1, <2>2 DEF BlobOK
<1>16. ASSUME NEW c \in Blobs, c # b
       PROVE  BlobOK(c)'
  <2>1. \A v \in Uploads : uploads'[v].pc # "idle" /\ uploads'[v].blob = c =>
          uploads'[v].pc = uploads[v].pc /\ uploads'[v].blob = uploads[v].blob
    BY <1>4, <1>8, <1>16
  <2>2. disk'[c] = disk[c]
    BY <1>9, <1>16
  <2> QED
    BY <1>10, <1>11, <1>13, <1>14, <2>1, <2>2, OtherBlob
<1> QED
  BY <1>8, <1>10, <1>11, <1>12, <1>15, <1>16 DEF IInv, BlobsOK

LEMMA UploadKeeps ==
  ASSUME IInv, NEW u \in Uploads, NEW t \in Tabs, NEW by \in {"panel", "editor"},
         NEW files \in 1..2, Upload(u, t, by, files)
  PROVE  IInv'
<1> DEFINE upload == [NoUpload EXCEPT !.by = by, !.tab = t, !.left = files,
                                      !.base = tabs[t].notes]
<1>1. tabs[t].notes \in Texts /\ files \in 0..2 /\ files # 0
  BY Typed DEF Page
<1>2. upload \in AnUpload /\ upload.left = files /\ upload.tab = t
  BY <1>1, NoUploadTyped DEF AnUpload
<1>3. Post(u, upload)
  BY DEF Upload
<1> HIDE DEF upload
<1>4. events' \in 0..MaxEvents
  BY EventOK DEF Upload
<1>5. tabs' \in [Tabs -> Page]
      /\ \A v \in Tabs : \A c \in tabs'[v].doc \cup tabs'[v].before : Known(c)
  BY DEF Upload, IInv, TypesOK, Known
<1> QED
  BY <1>1, <1>2, <1>3, <1>4, <1>5, PostKeeps DEF Upload

\* Of the upload that is about to write.
LEMMA UploadFacts ==
  ASSUME IInv, NEW u \in Uploads, uploads[u].pc # "idle"
  PROVE  /\ uploads[u].blob \in Blobs /\ uploads[u].tab \in Tabs /\ uploads[u].left # 0
         /\ BlobOK(uploads[u].blob) /\ disk[uploads[u].blob].used = TRUE
         /\ uploads[u] \in AnUpload /\ disk[uploads[u].blob] \in File
         /\ \A v \in Uploads : v # u /\ uploads[v].pc # "idle" =>
              uploads[v].blob # uploads[u].blob
<1>1. uploads[u].blob \in Blobs /\ uploads[u].tab \in Tabs /\ uploads[u].left # 0
      /\ \A v \in Uploads : v # u /\ uploads[v].pc # "idle" =>
              uploads[v].blob # uploads[u].blob
  BY DEF IInv, UploadsOK
<1>2. BlobOK(uploads[u].blob) /\ disk[uploads[u].blob].used \in BOOLEAN
      /\ uploads[u] \in AnUpload /\ disk[uploads[u].blob] \in File
  BY <1>1, Typed DEF IInv, BlobsOK, File
<1>3. disk[uploads[u].blob].used # FALSE
  BY <1>2 DEF BlobOK
<1> QED
  BY <1>1, <1>2, <1>3

LEMMA WriteBytesKeeps ==
  ASSUME IInv, NEW u \in Uploads, WriteBytes(u)
  PROVE  IInv'
<1>0. PICK b \in Blobs : b = uploads[u].blob
  BY UploadFacts DEF WriteBytes
<1> DEFINE f == [disk[b] EXCEPT !.bytes = TRUE, !.mtime = now]
           upload == [uploads[u] EXCEPT !.pc = "meta"]
<1>1. /\ BlobOK(b) /\ disk[b].used = TRUE /\ disk[b] \in File
      /\ uploads[u] \in AnUpload /\ uploads[u].tab \in Tabs /\ uploads[u].left # 0
      /\ uploads[u].pc = "bytes"
      /\ \A v \in Uploads : v # u /\ uploads[v].pc # "idle" => uploads[v].blob # b
  BY <1>0, UploadFacts DEF WriteBytes
<1>2. UNCHANGED <<stored, tabs, sweeps, now, events, outAt>> /\ now \in Nat
  BY Typed DEF WriteBytes
<1>3. f \in File /\ f.bytes = TRUE /\ f.mtime = now /\ f.used = TRUE
  BY <1>1, <1>2 DEF File
<1>4. upload \in AnUpload /\ upload.pc = "meta" /\ upload.blob = b
      /\ upload.tab = uploads[u].tab /\ upload.left = uploads[u].left
  BY <1>0, <1>1 DEF AnUpload
<1>5. disk' = [disk EXCEPT ![b] = f] /\ uploads' = [uploads EXCEPT ![u] = upload]
  BY <1>0 DEF WriteBytes, IInv, TypesOK
<1>6. ~Known(b) /\ \A s \in Sweeps : ~SweepUnlinks(s, b)
  BY <1>0, <1>1 DEF BlobOK, UploadAt
<1> HIDE DEF f, upload
<1>7. /\ uploads' \in [Uploads -> AnUpload] /\ UploadsOK'
      /\ \A v \in Uploads : uploads'[v] = IF v = u THEN upload ELSE uploads[v]
  BY <1>1, <1>4, <1>5, UploadMoves
<1>8. /\ disk' \in [Blobs -> File] /\ disk'[b] = f
      /\ \A c \in Blobs : c # b => disk'[c] = disk[c]
  BY <1>1, <1>3, <1>5, FileStep
<1>9. TypesOK'
  BY <1>2, <1>7, <1>8 DEF IInv, TypesOK
<1>10. TimeGoesOn /\ TimesOK'
  <2>1. \A c \in Blobs : disk'[c].mtime <= now
    BY <1>2, <1>3, <1>8 DEF IInv, TimesOK
  <2> QED
    BY <1>2, <2>1, TimesKept
<1>11. SweepsOK'
  BY <1>2, <1>9, <1>10, SweepsKept
<1>12. \A c \in Blobs : Known(c)' => Known(c)
  <2>1. \A c \in Blobs, v \in Uploads : UploadAt(v, "answer", c)' => UploadAt(v, "answer", c)
    BY <1>4, <1>7 DEF UploadAt
  <2> QED
    BY <1>2, <2>1 DEF Known
<1>13. \A s \in Sweeps, c \in Blobs : SweepUnlinks(s, c)' => SweepUnlinks(s, c)
  BY <1>2 DEF SweepUnlinks
<1>14. BlobOK(b)'
  <2>1. disk'[b].bytes = TRUE /\ disk'[b].used = TRUE /\ ~Known(b)'
    BY <1>1, <1>3, <1>6, <1>8, <1>12
  <2>2. \A v \in Uploads : ~UploadAt(v, "bytes", b)'
    BY <1>1, <1>4, <1>7 DEF UploadAt
  <2>3. \A s \in Sweeps : ~SweepUnlinks(s, b)'
    BY <1>1, <1>6, <1>13
  <2> QED
    BY <2>1, <2>2, <2>3 DEF BlobOK
<1>15. ASSUME NEW c \in Blobs, c # b
       PROVE  BlobOK(c)'
  <2>1. \A v \in Uploads : uploads'[v].pc # "idle" /\ uploads'[v].blob = c =>
          uploads'[v].pc = uploads[v].pc /\ uploads'[v].blob = uploads[v].blob
    BY <1>4, <1>7, <1>15
  <2>2. disk'[c] = disk[c]
    BY <1>8, <1>15
  <2> QED
    BY <1>9, <1>10, <1>12, <1>13, <2>1, <2>2, OtherBlob
<1> QED
  BY <1>7, <1>9, <1>10, <1>11, <1>14, <1>15 DEF IInv, BlobsOK

LEMMA WriteMetaKeeps ==
  ASSUME IInv, NEW u \in Uploads, WriteMeta(u)
  PROVE  IInv'
<1>0. PICK b \in Blobs : b = uploads[u].blob
  BY UploadFacts DEF WriteMeta
<1> DEFINE f == [disk[b] EXCEPT !.meta = TRUE]
           answer == [uploads[u] EXCEPT !.pc = "answer"]
<1>1. /\ BlobOK(b) /\ disk[b].used = TRUE /\ disk[b] \in File
      /\ uploads[u] \in AnUpload /\ uploads[u].tab \in Tabs /\ uploads[u].left # 0
      /\ uploads[u].pc = "meta"
      /\ \A v \in Uploads : v # u /\ uploads[v].pc # "idle" => uploads[v].blob # b
  BY <1>0, UploadFacts DEF WriteMeta
<1>2. UNCHANGED <<stored, tabs, sweeps, now, events, outAt>>
  BY DEF WriteMeta
<1>3. /\ f \in File /\ f.bytes = disk[b].bytes /\ f.meta = TRUE /\ f.mtime = disk[b].mtime
      /\ f.used = TRUE
  BY <1>1, FileTyped
<1>4. answer \in AnUpload /\ answer.pc = "answer" /\ answer.blob = b
      /\ answer.tab = uploads[u].tab /\ answer.left = uploads[u].left
  BY <1>0, <1>1 DEF AnUpload
<1>5. PICK upload \in {answer, NoUpload} : uploads' = [uploads EXCEPT ![u] = upload]
  BY DEF WriteMeta, IInv, TypesOK
<1>6. disk' = [disk EXCEPT ![b] = f]
  BY <1>0 DEF WriteMeta, IInv, TypesOK
<1> HIDE DEF f, answer
<1>7. /\ upload \in AnUpload /\ upload.pc \in {"idle", "answer"}
      /\ (upload.pc = "idle" <=> upload.left = 0)
      /\ (upload.pc # "idle" => upload.blob = b /\ upload.tab \in Tabs)
  BY <1>1, <1>4, NoUploadTyped
<1>8. /\ uploads' \in [Uploads -> AnUpload] /\ UploadsOK'
      /\ \A v \in Uploads : uploads'[v] = IF v = u THEN upload ELSE uploads[v]
  BY <1>1, <1>5, <1>7, UploadMoves
<1>9. /\ disk' \in [Blobs -> File] /\ disk'[b] = f
      /\ \A c \in Blobs : c # b => disk'[c] = disk[c]
  BY <1>3, <1>6, FileStep
<1>10. TypesOK'
  BY <1>2, <1>8, <1>9 DEF IInv, TypesOK
<1>11. TimeGoesOn /\ TimesOK'
  <2>1. \A c \in Blobs : disk'[c].mtime = disk[c].mtime
    BY <1>3, <1>9
  <2> QED
    BY <1>2, <2>1, TimesKept DEF IInv, TimesOK
<1>12. SweepsOK'
  BY <1>2, <1>10, <1>11, SweepsKept
<1>13. \A c \in Blobs : c # b /\ Known(c)' => Known(c)
  <2>1. \A c \in Blobs, v \in Uploads :
          c # b /\ UploadAt(v, "answer", c)' => UploadAt(v, "answer", c)
    BY <1>7, <1>8 DEF UploadAt
  <2> QED
    BY <1>2, <2>1 DEF Known
<1>14. \A s \in Sweeps, c \in Blobs : SweepUnlinks(s, c)' => SweepUnlinks(s, c)
  BY <1>2 DEF SweepUnlinks
<1>15. BlobOK(b)'
  <2>1. disk'[b].used = TRUE /\ disk'[b].meta = TRUE /\ disk'[b].bytes = disk[b].bytes
    BY <1>3, <1>9
  <2>2. Whole(b)' \/ Expired(b)'
    <3>1. disk[b].bytes = TRUE \/ Expired(b)
      BY <1>0, <1>1 DEF BlobOK, UploadAt
    <3>2. Expired(b) => Expired(b)'
      BY <1>3, <1>9, <1>10, <1>11, ExpiredStays DEF IInv
    <3> QED
      BY <2>1, <3>1, <3>2 DEF Whole
  <2>3. \A v \in Uploads : ~UploadAt(v, "bytes", b)' /\ ~UploadAt(v, "meta", b)'
    BY <1>1, <1>7, <1>8 DEF UploadAt
  <2>4. \A s \in Sweeps : SweepUnlinks(s, b)' => Expired(b)'
    <3>1. Expired(b) => Expired(b)'
      BY <1>3, <1>9, <1>10, <1>11, ExpiredStays DEF IInv
    <3> QED
      BY <1>1, <1>14, <3>1 DEF BlobOK
  <2> QED
    BY <2>1, <2>2, <2>3, <2>4 DEF BlobOK
<1>16. ASSUME NEW c \in Blobs, c # b
       PROVE  BlobOK(c)'
  <2>1. \A v \in Uploads : uploads'[v].pc # "idle" /\ uploads'[v].blob = c =>
          uploads'[v].pc = uploads[v].pc /\ uploads'[v].blob = uploads[v].blob
    BY <1>7, <1>8, <1>16
  <2>2. disk'[c] = disk[c]
    BY <1>9, <1>16
  <2> QED
    BY <1>10, <1>11, <1>13, <1>14, <1>16, <2>1, <2>2, OtherBlob
<1> QED
  BY <1>8, <1>10, <1>11, <1>12, <1>15, <1>16 DEF IInv, BlobsOK

\* A deletion: what the sweep has found out is what makes the blob fair game.
LEMMA DoomedIsExpired ==
  ASSUME IInv, NEW s \in Sweeps, NEW b \in Blobs, sweeps[s].pc = "sweeping",
         Doomed(sweeps[s], b)
  PROVE  Expired(b) /\ disk[b].bytes = TRUE
<1>1. /\ sweeps[s].at \in Nat /\ SweepOK(s) /\ outAt[b] \in Nat
      /\ disk[b].mtime \in Nat /\ disk[b].bytes \in BOOLEAN
  BY Typed DEF IInv, SweepsOK, ASweep, File
<1>2. b \notin sweeps[s].refs /\ disk[b].bytes /\ sweeps[s].at >= disk[b].mtime + Grace
  BY DEF Doomed
<1>3. outAt[b] + SweepTime >= sweeps[s].at
  BY <1>1, <1>2 DEF SweepOK
<1>4. disk[b].bytes = TRUE
  BY <1>1, <1>2
<1> QED
  BY <1>1, <1>2, <1>3, <1>4, Consts DEF Expired

\* A sweep removes a file of a blob that is fair game.
LEMMA SweepWrites ==
  ASSUME IInv, NEW s \in Sweeps, NEW w \in ASweep, sweeps' = [sweeps EXCEPT ![s] = w],
         NEW b \in Blobs, NEW f \in File, disk' = [disk EXCEPT ![b] = f],
         f.mtime = disk[b].mtime, f.used = TRUE, SweepFits(w),
         w.pc = "unlink" => w.blob = b, Expired(b),
         \A u \in Uploads : ~UploadAt(u, "bytes", b),
         UNCHANGED <<stored, tabs, uploads, now, events, outAt>>
  PROVE  IInv'
<1>1. sweeps' \in [Sweeps -> ASweep] /\ SweepsOK'
  BY SweepMoves
<1>2. /\ disk' \in [Blobs -> File] /\ disk'[b] = f
      /\ \A c \in Blobs : c # b => disk'[c] = disk[c]
  BY FileStep
<1>3. TypesOK' /\ UploadsOK'
  BY <1>1, <1>2 DEF IInv, TypesOK, UploadsOK
<1>4. TimeGoesOn /\ TimesOK'
  <2>1. \A c \in Blobs : disk'[c].mtime = disk[c].mtime
    BY <1>2
  <2> QED
    BY <2>1, TimesKept DEF IInv, TimesOK
<1>5. \A c \in Blobs : Known(c)' => Known(c)
  BY DEF Known, UploadAt
<1>6. Expired(b)'
  BY <1>2, <1>3, <1>4, ExpiredStays DEF IInv
<1>7. BlobOK(b)'
  <2>1. disk'[b].used = TRUE
    BY <1>2
  <2>2. \A u \in Uploads : ~UploadAt(u, "bytes", b)'
    BY DEF UploadAt
  <2> QED
    BY <1>6, <2>1, <2>2 DEF BlobOK
<1>8. ASSUME NEW c \in Blobs, c # b
      PROVE  BlobOK(c)'
  <2>1. \A r \in Sweeps : SweepUnlinks(r, c)' => SweepUnlinks(r, c)
    <3>1. \A r \in Sweeps : sweeps'[r] = IF r = s THEN w ELSE sweeps[r]
      BY DEF IInv, TypesOK
    <3> QED
      BY <1>8, <3>1 DEF SweepUnlinks
  <2>2. disk'[c] = disk[c]
    BY <1>2, <1>8
  <2> QED
    BY <1>3, <1>4, <1>5, <2>1, <2>2, OtherBlob
<1> QED
  BY <1>1, <1>3, <1>4, <1>7, <1>8 DEF IInv, BlobsOK

LEMMA ExamineKeeps ==
  ASSUME IInv, NEW s \in Sweeps, NEW b \in Blobs, Examine(s, b)
  PROVE  IInv'
<1> DEFINE ids == sweeps[s].ids \ {b}
           rest == [sweeps[s] EXCEPT !.ids = ids]
           w == [rest EXCEPT !.pc = "unlink", !.blob = b]
           f == [disk[b] EXCEPT !.bytes = FALSE]
<1>1. /\ sweeps[s] \in ASweep /\ SweepOK(s) /\ sweeps[s].pc = "sweeping"
      /\ disk[b] \in File /\ BlobOK(b)
  BY Typed DEF IInv, SweepsOK, BlobsOK, Examine
<1>2. ids \in SUBSET Blobs
  BY <1>1 DEF ASweep
<1> HIDE DEF ids
<1>3. /\ rest \in ASweep /\ rest.pc = "sweeping" /\ rest.refs = sweeps[s].refs
      /\ rest.at = sweeps[s].at /\ rest.readAt = sweeps[s].readAt /\ rest.blob = sweeps[s].blob
  BY <1>1, <1>2 DEF ASweep
<1>4. UNCHANGED <<stored, tabs, uploads, now, events, outAt>>
  BY DEF Examine
<1>5. CASE Doomed(sweeps[s], b)
  <2>1. disk' = [disk EXCEPT ![b] = f] /\ sweeps' = [sweeps EXCEPT ![s] = w]
    BY <1>5 DEF Examine, ids, IInv, TypesOK
  <2> HIDE DEF rest
  <2>2. /\ w \in ASweep /\ w.pc = "unlink" /\ w.blob = b /\ w.refs = rest.refs
        /\ w.at = rest.at /\ w.readAt = rest.readAt
    BY <1>3 DEF ASweep
  <2> HIDE DEF w
  <2>3. Expired(b) /\ disk[b].bytes = TRUE
    BY <1>1, <1>5, DoomedIsExpired
  <2>4. disk[b].used = TRUE /\ \A u \in Uploads : ~UploadAt(u, "bytes", b)
    <3>1. disk[b].used \in BOOLEAN
      BY <1>1 DEF File
    <3> QED
      BY <1>1, <2>3, <3>1 DEF BlobOK
  <2>5. f \in File /\ f.mtime = disk[b].mtime /\ f.used = TRUE
    BY <1>1, <2>4, FileTyped
  <2> HIDE DEF f
  <2>6. SweepFits(w)
    BY <1>1, <1>3, <2>2, Consts DEF SweepFits, SweepOK
  <2> QED
    BY <1>4, <2>1, <2>2, <2>3, <2>4, <2>5, <2>6, SweepWrites
<1>6. CASE ~Doomed(sweeps[s], b)
  <2>1. UNCHANGED disk /\ sweeps' = [sweeps EXCEPT ![s] = rest]
    BY <1>6 DEF Examine, ids, IInv, TypesOK
  <2> HIDE DEF rest
  <2>2. SweepFits(rest)
    BY <1>1, <1>3 DEF SweepFits, SweepOK
  <2> QED
    BY <1>3, <1>4, <2>1, <2>2, QuietSweep
<1> QED
  BY <1>5, <1>6

LEMMA UnlinkKeeps ==
  ASSUME IInv, NEW s \in Sweeps, Unlink(s)
  PROVE  IInv'
<1>1. sweeps[s] \in ASweep /\ SweepOK(s) /\ sweeps[s].pc = "unlink"
  BY Typed DEF IInv, SweepsOK, Unlink
<1>2. PICK b \in Blobs : b = sweeps[s].blob
  BY <1>1 DEF SweepOK, ASweep
<1> DEFINE w == [sweeps[s] EXCEPT !.pc = "sweeping", !.blob = None]
           f == [disk[b] EXCEPT !.meta = FALSE]
<1>3. disk' = [disk EXCEPT ![b] = f] /\ sweeps' = [sweeps EXCEPT ![s] = w]
  BY <1>2 DEF Unlink, IInv, TypesOK
<1>4. /\ w \in ASweep /\ w.pc = "sweeping" /\ w.blob = None /\ w.refs = sweeps[s].refs
      /\ w.at = sweeps[s].at /\ w.readAt = sweeps[s].readAt
  BY <1>1 DEF ASweep
<1> HIDE DEF w
<1>5. /\ BlobOK(b) /\ disk[b] \in File /\ SweepUnlinks(s, b)
  BY <1>1, <1>2, Typed DEF IInv, BlobsOK, SweepUnlinks
<1>6. Expired(b) /\ disk[b].used = TRUE /\ \A u \in Uploads : ~UploadAt(u, "bytes", b)
  <2>1. disk[b].used \in BOOLEAN
    BY <1>5 DEF File
  <2> QED
    BY <1>5, <2>1 DEF BlobOK
<1>7. f \in File /\ f.mtime = disk[b].mtime /\ f.used = TRUE
  BY <1>5, <1>6, FileTyped
<1> HIDE DEF f
<1>8. SweepFits(w)
  BY <1>1, <1>4 DEF SweepFits, SweepOK
<1> QED
  BY <1>3, <1>4, <1>6, <1>7, <1>8, SweepWrites DEF Unlink

\* An answer: its blob comes into the document, and the upload ends or goes on.
LEMMA UploadAnsweredKeeps ==
  ASSUME IInv, NEW u \in Uploads, UploadAnswered(u)
  PROVE  IInv'
<1>0. PICK b \in Blobs, t \in Tabs : b = uploads[u].blob /\ t = uploads[u].tab
  BY UploadFacts DEF UploadAnswered
<1> DEFINE left == uploads[u].left - 1
           inserted == uploads[u].inserted \cup {b}
           done == [uploads[u] EXCEPT !.inserted = inserted, !.left = left]
           doc == tabs[t].doc \cup {b}
           added == Commit(t, doc)
<1>1. /\ uploads[u] \in AnUpload /\ uploads[u].left # 0 /\ uploads[u].pc = "answer"
      /\ tabs[t] \in Page
  BY UploadFacts, Typed DEF UploadAnswered
<1>2. left \in 0..2 /\ inserted \in SUBSET Blobs /\ doc \in SUBSET Blobs
  BY <1>1 DEF AnUpload, Page
<1>3. added \in Page /\ added.doc = doc /\ added.before = tabs[t].doc
  BY <1>2, CommitOK
<1>4. \A c \in added.doc \cup added.before : Known(c)
  BY <1>0, <1>1, <1>3 DEF Known, UploadAt
<1>5. UNCHANGED <<stored, sweeps, now, events, outAt>> /\ tabs \in [Tabs -> Page]
  BY DEF UploadAnswered, IInv, TypesOK
<1> HIDE DEF left, inserted, doc
<1>6. done \in AnUpload /\ done.left = left /\ done.tab = t /\ done.inserted = inserted
      /\ done.base = uploads[u].base
  BY <1>0, <1>1, <1>2 DEF AnUpload
<1> HIDE DEF added, done
<1>7. CASE AllPosted(done)
  <2>1. PICK notes \in Inserted(done, added.notes) :
          /\ tabs' = [tabs EXCEPT ![t] = [added EXCEPT !.notes = notes]]
          /\ uploads' = [uploads EXCEPT ![u] = NoUpload]
          /\ UNCHANGED disk
    BY <1>0, <1>7 DEF UploadAnswered, done, added, left, inserted, doc
  <2> DEFINE page == [added EXCEPT !.notes = notes]
  <2>2. notes \in Texts
    BY <1>1, <1>2, <1>3, <1>6 DEF Inserted, Texts, Page, AnUpload
  <2>3. page \in Page /\ page.doc = added.doc /\ page.before = added.before
    BY <1>3, <2>2 DEF Page
  <2> HIDE DEF page
  <2>4. tabs' = [tabs EXCEPT ![t] = page]
    BY <2>1 DEF page
  <2>5. \A v \in Tabs : tabs'[v] = IF v = t THEN page ELSE tabs[v]
    BY <1>5, <2>4
  <2>6. uploads' \in [Uploads -> AnUpload] /\ UploadsOK' /\ UploadsGoOn
    <3>1. uploads \in [Uploads -> AnUpload]
      BY DEF IInv, TypesOK
    <3>2. uploads' \in [Uploads -> AnUpload]
      BY <2>1, <3>1, NoUploadTyped
    <3> QED
      BY <2>1, <3>1, <3>2, UploadsSettled
  <2>7. TypesOK' /\ TimesOK'
    BY <1>5, <2>1, <2>3, <2>4, <2>6 DEF IInv, TypesOK, TimesOK
  <2>8. TimeGoesOn
    BY <1>5, TimesKept
  <2>9. SweepsOK'
    BY <1>5, <2>7, <2>8, SweepsKept
  <2>10. NothingNewKnown
    <3>1. ASSUME NEW c \in Blobs, Known(c)'
          PROVE  Known(c)
      <4>1. CASE \E v \in Tabs : c \in tabs'[v].doc \cup tabs'[v].before
        BY <1>4, <2>3, <2>5, <4>1 DEF Known
      <4>2. CASE c \in stored' \/ \E v \in Uploads : UploadAt(v, "answer", c)'
        BY <1>5, <2>6, <4>2 DEF Known, UploadAt, UploadsGoOn
      <4> QED
        BY <3>1, <4>1, <4>2 DEF Known
    <3> QED
      BY <3>1 DEF NothingNewKnown
  <2>11. NoNewUnlinking
    BY <1>5 DEF NoNewUnlinking
  <2>12. BlobsOK'
    BY <2>1, <2>6, <2>7, <2>8, <2>10, <2>11, BlobsKept
  <2> QED
    BY <2>6, <2>7, <2>9, <2>12 DEF IInv
<1>8. CASE ~AllPosted(done)
  <2>1. tabs' = [tabs EXCEPT ![t] = added] /\ Post(u, done)
    BY <1>0, <1>8 DEF UploadAnswered, done, added, left, inserted, doc
  <2>2. done.left # 0
    BY <1>8 DEF AllPosted
  <2>3. tabs' \in [Tabs -> Page]
    BY <1>3, <1>5, <2>1
  <2>4. \A v \in Tabs : tabs'[v] = IF v = t THEN added ELSE tabs[v]
    BY <1>5, <2>1
  <2>5. \A v \in Tabs : \A c \in tabs'[v].doc \cup tabs'[v].before : Known(c)
    BY <1>4, <2>4 DEF Known
  <2>6. events' \in 0..MaxEvents
    BY <1>5, Typed
  <2> QED
    BY <1>5, <1>6, <2>1, <2>2, <2>3, <2>5, <2>6, PostKeeps
<1> QED
  BY <1>7, <1>8

-----------------------------------------------------------------------------
(* The invariant.                                                          *)

LEMMA Initial ==
  ASSUME Init
  PROVE  IInv
<1>1. /\ disk = [b \in Blobs |-> Absent] /\ stored = {}
      /\ tabs = [t \in Tabs |-> Tab({})] /\ uploads = [u \in Uploads |-> NoUpload]
      /\ sweeps = [s \in Sweeps |-> NoSweep] /\ now = 0 /\ events = 0
      /\ outAt = [b \in Blobs |-> 0]
  BY DEF Init
<1>2. Absent \in File /\ Absent.used = FALSE /\ Absent.bytes = FALSE /\ Absent.mtime = 0
  BY DEF Absent, File
<1>3. Tab({}) \in Page /\ Tab({}).doc = {} /\ Tab({}).before = {}
  BY DEF Tab, Page, Texts
<1>4. TypesOK /\ TimesOK
  BY <1>1, <1>2, <1>3, NoUploadTyped, NoSweepTyped, Consts DEF TypesOK, TimesOK
<1>5. UploadsOK
  BY <1>1, NoUploadTyped DEF UploadsOK
<1>6. SweepsOK
  <2>1. \A s \in Sweeps : sweeps[s] = NoSweep
    BY <1>1
  <2> QED
    BY <1>1, <2>1, NoSweepTyped DEF SweepsOK, SweepOK
<1>7. BlobsOK
  <2>1. \A b \in Blobs : ~Known(b)
    BY <1>1, <1>3, NoUploadTyped DEF Known, UploadAt
  <2>2. \A b \in Blobs, u \in Uploads :
          uploads[u].pc = "idle" /\ ~UploadAt(u, "bytes", b) /\ ~UploadAt(u, "meta", b)
    BY <1>1, NoUploadTyped DEF UploadAt
  <2>3. \A b \in Blobs, s \in Sweeps : ~SweepUnlinks(s, b)
    BY <1>1, NoSweepTyped DEF SweepUnlinks
  <2>4. \A b \in Blobs : disk[b].bytes = FALSE
    BY <1>1, <1>2
  <2> QED
    BY <2>1, <2>2, <2>3, <2>4 DEF BlobsOK, BlobOK
<1> QED
  BY <1>4, <1>5, <1>6, <1>7 DEF IInv

LEMMA Step ==
  ASSUME IInv, [Next]_vars
  PROVE  IInv'
<1>1. ASSUME NEW t \in Tabs, Type(t) \/ Save(t) \/ UndoOrRedo(t)
      PROVE  IInv'
  BY <1>1, TypeKeeps, SaveKeeps, UndoOrRedoKeeps
<1>2. ASSUME NEW t \in Tabs, NEW b \in Blobs, Remove(t, b)
      PROVE  IInv'
  BY <1>2, RemoveKeeps
<1>3. ASSUME NEW t \in Tabs, NEW doc \in {stored, {}}, Load(t, doc)
      PROVE  IInv'
  BY <1>3, LoadKeeps
<1>4. ASSUME NEW t \in Tabs, NEW u \in Uploads, NEW by \in {"panel", "editor"},
             NEW files \in 1..2, Upload(u, t, by, files)
      PROVE  IInv'
  BY <1>4, UploadKeeps
<1>5. ASSUME NEW u \in Uploads,
             WriteBytes(u) \/ WriteMeta(u) \/ UploadAnswered(u) \/ UploadGivenUp(u)
      PROVE  IInv'
  BY <1>5, WriteBytesKeeps, WriteMetaKeeps, UploadAnsweredKeeps, UploadGivenUpKeeps
<1>6. ASSUME NEW s \in Sweeps,
             ReadReferences(s) \/ ListDirectory(s) \/ Unlink(s) \/ SweepEnds(s)
      PROVE  IInv'
  BY <1>6, ReadReferencesKeeps, ListDirectoryKeeps, UnlinkKeeps, SweepEndsKeeps
<1>7. ASSUME NEW s \in Sweeps, NEW b \in Blobs, Examine(s, b)
      PROVE  IInv'
  BY <1>7, ExamineKeeps
<1>8. CASE UNCHANGED vars
  BY <1>8 DEF vars, IInv, TypesOK, TimesOK, UploadsOK, BlobsOK, BlobOK, SweepsOK, SweepOK,
              Expired, Whole, Known, UploadAt, SweepUnlinks
<1> QED
  BY <1>1, <1>2, <1>3, <1>4, <1>5, <1>6, <1>7, <1>8, CrashKeeps, TickKeeps DEF Next

\* The invariant holds of every reachable state.
THEOREM Invariance == Spec => []IInv
BY Initial, Step, PTL DEF Spec

\* The state has its type: every file, page, upload and sweep, and their times.
THEOREM TypeCorrect == Spec => []TypeOK
<1>1. ASSUME IInv
      PROVE  TypeOK
  <2>1. disk \in [Blobs -> [bytes : BOOLEAN, meta : BOOLEAN, mtime : 0..now, used : BOOLEAN]]
    <3>1. \A b \in Blobs : disk[b] \in File /\ disk[b].mtime \in 0..now
      BY <1>1, Typed DEF IInv, TimesOK, File
    <3>2. disk = [b \in Blobs |-> disk[b]]
      BY <1>1 DEF IInv, TypesOK
    <3>3. \A b \in Blobs : disk[b] \in [bytes : BOOLEAN, meta : BOOLEAN, mtime : 0..now,
                                        used : BOOLEAN]
      BY <3>1 DEF File
    <3> QED
      BY <3>2, <3>3
  <2>2. outAt \in [Blobs -> 0..now]
    <3>1. \A b \in Blobs : outAt[b] \in 0..now
      BY <1>1, Typed
    <3> QED
      BY <1>1, <3>1 DEF IInv, TypesOK
  <2>3. \A t \in Tabs : /\ tabs[t].doc \subseteq Blobs
                        /\ tabs[t].before \subseteq Blobs /\ tabs[t].notes \in Texts
    BY <1>1, Typed DEF Page
  <2>4. \A u \in Uploads :
          /\ uploads[u].pc \in {"idle", "bytes", "meta", "answer"}
          /\ uploads[u].left \in 0..2 /\ (uploads[u].pc = "idle") = (uploads[u].left = 0)
          /\ uploads[u].inserted \subseteq Blobs /\ uploads[u].base \in Texts
    BY <1>1, Typed DEF IInv, UploadsOK, AnUpload
  <2>5. \A s \in Sweeps :
          /\ sweeps[s].pc \in {"idle", "asked", "posted", "sweeping", "unlink"}
          /\ sweeps[s].refs \cup sweeps[s].ids \subseteq Blobs
          /\ sweeps[s].at <= now /\ sweeps[s].readAt <= now
          /\ (sweeps[s].blob # None) = (sweeps[s].pc = "unlink")
    BY <1>1, Typed DEF IInv, SweepsOK, SweepOK, ASweep
  <2> QED
    BY <1>1, <2>1, <2>2, <2>3, <2>4, <2>5 DEF IInv, TypesOK, TypeOK
<1> QED
  BY <1>1, Invariance, PTL

\* What the stored document refers to can be read unless it was out of the document
\* when it was older than the time of grace, whatever sweeps run, with whatever
\* delay, from whatever tabs, and wherever the service is stopped.
THEOREM StoredStaysReadable == Spec => []StoredIsReadable
<1>1. ASSUME IInv
      PROVE  StoredIsReadable
  <2>1. ASSUME NEW b \in stored
        PROVE  Get(b) = 200 \/ outAt[b] + SweepTime >= disk[b].mtime + Grace
    <3>1. b \in Blobs /\ Known(b)
      BY <1>1, Typed DEF Known
    <3>2. Whole(b) \/ Expired(b)
      BY <1>1, <3>1 DEF IInv, BlobsOK, BlobOK
    <3>3. Whole(b) => Get(b) = 200
      BY DEF Whole, Get, Readable
    <3> QED
      BY <3>2, <3>3 DEF Expired
  <2> QED
    BY <2>1 DEF StoredIsReadable
<1> QED
  BY <1>1, Invariance, PTL

\* Notes are lost by a reload, or by the editor's insertion, which keeps what was
\* there when its button was clicked; by nothing else, the panel's included.
THEOREM NotesAreKept == Spec => NotesLostOnlyToTheEditor
<1> DEFINE Loses(t) ==
       \/ tabs[t].notes \subseteq tabs'[t].notes
       \/ tabs'[t] \in {Tab(stored), Tab({})}
       \/ \E u \in Uploads : /\ uploads[u].tab = t /\ uploads[u].by = "editor"
                             /\ uploads'[u] # uploads[u]
                             /\ uploads[u].base \subseteq tabs'[t].notes
<1>1. ASSUME IInv, [Next]_vars, NEW t \in Tabs
      PROVE  Loses(t)
  <2>1. tabs \in [Tabs -> Page]
    BY <1>1 DEF IInv, TypesOK
  <2>2. CASE tabs'[t] = tabs[t]
    BY <2>2
  <2>3. ASSUME NEW r \in Tabs, NEW b \in Blobs, Remove(r, b)
        PROVE  Loses(t)
    <3>1. tabs' = [tabs EXCEPT ![r] = Commit(r, tabs[r].doc \ {b})]
      BY <2>3 DEF Remove
    <3>2. tabs[r].doc \ {b} \in SUBSET Blobs
      BY <2>1 DEF Page
    <3>3. Commit(r, tabs[r].doc \ {b}).notes = tabs[r].notes
      BY <1>1, <3>2, CommitOK
    <3> QED
      BY <2>1, <3>1, <3>3
  <2>4. ASSUME NEW r \in Tabs, UndoOrRedo(r)
        PROVE  Loses(t)
    <3>1. tabs' = [tabs EXCEPT ![r] = Commit(r, tabs[r].before)]
      BY <2>4 DEF UndoOrRedo
    <3>2. tabs[r].before \in SUBSET Blobs
      BY <2>1 DEF Page
    <3>3. Commit(r, tabs[r].before).notes = tabs[r].notes
      BY <1>1, <3>2, CommitOK
    <3> QED
      BY <2>1, <3>1, <3>3
  <2>5. ASSUME NEW r \in Tabs, Type(r)
        PROVE  Loses(t)
    <3>1. tabs' = [tabs EXCEPT ![r].notes = @ \cup {events + 1}]
      BY <2>5 DEF Type
    <3> QED
      BY <2>1, <3>1 DEF Page
  <2>6. ASSUME NEW r \in Tabs, NEW doc \in {stored, {}}, Load(r, doc)
        PROVE  Loses(t)
    <3>1. tabs' = [tabs EXCEPT ![r] = Tab(doc)]
      BY <2>6 DEF Load
    <3> QED
      BY <2>1, <3>1
  <2>7. ASSUME NEW u \in Uploads, UploadAnswered(u)
        PROVE  Loses(t)
    <3>0. PICK b \in Blobs, r \in Tabs : b = uploads[u].blob /\ r = uploads[u].tab
      BY <1>1, <2>7, UploadFacts DEF UploadAnswered
    <3> DEFINE left == uploads[u].left - 1
               inserted == uploads[u].inserted \cup {b}
               done == [uploads[u] EXCEPT !.inserted = inserted, !.left = left]
               doc == tabs[r].doc \cup {b}
               added == Commit(r, doc)
    <3>1. uploads[u] \in AnUpload /\ uploads[u].left # 0 /\ uploads[u].pc = "answer"
      BY <1>1, <2>7, UploadFacts DEF UploadAnswered
    <3>2. left \in 0..2 /\ inserted \in SUBSET Blobs /\ doc \in SUBSET Blobs
      BY <2>1, <3>1 DEF AnUpload, Page
    <3>3. added \in Page /\ added.notes = tabs[r].notes
      BY <1>1, <3>2, CommitOK
    <3> HIDE DEF left, inserted, doc
    <3>4. done.inserted = inserted /\ done.base = uploads[u].base /\ done.by = uploads[u].by
      BY <3>1, <3>2 DEF AnUpload
    <3> HIDE DEF added, done
    <3>5. CASE AllPosted(done)
      <4>1. PICK notes \in Inserted(done, added.notes) :
              /\ tabs' = [tabs EXCEPT ![r] = [added EXCEPT !.notes = notes]]
              /\ uploads' = [uploads EXCEPT ![u] = NoUpload]
        BY <2>7, <3>0, <3>5 DEF UploadAnswered, done, added, left, inserted, doc
      <4>2. tabs'[t] = tabs[t] \/ (t = r /\ tabs'[t].notes = notes)
        BY <2>1, <3>3, <4>1 DEF Page
      <4>3. uploads'[u] = NoUpload /\ uploads'[u] # uploads[u]
        <5>1. uploads \in [Uploads -> AnUpload]
          BY <1>1 DEF IInv, TypesOK
        <5> QED
          BY <3>1, <4>1, <5>1, NoUploadTyped
      <4>4. \/ tabs[r].notes \subseteq notes
            \/ uploads[u].by = "editor" /\ uploads[u].base \subseteq notes
        BY <3>3, <3>4, <4>1 DEF Inserted
      <4> QED
        BY <3>0, <4>2, <4>3, <4>4
    <3>6. CASE ~AllPosted(done)
      <4>1. tabs' = [tabs EXCEPT ![r] = added]
        BY <2>7, <3>0, <3>6 DEF UploadAnswered, done, added, left, inserted, doc
      <4> QED
        BY <2>1, <3>3, <4>1
    <3> QED
      BY <3>5, <3>6
  <2> QED
    BY <1>1, <2>2, <2>3, <2>4, <2>5, <2>6, <2>7
    DEF Next, vars, Save, Upload, WriteBytes, WriteMeta, UploadGivenUp, ReadReferences,
        ListDirectory, Unlink, SweepEnds, Examine, Crash, Tick
<1> HIDE DEF Loses
<1>2. IInv /\ [Next]_vars => [\A t \in Tabs : Loses(t)]_vars
  BY <1>1
<1>3. Spec => [][\A t \in Tabs : Loses(t)]_vars
  BY <1>2, Invariance, PTL DEF Spec
<1> QED
  BY <1>3 DEF NotesLostOnlyToTheEditor, Loses
=============================================================================
