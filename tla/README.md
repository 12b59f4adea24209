# A verification project for RevisionWorks

RevisionWorks is a study planner: a browser application (Next.js, a zustand
store) over four small services. This directory holds TLA+ models of its core,
TLC configurations that check them on small instances, and proofs that TLAPS
checks for all instances. Definitions are translated from the code; the file
`PROJECT.json` names for each the lines it stands for.

    tlc -config save_queue.cfg MCSaveQueue.tla     # model-check one run
    tlapm SaveQueueProofs.tla                      # check the proofs
    tlapm AiQuotaProofs.tla                        # and so for every ...Proofs module

## 1. Inventory

| Component | State it keeps | Operations | What is hard about it |
|---|---|---|---|
| Save queue (`store/saveQueue.ts`) | timer, inFlight, rerun, rerunKeepalive, saveState | schedule, flush, run | interleaving of timer, tab events and answers; late and lost writes |
| Document store (`store/useStore.ts`, `history.ts`, `silentFields.ts`) | subjects, chapters, topics, tags and their orders; past, future | 30 edits, undo, redo, hydrate with `normalizeData` | hierarchy stored in both directions; undo must not revert typing; a load completes old documents and saves nothing |
| Sessions and hydration (`AuthProvider.tsx`, `StoreHydrator.tsx`, `lib/auth/client.ts`, `ApiRepository.ts`, `api/data`) | session, token, hydratedUserRef, hydrated | session check, login, sign-out, reload, load, seed | a store, a queue and a token shared by successive sessions; a check answered after a login; failures that look like "no data" |
| content-service: documents | `app_data` rows, statistics | GET, PUT | late upserts, statistics in the same transaction, uncaught exceptions |
| content-service: statistics and cohort views | `user_stats`, `user_activity`; roster cache (60 s) | derive, recompute; gate, summary, students, drill-down | statistics against the row they come from, local days against UTC, staleness of authorisation |
| Revision scheduling (`shared/revision.ts`, `lib/revision/engine.ts`) | none (pure) | intervals, badges, streaks, history edits | boundaries of days, sorting, clamping |
| auth-service: accounts | users, tokens, attempt windows | register, verify, login, set-email, reset | check-then-act, partial failure, reuse of links |
| auth-service: organisations | organisations, groups, memberships, invite codes | create, promote, invite, join, remove | concurrent joins and removals, roles never lowered |
| files-service | blobs on disk | upload, read, delete, sweep | sweep against upload, save and undo; two files per blob |
| ai-service | daily quota, breaker, usage log | generate, kept | claim and refund around a slow call, midnight, crash |
| Panels (flashcards, attachments, editor) | component state across an await | upload, quiz, generate | stale closures |
| Pages (home, subject, chapter, insights, coaching, account pages) | filters, selections | queue, chips, search, agenda, calendar, figures | many computations of what should be one number; answers out of order |
| Proxies, validation, layout, themes, seed, deployment | - | - | not modelled: stateless or layout |

How they interact. Every edit calls `persist()`, which arms the queue's timer;
the queue takes a snapshot of the store and sends it with `repo.save()`; the
route `PUT /api/data` forwards it to content-service and gives up after 5 s;
content-service upserts the row and the derived statistics in one transaction.
Signing in runs `hydrate()`, which loads the row (the route seeds a missing one)
or, if loading fails for whatever reason, installs and saves the seed itself.
After hydration the files sweep removes blobs the stored document does not
mention. Cohort views ask auth-service for a roster and cache it.

What makes each component correct: the queue never has two saves in flight,
forgets no edit and never lies about it; the store keeps the hierarchy linked in
everything undo can bring back and never reverts typing; a session sees and
stores its own document only and rows move forward; tokens verify what they were
mailed for; nobody's role is lowered by joining; the sweep deletes nothing that
is, or can again be, referred to; a day's use stays within the quota and is
refunded only if nothing was billed. `PROJECT.json` lists the hazards line by line.

## 2. Modules

| Module | Models | Role |
|---|---|---|
| `Autosave` | what autosave promises | abstract specification |
| `SaveQueue` | save queue, tab events, `hydrate()` beside it, a PUT's way to the row | component; refines `Autosave` |
| `SaveQueueProofs` | | invariant, safety and refinement, proved |
| `SyllabusDoc` | the document and what each edit makes of it | pure operators |
| `RevisionStore` | commit, commitSilent, history, undo, redo, hydrate and what it makes of old documents | component over `SyllabusDoc` |
| `DocumentSync` | one tab, several users: session checks, logins, hydration, queue, rows | composition |
| `Accounts` | registration, verification, login, set-email, password reset, and their pages | component |
| `Organisation` | groups, memberships, invite codes | component |
| `Coaching` | the coach's page, the gate and its roster cache | composition over `Organisation` |
| `Attachments` | uploads, blobs, the sweep, two tabs | component |
| `AiQuota` | quota, breaker and log of card generation, and the panels | component |
| `AiQuotaProofs` | | invariant and the three properties of `AiQuota`, proved |
| `Revision` | the revision engine and the views by topic | pure operators |
| `Screens` | what the pages show of a document | pure operators |
| `Statistics` | a student's edits, the transactions of content-service, the statistics | component over `Screens` |
| `Cohort` | what a coach is shown of it | views over `Statistics` |
| `StatisticsProofs` | | the views of a document agree, and what is stored and shown of it, proved |
| `RevisionStoreProofs`, `DocumentSyncProofs`, `AccountsProofs`, `CoachingProofs`, `AttachmentsProofs` | | invariants of these modules and the properties they entail, proved |
| `MC...` | | instances for TLC |

Some definitions have a neighbour with a longer name (`Run`, `RunUnguarded`):
a faulty variant that no action uses. Replacing the definition by it must
violate a property; this is how each property was shown to be able to fail.

### SaveQueue

A document is a version, and versions are numbered as they come to be: by an edit,
or by `hydrate()`, which installs a seed or a document that is older than what is
shown. JavaScript runs a handler to completion and `run()` takes its snapshot before
its first `await`, so each handler is one action: `Edit` (commit and schedule),
`TimerFires`, `TabHidden` and `PageHide` (flush), `Answered` and `Failed` (run
after its await, `Continue`). `wire` holds the requests somebody waits for or
the content service may still execute; `Failed` keeps the request of which the
page was told that it failed but which is executed later (`Executes`), the 5 s
limit of `contentClient.ts`. `PageHide` freezes the page, `PageDropped` ends it:
ordinary requests may then be cancelled, keepalive requests not - but a keepalive
request whose body is too large is `refused` from the start.

`hydrate()` is the second writer of the indicator and of the row. A sign-in calls
it (`Hydrate`) whatever the queue is about; the GET route reads the row and seeds a
missing one (`RouteReads`, `RouteSeeds`); `LoadArrives` installs what was read;
`LoadFails` installs the seed and saves it past the queue, and when that save fails
`SeedSettled` shows "error". (It never shows "saved".) `displaced` says that what is
shown has come from a `hydrate()` that overlapped with work of the queue; `alarm`
that it was `hydrate()` that set the indicator; `stored.stray` that the row was
written past the queue.

The run `save_queue` checks that the queue waits for one save at most
(`SingleFlight`), that the last edit is always accounted for
(`LastEditAccountedFor`), that the indicator is truthful (`SavedMeansStored`,
`QuietMeansIdle`), that a tab closed with only a pending edit loses nothing if the
browser accepts the keepalive request (`PendingEditSurvivesPageHide`), that writes
the queue waits for land in order (`AwaitedWritesLandInOrder`), that all this
implements `Autosave` (`ImplementsAutosave`), and that saving ends (`SavingEnds`).
The exceptions in these properties are what the code does not protect against: a
document `displaced` by `hydrate()` while the queue was busy, an `alarm` of
`hydrate()` over a running save, a row written past the queue. The abstract
specification says the same without timers and requests: what is stored only
moves forward, "saved" is said of a stored draft only - except for writes past the
queue, which may put any version there. Without this exception no implementation
over a proxy that gives up is correct, and the run `queue_landing_order` shows why.

Four versions and one `hydrate()` give a save in flight, its follow-up, a window
that opens meanwhile and a seed saved past them; a fifth version repeats one of these.

Fairness is weak and on two actions: an armed timer fires, a request of the queue is
settled, if only by the time limits. Nothing is assumed of the user, of the tab, of
loads or of the server. A closed page does nothing: no deadlock check.

### SyllabusDoc and RevisionStore

A document is the record of maps and orders of `types.ts`. Names, colours,
attachments, cards, bookmarks and archive stamps are the one field `details`;
notes, revision history and plan are numbers, the stamp of the edit that gave
them. A plan may also be `NoPlan`, the code's null of a plan that was cleared or
fulfilled, or `Absent`, its undefined. Every store operation is an operator of
`SyllabusDoc` with the guard of the code in `RevisionStore`; `commit` records the
present document, clears the redo branch and calls `persist()`; silent edits only
call `persist()`. `ToggleTag` takes any id, as `toggleTopicTag` does, which looks up
the topic and never the tag; `unknown` are the ids so used that were no tag's at the
time. `Snapshot` is the moment at which the queue takes the document. Ids are
fresh with respect to every document the store still holds, as random ids are.

A load installs `normalizeData` of what was stored (`Install`, `Loads`): fields that
are missing are filled, a topic that was revised and has no plan at all inherits the
suggestion, and a document from before tags gets the built-in tags, under new ids
each time. None of this calls `persist()`. `handed` is what the repository was last
given or last gave, in its old form where it has one.

The run `revision_store` checks that the hierarchy is consistent in the present,
past and future documents (`HierarchyLinked`), and so are the tags, but for ids
that were toggled when they were no tag's (`TagsNeverDangle`); that a topic on the
screen always has the notes, revisions and plan it was last given
(`TypingNeverReverted`); that undo and redo are inverse (`UndoRedoRoundTrip`); that
past and future together never exceed the limit although `redo` does not look at it
(`HistoryBounded`); and that with no save due a load of what was last handed over
gives the document on the screen (`LoadShowsTheScreen`). The last one is about two
things at once. Whatever bypassed `persist()` would break it, and so would an edit
that leaves a plan absent instead of null: `normalizeData` would plan at the next
load a topic whose plan the student has just fulfilled. That what a load adds is
itself unsaved is harmless but for the new tags' ids, which is why it says that the
screen is *one of* the documents the load can give.

Three edits per document with unlimited undo, redo and loads between them are
enough to delete, restore and reorder around each other; a history of two makes the
limit bite; two subjects, three chapters, three topics and two tags leave one fresh
id of each kind. The store starts empty or with a document from before tags and
plans, one of its topics revised. No stored document names a tag, so that tags are
alike and symmetry is used. About a million states.

### DocumentSync

Two users of one tab. A document is `[owner, version]`; the seed is version 0.
A page starts with a session check under way (`check`, the token its request
carries) and a login form that does not wait for it: `LoginAsked` and its answer
(`LoginAnswered`, `LoginFails`) interleave with that of the check, which installs the
session of its token (`CheckAnswered`), clears whatever token there is
(`CheckRefused`), or neither (`CheckThrows`). Every change of the session goes
through `SessionBecomes`, with `Hydration(s)` the effect of `StoreHydrator`: it
hydrates for a new user and forgets the old one. `Load` records are calls of
`hydrate()` that wait: the route reads the row or seeds it (`RouteReads`,
`RouteSeeds`), the answer arrives (`LoadArrives`) or anything fails (`LoadFails`),
which installs the seed and saves it past the queue. A `Put` carries the token of
the moment it is sent. `EditEarly` is the dashboard's "add subject" before the
document is there.

Two auxiliary variables say under what provision the properties hold. `orderly`:
nobody has edited before the document was there, and every session was left, by
sign-out, reload or a late check, with no work pending. `healthy`: no request has
failed; that a check without a token is refused is no failure. Then what is shown is
the signed-in user's (`ShownIsOwn`, failures allowed), each row is its user's
(`RowsAreOwn`, failures allowed), rows only move forward (`RowsMoveForward`), and a
page at rest has stored what it shows (`RestMeansStored`). In particular a check
that is answered after a login, and replaces its session while nothing is pending,
breaks none of these. Without provision: a skeleton always has a load behind it
(`SkeletonsEnd`). That nothing else is needed is the point: the provision is the
list of what the code does not protect against. What happens outside of it is in
the model and in no property, except for the isolation the repository promises, which
`sync_isolation` refutes (section 3).

Bounds: one edit above the stored version, two logins, one reload, one late
write; two users, alike, so symmetry is used (no property of the run is
temporal). Two saves in flight of one queue are `SaveQueue`'s subject. About 2.5
million states.

### Accounts

A tab shows one page and has at most one request under way; a request runs from
await to await, each database statement one step: `CreateUser`, `CheckCooldown`,
`InsertToken`, `SendMail`, `ConsumeVerification`, `MarkVerified`,
`CheckUnverified`, `SetEmail`, `ConsumeReset`, `UpdatePassword`. A statement may
fail (`Fail`), a mail may be lost, and the process may end, as it does on a
rejected query of `/login`, which no `try` surrounds (`Crash`): the limiter's
memory goes with it. `links` are the rows of both token tables; a password is
the number of the request that chose it. An attempt on the limiter is a request and
its time, so that two of one moment are two.

The run `accounts` checks that a verified address was written to
(`VerifiedByMail`), that a reset link writes one password at most
(`OneResetPerLink`), that the limiter lets no more than the maximum through in
any window (`AttemptsBounded`), that what a page reports has happened
(`ReportedMeansDone`), and that an account registered with an address keeps it
(`AddressKept`), although `set-email` checks in one statement and writes in another:
nobody is signed in to such an account before its address is verified. The history variable `muddled` names the accounts of which
`VerifiedByMail` does not hold: their address was replaced while a link to an
older one could still be opened, because tokens belong to the account and not to
the address. The property says that this is the only way.

Bounds: one new and one grandfathered account, two addresses, two tabs, three
requests, one fault, three instants: enough for two requests to race for one
row, for a resend after the cool-down, for a link that is used again within its
grace or after its time, and for an attempt on either side of a window.

### Organisation and Coaching

`Organisation` has one action per statement of a handler, so that joins,
appointments, revocations and removals overlap; the first check of a handler is
taken with its arrival, which nobody can tell apart. Any person may send any
request. `Coaching` adds the content service's roster cache (`Gate`,
`ReadMembers`, `RosterArrives`; an entry is dated from its arrival) and the
coach's page with its requests, whose answers come in any order or not at all.

The run `coaching` checks that a head is one until removed (`HeadsStay`: the
promise of `addMembership`'s comment), that someone removed stays out while
nothing lets them in again (`ExpulsionHolds`), that an answer is not made from a
roster older than `Ttl + FetchTime` (`AnswersAreRecent`, not `Ttl` alone: the
fetch counts too), and that the page shows the group and the view selected, unless
it was refused them or an earlier question was answered last
(`ShownIsSelected`). The last clause is the code's: the students' effect of the
page compares nothing when an answer arrives.

Bounds: two people, two groups, two requests under way on either side, three
requests to the auth service (one once the coach uses the page), two clicks,
three instants with both times 1. `FetchTime` is the runtime's own limit on a
fetch, there being none in the code. One organisation, since no statement
touches the rows of two. The organisation of a fresh database and one with all
its groups are both initial states, so that neither has to be built first.

### Attachments

A document is the set of blobs it refers to. Writing a blob is two steps, the
bytes and the metadata, and so is deleting it; a sweep reads the stored document
(`ReadReferences`), lists the directory (`ListDirectory`) and examines entry by
entry (`Examine`, `Unlink`); the service may end between any two steps
(`Crash`). Two tabs of one user add, remove, undo, save and reload, each reload
asks for a sweep, and the panel and the editor upload while the user types.

The run `attachments` checks that a blob the stored document refers to is
readable, unless it had been out of the stored document when it was as old as
the time of grace (`StoredIsReadable`): the exception is what a long-lived tab's
undo, or the overwriting of one tab's save by another's, can do after a day, and
nothing else can. `NotesLostOnlyToTheEditor` says that text is lost only by a
reload or by the editor's image, which inserts into the text of before the
upload.

Bounds: two blobs, two tabs, one upload and one sweep under way, four things the
user does, a grace of two instants and a sweep that starts within one
(`PROXY_TIMEOUT_MS` is far below `GC_GRACE_MS`). Two sweeps at a time only
delete what one of them would have. Of a tab's history there is one step; the
rest is `RevisionStore`'s subject.

### AiQuota

One step between two awaits of `POST /flashcards`: the breaker's look
(`Receive`), the conditional claim (`Claim`, `ClaimRefused`, `ClaimFails`), the
provider's answer with the trip of the breaker (`ProviderAnswers`), the log and
the refund, either of which may fail (`Succeed`, `Settle`). A panel may give up
on a request that goes on. `Midnight` is a step of its own, since a claim and
its refund may lie on either side of it; `ran` and `lost` are history.

The run `ai_quota` checks the ledger (`UnitsAccountedFor`: each unit of a day
bought a run of the model, is under way, or was lost to a crash or to the
database), the breaker (`BreakerHolds`) and the kept counts
(`KeptIsOfItsCards`); all three are proved in section 4.

Bounds: one user with two panels, two requests, a limit of one, so that a second
claim is refused until a refund; a cool-off of two of three instants; two days;
three generations or crashes. The proofs have none of them.

### Revision, Screens, Statistics and Cohort

`Revision` holds the engine (`packages/shared/src/revision.ts` and the browser's
`engine.ts`) as operators over a topic's history and plan, with days of `Day`
ticks and a zone of the student's own; `Screens` what the pages make of a
document. Topics lie in chapters, which partition them (`Chapters`; one of them may
be empty), and chapters in one subject; each of the three can be archived. A
percentage is a quotient of integers, rounded, and the subject's is the mean of its
chapters' as in `progress.ts`: small and large chapters count alike.

`Statistics` gives them states: a student revises, edits and deletes
revisions, plans and archives, time passes, and the content service's
transactions (`Put`, `WriteDoc`, `WriteStats`, `Commit`) and the one-off
`Recompute` run statement by statement, with the row locks, and fail. The student
starts with a new document, or with one from before plans that `normalizeData` has
just planned (`OldDocs`); `inherited` are the topics whose plan is still that one.
Such a plan is the very moment of the suggestion, where every plan the student
makes begins a local day. `Cohort` is what the `/cohort` routes answer of one
student. `rows` are the student's rows of the tables, `<<>>` where there is none.
Every count that the code adds up in a loop is `Total` of a function, the sum over
a finite set.

The run `statistics` checks what is stored and what a coach is shown of it:

- `StatsMatchDocument`: the statistics committed are those of the document
  committed, except after a recomputation that overlapped a PUT (`behind`);
- `CoachSeesTheQueue`: days are the student's in the browser and UTC's in the
  service. What is overdue for the student is due or overdue for the coach, and what
  is overdue for the coach is in the student's queue. For plans the student has
  chosen more holds: what is overdue for the student is overdue for the coach, and
  all of the queue is due or overdue. A plan stored as picked breaks this; those of
  `normalizeData` do, too, and are excepted by name;
- `CoachViewsAgree`: row, summary and drill-down agree at any later time, though
  the one is made from stored statistics and the other from the stored document.

The run `views` checks what the student is shown:

- `HistoryOrdered`: a history stays in order, none of it in the future;
- `ViewsAgree`: home page, chips and search; cards and insights; agenda; calendar,
  week strip and heatmap compute the same lists and numbers, each by code of its
  own. The conjuncts are named after the pages (`HomeAgrees`, `FiguresAgree`,
  `AgendaAgrees`, `CalendarAgrees`), and each says where two pages differ on
  purpose or by accident. The percentage of a card and that of the gauge are such a
  difference: with one chapter of one topic in good standing and another of three
  that are not, the card says 50 and the gauge 25. They agree when there is one row;
  what holds in general is that the card lies between its rows.

Bounds of `statistics`: two topics in one chapter, days of two ticks, a zone of a
tick east of UTC (so that the local midnight and that of UTC are both passed, one
tick apart), four edits or transactions from the middle of the first day to that of the second,
two transactions under way, two revisions to a topic, one score, activity of one
day (30 in the code). Bounds of `views`: three topics in chapters of two and one,
three edits in the second UTC day, no transactions; zones of a tick east and west
of UTC, in either of which midnight falls between its two ticks; an agenda horizon of a day (14 in the code), a week of one (7). `ViewsAgree` is of
states in which nothing has been put: the views read the document, the time and the
zone only, which no transaction writes, and every edit is possible there. Every
boundary - before, on and after the day, the horizon and the window - is on
either side of some reachable plan or revision. Topics of a chapter and
transactions are alike, so symmetry is used. 1.4 million and 97 thousand states.

None of these components states fairness, since their properties are about
safety: nothing in the code makes a person, a provider or a database act. The
checks for deadlock are off because a bounded model comes to its end.

## 3. Disagreements found

- `queue_flush_comment`: the comment in `saveQueue.ts:33-38` says that a request
  in flight with the timer null carries the latest data. It does not when the
  timer has fired during the flight and a follow-up is pending.
- `queue_landing_order`: "requests can never land out of order" (`saveQueue.ts:5`)
  does not hold for a request the route gave up and content-service executes later.
- `sync_isolation`: a load that outlives its session installs the former user's
  document under the next user, whose next edit stores it in the next user's row. A
  session ends by sign-out, or by the check of the page's start: it may be answered
  after a login, and a late 401 clears the new token and session (`client.ts:61-65`,
  `AuthProvider.tsx:52`).

Smaller ones met while modelling, which no run refutes by itself; the models
have what the code does.

- "Save failed - retrying" (`HeaderControls.tsx:21`) is shown while nothing is retried
  before the next edit.
- `AuthProvider.tsx:19` has the session injected after a login avoid a stale-session
  race. A late 200 of the session check puts the former user's session and tokens in
  its place.
- The comment `insights/page.tsx:27`, "Every topic falls in exactly one band; the
  four sum to totalTopics": a topic planned for today or earlier and never
  revised is in two bands. They still add up, since "on track" is what is left,
  which is therefore too small by those topics; `FiguresAgree` says by how much.
- `FlashcardsPanel.tsx:18-19` says that every call of `markRevised` must be
  followed by the dialog that plans the next one; `TopicCard.tsx:112` is not.
- Account pages accept passwords of six characters (`register/page.tsx:69`,
  `reset-password/page.tsx:20`), the service asks for eight.
- The comment `tokenStore.ts:35-40` has a second visit of a verification link
  succeed; it does not when the link expires between the two.
- The editor's file input offers SVG (`MarkdownEditor.tsx:63`,
  `AttachmentsPanel.tsx:63`), which the service refuses (`server.ts:11`).
- In a coach's row `streakDays` is that of the last write (`cohort.ts:119`), and
  "Not started" comes before "Overdue"; the sparkline calls its last bar "today",
  whatever its day.
- A subject card's percentage is a mean of rounded percentages, the gauge's that of
  all topics: they differ when chapters differ in size.
- `toggleTopicTag` stores an id whether or not there is such a tag; no caller passes
  another.
- A plan that `normalizeData` gives an old document is a moment and not a day's start,
  as every other plan is; by days of UTC a coach may not count it as overdue yet.
- A subject card's "due" badge counts unplanned and never revised topics too; the
  percentage of a cohort is that of topics ever revised, that of the insights page
  of topics in good standing.
- `set-email` stores the address before the cool-down refuses the mail with 429.
- A generation whose connection breaks after the model ran is classified as
  `unavailable` and refunded; the model counts it among the refusals.
- If the first summary of the coaching page fails, the page stays at "Loading..."
  (`page.tsx:89` comes before the error of line 122).
- A load that fails installs a seed without attachments, and the sweep that
  follows may delete what the saved seed no longer refers to.

## 4. What is proved

`SaveQueueProofs`, for any number of versions and of `hydrate()` calls. The properties
of section 2 are not inductive. The invariant `IInv` adds: no request of the queue is
newer than what is shown (`Numbered`); a row written in order is not ahead of the save
in flight, nor of the page, unless the page has nothing to save (`RowBehind`); with no
timer armed and no follow-up asked for, the save in flight carries the version on the
screen, unless `hydrate()` has displaced it (`LatestOnItsWay`); an awaited request that
is executed has stored its version unless something has been written past the queue
since (`ExecutedIsStored`); a follow-up is asked for only during a flight; the alarm of
`hydrate()` says "error"; and an idle queue has stored what is shown, leaves that to
`hydrate()`, or has reported the failure (`IdleSettled`). The proof has one lemma per
action or group of actions (`SendStep`, `ContinueStep`, `SeedStep`, `LoadStep`,
`RouteStep`, `DroppedStep`, `ExecutesStep`). From `IInv` follow
`TypeOK`, `SingleFlight`, `LastEditAccountedFor`, `SavedMeansStored`,
`QuietMeansIdle`; the action properties `AwaitedWritesLandInOrder` and
`PendingEditSurvivesPageHide`; and, step by step, the refinement
`Spec => Abstract!ASpec`. For a page that is dropped the invariant is too weak by one
clause, `BusyForAReason`: "saving" is said with a timer armed or a save in flight, and
a page that is not open has no timer. So the save in flight is the one that
`pagehide` flushed or found, and only ordinary or refused requests do not outlive it.

`AiQuotaProofs`, from `AiAssumption` alone: any set of users and panels, a finite
set of request slots, a positive limit, any cool-off. The conjuncts of its `IInv`:

- `SlotsOK`: a request past the breaker has a user and a row of the quota, and
  arrived no later than now. Without it the ledger is not inductive, because a
  refund would not be known to go to the row of its claim.
- `UnitsAccountedFor` with `Pending(k)`, the requests whose unit of row `k` is
  neither spent nor given back: a claim adds a request to the set, a run of the
  model or a refund takes one out, a crash turns all of them into `lost`. The
  lemmas on `Pending` say how its cardinality moves (`PendingMoves`), so that each
  action is a small sum. A refund finds its row above zero because its own
  request is pending, which is why the `GREATEST(.., 0)` of the code never bites.
- `TrippedLast`: after a 429 `openUntil` is that time and the cool-off, however
  many requests hear another; hence `BreakerHolds`.
- `IdsOK`: an id that a request, a panel or a report carries cites a row of the
  log of the very generation whose cards it came with; hence `KeptIsOfItsCards`.

Proved of it: `TypeCorrect`, `QuotaExact`, `BreakerSafe`, `KeptIsOwn`.

`DocumentSyncProofs`, for any users and bounds, with logins and session checks in any
order. The two provisions of the properties divide `IInv`: without any, `TypesOK` and
`SessionOK` (the hydrator has followed the session; the token is the session's or gone;
a document is there or a load is); while `orderly`, `Owned`
(with no session there is no work; store, loads, requests and rows belong to their
users, and a request carries the token of the session or none); while also
`healthy`, `InStep` (the queue's request is the only one, and of row, request and
store none is newer than the next; a load knows what the row is). Neither of the
last two can do without the one before: that a request writes the row of its own
document is what keeps the versions of that row comparable. From it follow
`ShownIsOwn`, `RowsAreOwn`, `RestMeansStored`, `SkeletonsEnd` and the action
property `RowsMoveForward`, whose two writers are treated apart: the queue's
request is not older than the row, and the route seeds only where there is none.
Every way in which a session begins or ends is one lemma about `SessionBecomes`: it
needs to know of the old session only that its work is done, and of the token that it
is the new session's. That `id`s of requests differ is not needed and not proved: it is an artefact of
the model.

`AccountsProofs`, for any names, addresses, tabs and times: every property of the
run, from three invariants.

- `IInv` is the type and `WritersOK`, which is why a link writes one password: a
  request about to write is the only one of its link, which is used and for which
  nothing has been written; an unused link has written nothing.
- `MInv` relates pages and links to the accounts they speak of. `TabsMean` says for
  each place of a handler what the request there has found and done, and what a page
  has shown; `PostOK`, that a verification link which can still be opened goes to the
  present address of its account unless that is `muddled`, and that a link waits for
  one mail; `AddressesOK`, that who is not grandfathered has an address from the
  start. `VerifiedByMail` is inductive only with all of these: when `MarkVerified`
  comes, the address must still be the one the link went to that was consumed one
  statement earlier. From it follow `ReportedMeansDone` and the action property
  `AddressKept`, and also that only grandfathered accounts are ever muddled, which no
  run checks.
- `LInv` is about the limiter: of the attempts let through, those younger than
  `Window` are among those the service still counts. An attempt can join only windows
  that the counted ones fill to the limit at most.

`CoachingProofs`, about `Organisation` as the coach's page extends it: `HeadsStay`,
for which `TablesOK` names the head of every removal under way, and
`ExpulsionHolds`, from `OutForGood`: who was removed with no way back has no
membership, no usable code of the group and no request past its check. The second
half, `AnswersAreRecent`, follows a roster from the two statements that read it:
what a fetch has read is the present roster, or the roster has changed since the
fetch began; an entry of the cache holds the present roster, or it has changed at
most `FetchTime` before the entry was made or later; and an answer is made from an
entry younger than `Ttl`. `Ttl` must be positive: with none the fetch itself could
be older than the sum. That a request names a group is the page's doing, hence
`PageOK` and `GroupsKnown`.
The last part proves `ShownIsSelected`, which adds only that a page that is not ready
has selected nothing: the property names every excuse a page can have, so that it is
its own induction. A change of selection asks the questions that excuse it, a question
is kept while it is under way, and its answer settles it or belongs to an earlier one.

`RevisionStoreProofs` has two parts. The first proves one lemma per edit of
`SyllabusDoc`:
a well-formed document stays so, for any number of subjects, chapters, topics and
tags and lists of any length. First lists: what append, filter and `arrayMove` make
of a list that holds each of some ids once. Then one level of the hierarchy by
itself (`Level`, parents with lists of children), because subjects and chapters are
related as chapters and topics are; there are seven ways to change a level. Then
each edit, as one of these ways for either level. `WellFormedIs` says that this is
`IsDocument`, `Linked` and `TagsResolve` of the model.

The second part is about histories, for every `MaxHistory` and any initial documents
that are well formed: `TypeOK`, `HierarchyLinked`, `TagsNeverDangle`, `HistoryBounded`,
`TypingNeverReverted`, `UndoRedoRoundTrip`, `LoadShowsTheScreen`; every safety
property of the run. The bound is not inductive for `past` alone: `redo` appends to
it unchecked, so the invariant bounds both lists together. Nor is
`TypingNeverReverted`, since undo brings topics back that the present document does
not have. The invariant takes past, present and future as one line of documents:
a topic that is in two of them is in all between (`NoComeback`), because fresh ids
are new to the whole line and an edit drops what is ahead of it; and the document
nearest to the present that has a topic says of it what it was last given
(`NearestIsLatest`). One step along the line keeps both. The edits are needed here
for which topics they make and that they leave the silent fields of the others
alone (`EditMaking`). For `LoadShowsTheScreen` nothing a topic was last given
may be a revision with an absent plan (`Settled`), which a load would change: loads and
`markRevised` see to it, and undo keeps it because it carries plan and history together.

`AttachmentsProofs`, for every grace and sweep time the assumptions allow:
`TypeOK`, `StoredIsReadable`, `NotesLostOnlyToTheEditor`. The invariant follows a
blob from its first byte: before it nothing refers to it and no sweep can unlink
it; whatever is referred to (by a stored document, a tab, an upload that is
answered) is whole or has been out longer than the grace; and a blob that a sweep
did not find in its references was out when these were read (`SweepOK`), which is
at most `SweepTime` before the sweep compares ages.

`StatisticsProofs`, for any topics in any chapters, zones, length of the day, horizon,
week and number of transactions: every property of the runs `statistics` and `views`,
and `ViewsAgree` without its provision (`ViewsAlwaysAgree`: the views agree while
transactions run, too). What is invariant over the steps is little: each topic is good
(`GoodTopic`: its history sorted and past), its plan is the start of a day of the
student's zone unless it is inherited (`PlansGood`), transactions and rows hold
documents, and `StatsMatchDocument`. That editing keeps a history sorted is
the lemma `ByTimeSorts`: the place of an entry is another for each entry, so that the
sorted history is a permutation. Everything else is about one state:

- Sums. `Total` is the library's fold, defined by `CHOOSE`. That the recursive function
  it speaks of exists for every finite set, that any element can be taken out first,
  and that counts by key add up to the count of all (`TotalCounts`) is proved by
  taking a smallest set for which it fails (`SmallestSubset`, from the well-foundedness
  of strict inclusion): this does for finite sets what an induction would.
- `BadgeIs`, `PlaceIs`: badge and place in the agenda as conditions on the planned day
  and the last revision. `DoneIs` is where the order of histories is used: a topic has a
  revision of today exactly when its last one is of today, because none lies in the
  future. The calendar asks the one, the agenda the other.
- Entries. A revision is a pair of a topic and a place in its history; revisions by
  topic, by day, of the insights page, the heatmap and the calendar are all the number
  of entries (`LengthsAddUp`, `RevisionsAddUp`, `RevisionsAre`).
- Days. `DaysAtTheEdge`: a plan that starts a local day is past by UTC's days when it
  is past by local ones, and past or of today by local days when it is past by UTC's.
  Of a plan for any moment it is only true that what is past by the days of one
  zone is past or of today by those of another (`DaysOfTwoZones`). Zones are any integers.
- Percentages. `RoundedIs` says what `Math.round` makes of a quotient; the rounded mean of
  integers lies between the least and the greatest of them (`MeanIsBetween`), and the
  chapters have the active topics between them (`RowsHaveAll`).
- `HomeAgrees`, `FiguresAgree`, `AgendaAgrees`, `CalendarAgrees` and `CoachViewsAgree`
  follow conjunct by conjunct (`IInvHome` and so on).

The proofs asked for two assumptions that TLC had not missed: topics, chapters and the
subject are not each other, being rows of three maps in the code; and `None`, the
code's null, is not the status "overdue".

Model-checked only: `SavingEnds`, since liveness is beyond the proof system. Every
other property of the passing runs is a theorem.
The types of `AiQuota`, `SaveQueue` and `Accounts` are among the theorems and in no run. No
module that is proved about, or used by one, has a recursive operator; nor has any
other.

## 5. Plan

Every safety property of the passing runs is proved. What could be added:

1. An abstract specification of blobs (what is referred to is readable, unless it has
   been out longer than the grace) for `Attachments` to refine, as `SaveQueue` refines
   `Autosave`.
2. The same of roles, which only an appointment raises and only a removal ends, for
   `Organisation`.

## 6. Not modelled, and why

- Rendering, layout, themes, dialogs, drag and drop, the order and the number of
  rows, colours and titles: no state that outlives a view.
- Of the revision views: notes, tags, bookmarks, several subjects
  (the statistics by subject repeat the totals), changes of the clock, clocks
  that differ between browser and service. Percentages are quotients of integers; the
  code's floating point may round an exact half the other way. The services and the database are
  taken to run in UTC. That MonthCalendar and Agenda keep the `now` of their first
  rendering is left out, as is the page of an archived subject opened by its
  address, which still lists its topics.
- Of the accounts: `/me` and `/email-status`, which only read; the cool-down that
  two requests pass together is in the model, and nothing promises otherwise.
- Of the organisations: OrganisationCard's own display and `useMemberships`.
- Of the attachments: `DELETE /:id` of the files-service (`server.ts:67-73`, forwarded by
  `app/api/files/[id]/route.ts:15-19`), which removes a blob whatever refers to it:
  nothing in the frontend calls it, and of a caller that did, `StoredIsReadable` would not
  hold; links in notes, which the sweep does not take for
  references either; a missing API key of the ai-service, refused before anything
  changes; the quiz over a list of cards that shrinks under it.
- The proxies beyond their time limit, validation and signing (stateless); the
  content of the seed; the provider's prompt and parsing; migrations and
  deployment.
