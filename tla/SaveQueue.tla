------------------------------ MODULE SaveQueue -----------------------------
(***************************************************************************)
(* The browser's debounced, single-flight save queue                       *)
(* (apps/frontend/store/saveQueue.ts), the events that drive it            *)
(* (StoreHydrator.tsx), hydrate(), which installs a document, saves the    *)
(* seed and sets the indicator past the queue (useStore.ts), and the way   *)
(* of a save from fetch() to the app_data row (app/api/data/route.ts,      *)
(* lib/contentClient.ts, content-service).  The row is one user's; what    *)
(* sessions of several users do to each other is module DocumentSync.      *)
(*                                                                         *)
(* A document is a version: versions are numbered as they come to be, by a *)
(* mutation or by hydrate(); 0 is the empty store, and a missing row.      *)
(* JavaScript runs an event handler to completion, so a handler is one     *)
(* action; saveFn() is called, and the snapshot taken, before the first    *)
(* await, so a send belongs to the action that starts it.                  *)
(*                                                                         *)
(* A request is in `wire` while somebody still waits for its answer or the *)
(* content service may still execute it.  The route gives up on the        *)
(* content service after 5 s (504) and on a broken connection (502); the   *)
(* service does not hear of it, and may execute the upsert later.          *)
(***************************************************************************)
EXTENDS Naturals, FiniteSets

CONSTANTS MaxVersions,   \* bound: versions that come to be
          MaxHydrations  \* bound: calls of hydrate(), one per sign-in

ASSUME BoundsAssumption == MaxVersions \in Nat \ {0} /\ MaxHydrations \in Nat

VARIABLES
  timer,           \* this.timer is armed
  inFlight,        \* this.inFlight
  rerun,           \* this.rerun
  rerunKeepalive,  \* this.rerunKeepalive
  saveState,       \* the store's saveState
  current,         \* version of snapshot(get())
  latest,          \* the highest version there is
  page,            \* "open", "hidden" (pagehide has run), "closed"
  sent,            \* number of PUT requests, which tells them apart
  wire,            \* the requests in progress
  loads,           \* the hydrate() calls that await repo.load()
  hydrations,      \* auxiliary: number of hydrate() calls
  stored,          \* app_data row: the version, and whether it was put there
                   \* past the queue: by hydrate(), by the GET route, or by a
                   \* request that had been given up
  displaced,       \* auxiliary: what is shown has come from a hydrate() that
                   \* overlapped with work of the queue, and not from an edit
  alarm            \* auxiliary: saveState was last set by hydrate()

queueVars == <<timer, inFlight, rerun, rerunKeepalive>>
told == <<saveState, alarm>>
shown == <<current, latest, displaced>>
loading == <<loads, hydrations>>
vars == <<queueVars, told, shown, page, sent, wire, loading, stored>>

SaveStatus == {"idle", "saving", "saved", "error"}

\* refused: the browser did not accept the request, its keepalive body is too
\* large.  awaited: the page waits for the answer.  executed: the upsert committed.
Request == [id: Nat, version: Nat, from: {"queue", "hydrate", "route"},
            keepalive: BOOLEAN, refused: BOOLEAN,
            awaited: BOOLEAN, executed: BOOLEAN]

\* "asked"; "empty": the GET route has found no row and is about to store the
\* seed; "answered": `version` is on its way back.
Load == [id: Nat, phase: {"asked", "empty", "answered"}, version: Nat]

\* The queue waits for a request; the page no longer does; its upsert commits.
QueueSave(r) == r.awaited /\ r.from = "queue"
GivenUp(r) == [r EXCEPT !.awaited = FALSE]
Committed(r) == [r EXCEPT !.executed = TRUE]

TypeOK ==
  /\ timer \in BOOLEAN /\ inFlight \in BOOLEAN
  /\ rerun \in BOOLEAN /\ rerunKeepalive \in BOOLEAN
  /\ saveState \in SaveStatus /\ alarm \in BOOLEAN
  /\ current \in Nat /\ latest \in Nat /\ displaced \in BOOLEAN
  /\ page \in {"open", "hidden", "closed"}
  /\ sent \in Nat /\ wire \in SUBSET Request
  /\ loads \in SUBSET Load /\ hydrations \in Nat
  /\ stored \in [version: Nat, stray: BOOLEAN]

\* A page that has not been hydrated; the user has a row or has none.
Init ==
  /\ timer = FALSE /\ inFlight = FALSE
  /\ rerun = FALSE /\ rerunKeepalive = FALSE
  /\ saveState = "idle" /\ alarm = FALSE
  /\ current = 0 /\ displaced = TRUE
  /\ page = "open" /\ sent = 0 /\ wire = {}
  /\ loads = {} /\ hydrations = 0
  /\ latest \in {0, 1} /\ stored = [version |-> latest, stray |-> FALSE]

-----------------------------------------------------------------------------
(* The queue's methods.                                                    *)

\* A PUT that is issued now.
NewRequest(version, from, keepalive, refused) ==
  [id |-> sent, version |-> version, from |-> from, keepalive |-> keepalive,
   refused |-> refused, awaited |-> TRUE, executed |-> FALSE]

\* saveFn(): a PUT with the snapshot of now, besides the requests `others`.  The
\* browser refuses a keepalive request whose body is too large.
Send(keepalive, others) ==
  /\ \E refused \in {FALSE, keepalive} :
       wire' = others \cup {NewRequest(current, "queue", keepalive, refused)}
  /\ sent' = sent + 1

\* Faulty variants, each placed before the operator it is a variant of: what a
\* plausible slip would make of it.  No action uses them; they show that the
\* properties below would notice the slip.

\* run() without its single-flight guard.
RunUnguarded(keepalive) ==
  /\ inFlight' = TRUE
  /\ Send(keepalive, wire)
  /\ UNCHANGED <<rerun, rerunKeepalive>>

\* run() that drops what arrives while a save is in flight.
RunDropping(keepalive) ==
  \/ inFlight /\ UNCHANGED <<inFlight, rerun, rerunKeepalive, sent, wire>>
  \/ ~inFlight /\ RunUnguarded(keepalive)

\* run(keepalive): join the save in flight, or start one.
Run(keepalive) ==
  \/ /\ inFlight
     /\ rerun' = TRUE
     /\ rerunKeepalive' = (rerunKeepalive \/ keepalive)
     /\ UNCHANGED <<inFlight, sent, wire>>
  \/ /\ ~inFlight
     /\ inFlight' = TRUE
     /\ Send(keepalive, wire)
     /\ UNCHANGED <<rerun, rerunKeepalive>>

\* The store shows a document that there was not before.
NewVersion ==
  /\ latest < MaxVersions
  /\ latest' = latest + 1 /\ current' = latest + 1

\* schedule() that leaves the indicator alone.
EditUnannounced ==
  /\ page = "open" /\ NewVersion
  /\ displaced' = FALSE /\ timer' = TRUE
  /\ UNCHANGED <<inFlight, rerun, rerunKeepalive, told, page, sent, wire,
                 loading, stored>>

\* A mutation of the store: commit or commitSilent, then schedule().  It does
\* not ask whether the store has been hydrated.
Edit ==
  /\ page = "open" /\ NewVersion
  /\ displaced' = FALSE
  /\ saveState' = "saving" /\ alarm' = FALSE
  /\ timer' = TRUE
  /\ UNCHANGED <<inFlight, rerun, rerunKeepalive, page, sent, wire, loading,
                 stored>>

\* The 800 ms are over.
TimerFires ==
  /\ page = "open" /\ timer
  /\ timer' = FALSE
  /\ Run(FALSE)
  /\ UNCHANGED <<told, shown, page, loading, stored>>

\* flush(keepalive): nothing to do unless a save is pending.
Flush(keepalive) ==
  \/ ~timer /\ UNCHANGED <<timer, inFlight, rerun, rerunKeepalive, sent, wire>>
  \/ timer /\ timer' = FALSE /\ Run(keepalive)

-----------------------------------------------------------------------------
(* hydrate() and GET /api/data.                                            *)

\* StoreHydrator calls hydrate(): another sign-in, work pending or not.
Hydrate ==
  /\ page = "open" /\ hydrations < MaxHydrations
  /\ hydrations' = hydrations + 1
  /\ loads' = loads \cup {[id |-> hydrations, phase |-> "asked", version |-> 0]}
  /\ UNCHANGED <<queueVars, told, shown, page, sent, wire, stored>>

\* The route reads the row ...
RouteReads(l) ==
  /\ l \in loads /\ l.phase = "asked"
  /\ loads' = (loads \ {l}) \cup
       {IF stored.version = 0 THEN [l EXCEPT !.phase = "empty"]
        ELSE [l EXCEPT !.phase = "answered", !.version = stored.version]}
  /\ UNCHANGED <<queueVars, told, shown, page, sent, wire, hydrations, stored>>

\* ... and stores the seed if there is none.
RouteSeeds(l) ==
  /\ l \in loads /\ l.phase = "empty"
  /\ latest < MaxVersions
  /\ latest' = latest + 1
  /\ stored' = [version |-> latest + 1, stray |-> TRUE]
  /\ loads' = (loads \ {l}) \cup
       {[l EXCEPT !.phase = "answered", !.version = latest + 1]}
  /\ UNCHANGED <<queueVars, told, current, displaced, page, sent, wire, hydrations>>

\* The route's write of the seed, when nobody waits for the GET any more.
LateSeed(id, version) ==
  [id |-> id, version |-> version, from |-> "route", keepalive |-> FALSE,
   refused |-> FALSE, awaited |-> FALSE, executed |-> FALSE]

Quiet == ~timer /\ ~inFlight /\ ~rerun

\* load() returns the document and hydrate() installs it: what the row holds, or
\* what it held when it was read.
LoadArrives(l) ==
  /\ page = "open" /\ l \in loads /\ l.phase = "answered"
  /\ loads' = loads \ {l}
  /\ \/ /\ Quiet /\ l.version = stored.version
        /\ current' = stored.version /\ displaced' = FALSE
        /\ UNCHANGED latest
     \/ /\ ~(Quiet /\ l.version = stored.version)
        /\ NewVersion /\ displaced' = TRUE
  /\ UNCHANGED <<queueVars, told, page, sent, wire, hydrations, stored>>

\* load() returns null, whatever went wrong: hydrate() installs the seed and
\* saves it past the queue.  The route may have been about to store one, too.
LoadFails(l) ==
  /\ page = "open" /\ l \in loads
  /\ loads' = loads \ {l}
  /\ NewVersion /\ displaced' = ~Quiet
  /\ \E late \in SUBSET (IF l.phase = "empty"
                          THEN {LateSeed(sent + 1, latest + 1)} ELSE {}) :
       wire' = wire \cup {NewRequest(latest + 1, "hydrate", FALSE, FALSE)} \cup late
  /\ sent' = sent + 2
  /\ UNCHANGED <<queueVars, told, page, hydrations, stored>>

-----------------------------------------------------------------------------
(* The events of the page.                                                 *)

\* visibilitychange to "hidden": flush(false), the page lives on.
TabHidden ==
  /\ page = "open"
  /\ Flush(FALSE)
  /\ UNCHANGED <<told, shown, page, loading, stored>>

\* The page listens to visibilitychange only.
PageHideUnheard ==
  /\ page = "open"
  /\ page' = "hidden"
  /\ UNCHANGED <<queueVars, told, shown, sent, wire, loading, stored>>

\* pagehide: flush(true).  The page is frozen, then dropped or shown again.
PageHide ==
  /\ page = "open"
  /\ page' = "hidden"
  /\ Flush(TRUE)
  /\ UNCHANGED <<told, shown, loading, stored>>

PageShow ==
  /\ page = "hidden"
  /\ page' = "open"
  /\ UNCHANGED <<queueVars, told, shown, sent, wire, loading, stored>>

\* The page is dropped: nobody waits any more.  The browser goes on sending the
\* keepalive requests it has accepted and cancels the others, which the server may
\* or may not have received; the route finishes what it was about to store.
PageDropped ==
  /\ page = "hidden"
  /\ page' = "closed"
  /\ \E cancelled \in SUBSET {r \in wire : r.awaited /\ ~r.keepalive},
        seeding \in SUBSET {l \in loads : l.phase = "empty"} :
       /\ seeding # {} => latest < MaxVersions
       /\ latest' = IF seeding = {} THEN latest ELSE latest + 1
       /\ wire' = {GivenUp(r) : r \in {q \in wire \ cancelled :
                                          ~q.executed /\ ~q.refused}}
                  \cup {LateSeed(sent + l.id, latest + 1) : l \in seeding}
  /\ loads' = {}
  /\ UNCHANGED <<queueVars, told, current, displaced, sent, hydrations, stored>>

-----------------------------------------------------------------------------
(* The server's side.                                                      *)

\* writeData() commits the upsert of one request.  One that nobody awaits has
\* then left no trace but the row.
Executes(r) ==
  /\ r \in wire /\ ~r.executed /\ ~r.refused
  /\ stored' = [version |-> r.version, stray |-> ~QueueSave(r)]
  /\ wire' = (wire \ {r}) \cup
               (IF r.awaited THEN {Committed(r)} ELSE {})
  /\ UNCHANGED <<queueVars, told, shown, page, sent, loading>>

\* run() after its await that does not look at the timer ...
ContinueIgnoringTimer(failed, rest) ==
  \/ /\ rerun
     /\ rerun' = FALSE /\ rerunKeepalive' = FALSE
     /\ Send(rerunKeepalive, rest)
     /\ UNCHANGED <<inFlight, told>>
  \/ /\ ~rerun
     /\ inFlight' = FALSE
     /\ wire' = rest
     /\ saveState' = (IF failed THEN "error" ELSE "saved") /\ alarm' = FALSE
     /\ UNCHANGED <<rerun, rerunKeepalive, sent>>

\* ... that swallows the failure ...
ContinueSwallowing(failed, rest) ==
  ContinueIgnoringTimer(FALSE, rest)

\* ... and that reports successes only.
ContinueSilentFailure(failed, rest) ==
  IF failed /\ ~rerun
  THEN /\ inFlight' = FALSE
       /\ wire' = rest
       /\ UNCHANGED <<rerun, rerunKeepalive, sent, told>>
  ELSE ContinueIgnoringTimer(failed, rest)

\* run() after its await: the follow-up that was asked for meanwhile is sent
\* at once; otherwise the result is shown, unless a new window has opened.
\* `rest` are the requests that remain in progress.
Continue(failed, rest) ==
  \/ /\ rerun
     /\ rerun' = FALSE /\ rerunKeepalive' = FALSE
     /\ Send(rerunKeepalive, rest)
     /\ UNCHANGED <<inFlight, told>>
  \/ /\ ~rerun
     /\ inFlight' = FALSE
     /\ wire' = rest
     /\ IF timer THEN UNCHANGED told
        ELSE saveState' = (IF failed THEN "error" ELSE "saved") /\ alarm' = FALSE
     /\ UNCHANGED <<rerun, rerunKeepalive, sent>>

\* The end of hydrate(): a failure is shown, whatever the queue is about.
SeedSettled(failed, rest) ==
  /\ wire' = rest
  /\ IF failed THEN saveState' = "error" /\ alarm' = TRUE ELSE UNCHANGED told
  /\ UNCHANGED <<inFlight, rerun, rerunKeepalive, sent>>

Settled(r, failed, rest) ==
  \/ r.from = "queue" /\ Continue(failed, rest)
  \/ r.from = "hydrate" /\ SeedSettled(failed, rest)

\* The answer 204 arrives.
Answered(r) ==
  /\ page = "open" /\ r \in wire /\ r.awaited /\ r.executed
  /\ Settled(r, FALSE, wire \ {r})
  /\ UNCHANGED <<timer, shown, page, loading, stored>>

\* save() throws: the request did not get through, its answer was lost, or the
\* route gave up waiting and the upsert is still to come.  A refusal by the
\* browser is heard even while the page is being hidden.
Failed(r) ==
  /\ r \in wire /\ r.awaited
  /\ page = "open" \/ (page = "hidden" /\ r.refused)
  /\ \/ Settled(r, TRUE, wire \ {r})
     \/ ~r.executed /\ ~r.refused
        /\ Settled(r, TRUE, (wire \ {r}) \cup {GivenUp(r)})
  /\ UNCHANGED <<timer, shown, page, loading, stored>>

\* What was given up need not be executed either.
Forgotten(r) ==
  /\ r \in wire /\ ~r.awaited
  /\ wire' = wire \ {r}
  /\ UNCHANGED <<queueVars, told, shown, page, sent, loading, stored>>

-----------------------------------------------------------------------------

Settles(by) == \E r \in wire : r.from = by /\ (Answered(r) \/ Failed(r))

Next ==
  \/ Edit \/ TimerFires \/ TabHidden \/ PageHide \/ PageShow \/ PageDropped
  \/ Hydrate
  \/ \E l \in loads : \/ RouteReads(l) \/ RouteSeeds(l)
                      \/ LoadArrives(l) \/ LoadFails(l)
  \/ Settles("queue") \/ Settles("hydrate")
  \/ \E r \in wire : Executes(r) \/ Forgotten(r)

Spec == Init /\ [][Next]_vars

\* An armed timer fires, and the queue's request is answered: the route's timeout
\* sees to it.  Nothing is assumed of the user, of loads, nor of the server.
Fairness == WF_vars(TimerFires) /\ WF_vars(Settles("queue"))

FairSpec == Spec /\ Fairness

-----------------------------------------------------------------------------
(* Safety.                                                                 *)

\* Single flight (saveQueue.ts:3-5, the guard of run()): however timers,
\* flushes and answers interleave, the queue never waits for two saves, and
\* `inFlight` is true exactly while it waits for one.  The seed that hydrate()
\* saves is not the queue's.
SingleFlight ==
  page # "closed" =>
    /\ \A r, q \in wire : QueueSave(r) /\ QueueSave(q) => r = q
    /\ inFlight <=> \E r \in wire : QueueSave(r)

\* A document somebody still waits to be stored.
OnItsWay == \E r \in wire : r.awaited /\ r.version = current

\* The last version is never forgotten (schedule, run, flush and hydrate()
\* together): it waits for the timer or for the follow-up, or is on its way, or a
\* write in order has stored it, or the user has been told that saving failed -
\* unless hydrate() has put another document in its place while the queue was busy
\* or behind the row.
LastEditAccountedFor ==
  page # "closed" /\ ~displaced =>
    \/ timer \/ rerun \/ OnItsWay
    \/ stored.version = current \/ stored.stray
    \/ saveState = "error"

\* "Saved" is the truth (saveQueue.ts:67-68, useStore.ts:96-109): nothing of the
\* queue is pending, and the row holds what the user sees or hydrate() is about to
\* store it - unless something was put there past the queue, or hydrate() has
\* displaced what was said to be saved.
SavedMeansStored ==
  page # "closed" /\ saveState = "saved" =>
    /\ Quiet
    /\ OnItsWay \/ stored.version = current \/ stored.stray \/ displaced

\* The indicator leaves "saving" only when no save of the queue is under way: a
\* spinner that stopped cannot hide a pending or running save (saveQueue.ts:20,
\* 67-68).  The one exception is the alarm of hydrate() (useStore.ts:107), which
\* is raised whatever the queue is about.
QuietMeansIdle == saveState # "saving" /\ ~alarm => Quiet

\* A tab closed within the debounce window loses nothing, if no ordinary save is
\* under way and the browser accepts the document as the body of a keepalive
\* request (at most 64 KiB): flush(true) has put the last version into one, which
\* outlives the page (StoreHydrator.tsx:33-35, saveQueue.ts:28-44).
PendingEditSurvivesPageHide ==
  [][/\ page = "hidden" /\ page' = "closed"
     /\ saveState = "saving" /\ ~rerun /\ ~displaced
     /\ \A r \in wire : r.awaited => r.keepalive /\ ~r.refused
     => \/ \E r \in wire' : r.version = current
        \/ stored.version = current \/ stored.stray]_vars

\* Writes that the queue still waits for reach the row in the order in which
\* their snapshots were taken (saveQueue.ts:4-5).
AwaitedWritesLandInOrder ==
  [][~stored.stray /\ ~stored'.stray => stored'.version >= stored.version]_stored

\* The queue and hydrate() keep the promise of the abstract autosave.
Abstract == INSTANCE Autosave WITH draft <- current, last <- latest, told <- saveState
ImplementsAutosave == Abstract!ASpec

-----------------------------------------------------------------------------
(* Liveness.                                                               *)

\* Every burst of changes is settled: as long as the page stays open, the
\* indicator does not say "saving" for ever.
SavingEnds == saveState = "saving" ~> saveState # "saving" \/ page # "open"

-----------------------------------------------------------------------------
(* What comments and texts of the repository say and the code does not do. *)

\* saveQueue.ts:33-38: flush() may do nothing when the timer is null although
\* a save is in flight, because that request "already carries the latest data".
InFlightCarriesLatest ==
  page # "closed" /\ ~timer /\ inFlight => OnItsWay

\* saveQueue.ts:5: "requests can never land out of order".
RequestsLandInOrder == [][stored'.version >= stored.version]_stored
=============================================================================
