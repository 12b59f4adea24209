---------------------------- MODULE DocumentSync ----------------------------
(***************************************************************************)
(* One browser tab between its users and their stored documents: sign-in   *)
(* and sign-out (AuthProvider.tsx, lib/auth/client.ts), hydration          *)
(* (StoreHydrator.tsx, hydrate in useStore.ts, ApiRepository.ts, the route *)
(* app/api/data), and the save queue (module SaveQueue has its details; of *)
(* keepalive only the pagehide flush is here, and no saveState).           *)
(*                                                                         *)
(* The store and the queue are singletons that outlive a session, while    *)
(* authFetch takes whatever token is there when a request is sent.  The    *)
(* login form is usable while the session check of the page's start is     *)
(* still unanswered, and neither answer knows of the other.                *)
(*                                                                         *)
(* A document is [owner, version]: whom it was loaded or seeded for, and   *)
(* the number of its last edit; 0 is the seed.                             *)
(***************************************************************************)
EXTENDS Naturals, FiniteSets

CONSTANTS Users, None,
          NoRow,    \* what app_data holds for a user without a document
          NoCheck,  \* no session check is on its way
          MaxEdits, MaxSignIns, MaxReloads,  \* bounds on what users do
          MaxLate   \* bound: requests that nobody awaits any more

ASSUME NoneAssumption == None \notin Users /\ NoCheck \notin Users \cup {None}
ASSUME BoundsAssumption == /\ MaxEdits \in Nat /\ MaxSignIns \in Nat
                           /\ MaxReloads \in Nat /\ MaxLate \in Nat \ {0}

VARIABLES
  checking,     \* AuthProvider's `loading`
  check,        \* the token that the unanswered GET /api/auth/me carries
  asking,       \* for whom POST /api/auth/login is unanswered
  session,      \* AuthProvider's session: a user or None
  token,        \* whose token sessionStorage holds
  hydratedFor,  \* hydratedUserRef
  hydrated,     \* the store's `hydrated`
  store,        \* the document in the store
  timer, inFlight, rerun,  \* the save queue
  loads,        \* hydrate() calls that await repo.load()
  wire,         \* PUT requests that are awaited or may still be executed
  rows,         \* app_data, by user
  edits, signIns, reloads,  \* auxiliary: counters
  orderly,      \* auxiliary: nobody has yet edited before the document was
                \* there, or left a session while the page had work to do
  healthy       \* auxiliary: no request has failed yet

authVars == <<checking, check, asking, session, token>>
storeVars == <<hydratedFor, hydrated, store>>
queueVars == <<timer, inFlight, rerun>>
counters == <<edits, signIns, reloads>>
vars == <<authVars, storeVars, queueVars, loads, wire, rows, counters,
          orderly, healthy>>

Document == [owner: Users \cup {None}, version: Nat]
ASSUME NoRowAssumption == NoRow \notin Document

Seed(u) == [owner |-> u, version |-> 0]
Empty == [owner |-> None, version |-> 0]  \* the store before any hydrate()

\* A call of hydrate() for `user`, whose token its GET carries.
\* "asked"; "empty": the route has found no row and is about to store the
\* seed; "answered": `answer` is on its way back.
Load == [id: Nat, user: Users, phase: {"asked", "empty", "answered"},
         answer: Document]

\* from: the save queue, hydrate() itself or the GET route.
Put == [id: Nat, as: Users \cup {None}, doc: Document,
        from: {"queue", "hydrate", "route"}, awaited: BOOLEAN, executed: BOOLEAN]

TypeOK ==
  /\ checking \in BOOLEAN /\ check \in Users \cup {None, NoCheck}
  /\ asking \in Users \cup {None}
  /\ session \in Users \cup {None} /\ token \in Users \cup {None}
  /\ hydratedFor \in Users \cup {None} /\ hydrated \in BOOLEAN
  /\ store \in Document
  /\ timer \in BOOLEAN /\ inFlight \in BOOLEAN /\ rerun \in BOOLEAN
  /\ loads \in SUBSET Load /\ wire \in SUBSET Put
  /\ rows \in [Users -> Document \cup {NoRow}]
  /\ edits \in Nat /\ signIns \in Nat /\ reloads \in Nat
  /\ orderly \in BOOLEAN /\ healthy \in BOOLEAN

\* A fresh tab, which asks at once who is signed in; some of the users have a
\* document.
Init ==
  /\ checking = TRUE /\ check = None /\ asking = None
  /\ session = None /\ token = None
  /\ hydratedFor = None /\ hydrated = FALSE /\ store = Empty
  /\ timer = FALSE /\ inFlight = FALSE /\ rerun = FALSE
  /\ loads = {} /\ wire = {}
  /\ \E known \in SUBSET Users :
       rows = [u \in Users |-> IF u \in known THEN [owner |-> u, version |-> 1]
                              ELSE NoRow]
  /\ edits = 1 /\ signIns = 0 /\ reloads = 0
  /\ orderly = TRUE /\ healthy = TRUE

Busy == timer \/ inFlight \/ loads # {} \/ wire # {}

\* Tells requests apart; it is not in the code.
FreshId == CHOOSE n \in 0..(Cardinality(loads) + Cardinality(wire)) :
             \A r \in loads \cup wire : r.id # n

\* PUT /api/data with the document and the token of now.
NewPut(doc, from) ==
  [id |-> FreshId, as |-> token, doc |-> doc, from |-> from,
   awaited |-> TRUE, executed |-> FALSE]
GivenUp(r) == [r EXCEPT !.awaited = FALSE]

Late(requests) == {r \in requests : ~r.awaited}
LateBounded(requests) == Cardinality(Late(requests)) <= MaxLate

\* The GET route's own write of the seed, when nobody waits for the GET.
LateSeed(l) == [id |-> l.id, as |-> l.user, doc |-> Seed(l.user),
                from |-> "route", awaited |-> FALSE, executed |-> FALSE]

-----------------------------------------------------------------------------
(* Sessions.                                                               *)

\* StoreHydrator with a plain "hydrated once" flag.
HydrationOnce(s) ==
  \/ (s = None \/ hydratedFor # None) /\ UNCHANGED <<hydratedFor, hydrated, loads>>
  \/ /\ s # None /\ hydratedFor = None
     /\ hydratedFor' = s /\ hydrated' = FALSE
     /\ loads' = loads \cup {[id |-> FreshId, user |-> s, phase |-> "asked",
                              answer |-> Seed(s)]}

\* StoreHydrator's effect, run when the session has become s.
Hydration(s) ==
  \/ /\ s = None
     /\ hydratedFor' = None /\ hydrated' = FALSE
     /\ UNCHANGED loads
  \/ /\ s # None /\ s = hydratedFor
     /\ UNCHANGED <<hydratedFor, hydrated, loads>>
  \/ /\ s # None /\ s # hydratedFor
     /\ hydratedFor' = s /\ hydrated' = FALSE
     /\ loads' = loads \cup {[id |-> FreshId, user |-> s, phase |-> "asked",
                              answer |-> Seed(s)]}

\* setSession(s), and what follows of it.
SessionBecomes(s) ==
  /\ session' = s
  /\ Hydration(s)
  /\ orderly' = (orderly /\ (s = session \/ ~Busy))
  /\ UNCHANGED <<store, queueVars, wire, rows>>

\* The login form is there without a session, whatever `loading` is.
LoginAsked(u) ==
  /\ session = None /\ asking = None /\ signIns < MaxSignIns
  /\ signIns' = signIns + 1
  /\ asking' = u
  /\ UNCHANGED <<checking, check, session, token, storeVars, queueVars, loads,
                 wire, rows, edits, reloads, orderly, healthy>>

LoginAnswered ==
  /\ asking # None
  /\ asking' = None
  /\ token' = asking /\ checking' = FALSE
  /\ SessionBecomes(asking)
  /\ UNCHANGED <<check, counters, healthy>>

LoginFails ==
  /\ asking # None
  /\ asking' = None
  /\ UNCHANGED <<checking, check, session, token, storeVars, queueVars, loads,
                 wire, rows, counters, orderly, healthy>>

\* getSession(): the answer comes with the tokens of its session ...
CheckAnswered ==
  /\ check \in Users
  /\ check' = NoCheck /\ checking' = FALSE
  /\ token' = check
  /\ SessionBecomes(check)
  /\ UNCHANGED <<asking, counters, healthy>>

\* ... an answer other than 200 clears whatever token there is by then ...
CheckRefused ==
  /\ check # NoCheck
  /\ check' = NoCheck /\ checking' = FALSE
  /\ token' = None
  /\ SessionBecomes(None)
  /\ healthy' = (healthy /\ check = None)
  /\ UNCHANGED <<asking, counters>>

\* ... and an exception does not.
CheckThrows ==
  /\ check # NoCheck
  /\ check' = NoCheck /\ checking' = FALSE
  /\ SessionBecomes(None)
  /\ healthy' = FALSE
  /\ UNCHANGED <<asking, token, counters>>

SignOut ==
  /\ session # None
  /\ token' = None
  /\ SessionBecomes(None)
  /\ UNCHANGED <<checking, check, asking, counters, healthy>>

\* The logout request is refused by the network: logout() clears the tokens and
\* throws, so that the session stays.
SignOutFails ==
  /\ session # None
  /\ token' = None
  /\ healthy' = FALSE
  /\ UNCHANGED <<checking, check, asking, session, storeVars, queueVars, loads,
                 wire, rows, counters, orderly>>

\* The tab is reloaded: pagehide flushes, then everything but sessionStorage is
\* new.  Requests on their way may or may not arrive; the route finishes its own.
Reload ==
  /\ reloads < MaxReloads
  /\ reloads' = reloads + 1
  /\ checking' = TRUE /\ check' = token
  /\ asking' = None /\ session' = None
  /\ hydratedFor' = None /\ hydrated' = FALSE /\ store' = Empty
  /\ timer' = FALSE /\ inFlight' = FALSE /\ rerun' = FALSE
  /\ loads' = {}
  /\ \E kept \in SUBSET {r \in wire : ~r.executed},
        seeding \in SUBSET {l \in loads : l.phase = "empty"} :
       wire' = {GivenUp(r) : r \in kept}
               \cup {LateSeed(l) : l \in seeding}
               \cup IF timer /\ ~inFlight THEN {GivenUp(NewPut(store, "queue"))}
                    ELSE {}
  /\ LateBounded(wire')
  /\ orderly' = (orderly /\ ~Busy)
  /\ UNCHANGED <<token, rows, edits, signIns, healthy>>

-----------------------------------------------------------------------------
(* The store and its save queue.                                           *)

\* A mutation that does not call schedule().
ChangeUnsaved ==
  /\ edits < MaxEdits
  /\ edits' = edits + 1
  /\ store' = [store EXCEPT !.version = edits + 1]
  /\ UNCHANGED <<authVars, hydratedFor, hydrated, queueVars, loads, wire, rows,
                 signIns, reloads, healthy>>

Change ==
  /\ edits < MaxEdits
  /\ edits' = edits + 1
  /\ store' = [store EXCEPT !.version = edits + 1]
  /\ timer' = TRUE
  /\ UNCHANGED <<authVars, hydratedFor, hydrated, inFlight, rerun, loads, wire,
                 rows, signIns, reloads, healthy>>

Edit == session # None /\ hydrated /\ Change /\ UNCHANGED orderly

\* The dashboard's "add subject" is there before the document is, and before
\* the session is.
EditEarly ==
  /\ ~hydrated
  /\ session # None \/ checking
  /\ Change
  /\ orderly' = FALSE

\* run(), see SaveQueue.
Run ==
  \/ inFlight /\ rerun' = TRUE /\ UNCHANGED <<inFlight, wire>>
  \/ /\ ~inFlight
     /\ inFlight' = TRUE
     /\ wire' = wire \cup {NewPut(store, "queue")}
     /\ UNCHANGED rerun

\* The 800 ms are over, or the tab is hidden.
TimerFires ==
  /\ timer
  /\ timer' = FALSE
  /\ Run
  /\ UNCHANGED <<authVars, storeVars, loads, rows, counters, orderly, healthy>>

\* A request is settled, with `rest` still in progress: the queue continues, or
\* hydrate() has its save behind it.
Settled(r, rest) ==
  \/ /\ r.from = "queue" /\ rerun
     /\ rerun' = FALSE
     /\ wire' = rest \cup {NewPut(store, "queue")}
     /\ UNCHANGED inFlight
  \/ /\ r.from = "queue" /\ ~rerun
     /\ inFlight' = FALSE
     /\ wire' = rest
     /\ UNCHANGED rerun
  \/ /\ r.from = "hydrate"
     /\ wire' = rest
     /\ UNCHANGED <<inFlight, rerun>>

Answered(r) ==
  /\ r \in wire /\ r.awaited /\ r.executed
  /\ Settled(r, wire \ {r})
  /\ UNCHANGED <<authVars, storeVars, timer, loads, rows, counters, orderly, healthy>>

\* No token (401), a failure, or the answer is lost; a request that was given up
\* may be executed later.
PutFails(r) ==
  /\ r \in wire /\ r.awaited
  /\ \/ Settled(r, wire \ {r})
     \/ /\ ~r.executed /\ r.as # None
        /\ LateBounded(wire \cup {GivenUp(r)})
        /\ Settled(r, (wire \ {r}) \cup {GivenUp(r)})
  /\ healthy' = FALSE
  /\ UNCHANGED <<authVars, storeVars, timer, loads, rows, counters, orderly>>

\* writeData() for the user of the token.
Executes(r) ==
  /\ r \in wire /\ ~r.executed /\ r.as # None
  /\ rows' = [rows EXCEPT ![r.as] = r.doc]
  /\ wire' = (wire \ {r}) \cup
               IF r.awaited THEN {[r EXCEPT !.executed = TRUE]} ELSE {}
  /\ UNCHANGED <<authVars, storeVars, queueVars, loads, counters, orderly, healthy>>

Forgotten(r) ==
  /\ r \in wire /\ ~r.awaited
  /\ wire' = wire \ {r}
  /\ UNCHANGED <<authVars, storeVars, queueVars, loads, rows, counters, orderly,
                 healthy>>

-----------------------------------------------------------------------------
(* Loading: GET /api/data and the rest of hydrate().                       *)

\* The route hands on what it finds, a missing row included.
RouteReadsBare(l) ==
  /\ l \in loads /\ l.phase = "asked"
  /\ loads' = (loads \ {l}) \cup
       {[l EXCEPT !.phase = "answered", !.answer = rows[l.user]]}
  /\ UNCHANGED <<authVars, storeVars, queueVars, wire, rows, counters, orderly,
                 healthy>>

\* The route takes any trouble of the content service for "no data yet".
RouteReadsLeniently(l) ==
  /\ l \in loads /\ l.phase = "asked"
  /\ loads' = (loads \ {l}) \cup {[l EXCEPT !.phase = "empty"]}
  /\ UNCHANGED <<authVars, storeVars, queueVars, wire, rows, counters, orderly,
                 healthy>>

\* The route reads the row ...
RouteReads(l) ==
  /\ l \in loads /\ l.phase = "asked"
  /\ loads' = (loads \ {l}) \cup
       {IF rows[l.user] = NoRow THEN [l EXCEPT !.phase = "empty"]
        ELSE [l EXCEPT !.phase = "answered", !.answer = rows[l.user]]}
  /\ UNCHANGED <<authVars, storeVars, queueVars, wire, rows, counters, orderly,
                 healthy>>

\* ... and stores the seed if there is none.
RouteSeeds(l) ==
  /\ l \in loads /\ l.phase = "empty"
  /\ rows' = [rows EXCEPT ![l.user] = Seed(l.user)]
  /\ loads' = (loads \ {l}) \cup {[l EXCEPT !.phase = "answered"]}
  /\ UNCHANGED <<authVars, storeVars, queueVars, wire, counters, orderly, healthy>>

\* load() returns the document: hydrate() installs it.
LoadArrives(l) ==
  /\ l \in loads /\ l.phase = "answered"
  /\ loads' = loads \ {l}
  /\ store' = l.answer /\ hydrated' = TRUE
  /\ UNCHANGED <<authVars, hydratedFor, queueVars, wire, rows, counters, orderly,
                 healthy>>

\* load() that throws where the code returns null.
LoadFailsLoudly(l) ==
  /\ l \in loads
  /\ loads' = loads \ {l}
  /\ healthy' = FALSE
  /\ UNCHANGED <<authVars, storeVars, queueVars, wire, rows, counters, orderly>>

\* load() returns null, whatever went wrong: hydrate() installs the seed and
\* saves it past the queue.  The route may have been about to store one, too.
LoadFails(l) ==
  /\ l \in loads
  /\ loads' = loads \ {l}
  /\ store' = Seed(l.user) /\ hydrated' = TRUE
  /\ \/ wire' = wire \cup {NewPut(Seed(l.user), "hydrate")}
     \/ /\ l.phase = "empty"
        /\ wire' = wire \cup
                     {NewPut(Seed(l.user), "hydrate"), LateSeed(l)}
        /\ LateBounded(wire')
  /\ healthy' = FALSE
  /\ UNCHANGED <<authVars, hydratedFor, queueVars, rows, counters, orderly>>

-----------------------------------------------------------------------------

Next ==
  \/ \E u \in Users : LoginAsked(u)
  \/ LoginAnswered \/ LoginFails
  \/ CheckAnswered \/ CheckRefused \/ CheckThrows
  \/ SignOut \/ SignOutFails \/ Reload
  \/ Edit \/ EditEarly \/ TimerFires
  \/ \E r \in wire : \/ Executes(r) \/ Answered(r)
                     \/ PutFails(r) \/ Forgotten(r)
  \/ \E l \in loads : \/ RouteReads(l) \/ RouteSeeds(l)
                      \/ LoadArrives(l) \/ LoadFails(l)

Spec == Init /\ [][Next]_vars

-----------------------------------------------------------------------------
(* Safety.                                                                 *)

\* What the routes show as ready is the document of the one who is signed in
\* (StoreHydrator.tsx:10-31), over sign-ins, sign-outs, reloads, failures and
\* session checks answered at any time - provided sessions, however they end,
\* are left only when the page has nothing left to do.
ShownIsOwn == orderly /\ hydrated => store.owner = session

\* Under the same provision nobody's document ends up in the row of another,
\* although store, queue and token are shared by successive sessions.
RowsAreOwn ==
  orderly => \A u \in Users : rows[u] # NoRow => rows[u].owner = u

\* If moreover no request fails, a row never goes back to an older version
\* or to the seed, whichever of queue, hydrate() and route writes it ...
RowsMoveForward ==
  [][orderly' /\ healthy' =>
       \A u \in Users : rows[u] # NoRow =>
         rows'[u].version >= rows[u].version]_rows

\* ... and whenever the page has come to rest, what it shows is stored.
RestMeansStored ==
  orderly /\ healthy /\ hydrated /\ ~Busy => rows[session] = store

\* Nobody looks at skeletons for ever: as long as a document is missing, some
\* hydrate() is still waiting for a load, which the route's time limit ends
\* (StoreHydrator.tsx:17-31, ApiRepository.ts:10-19, useStore.ts:96-109).
SkeletonsEnd == session # None /\ ~hydrated => loads # {}

-----------------------------------------------------------------------------

\* README.md:99: "fully isolated data and file storage per user".  No document
\* with content loaded for one user is stored as another's.
FullyIsolated ==
  \A u \in Users :
    rows[u] # NoRow /\ rows[u].version > 0 => rows[u].owner \in {u, None}
=============================================================================
