------------------------- MODULE DocumentSyncProofs -------------------------
(***************************************************************************)
(* Theorems about DocumentSync, for any users and any bounds, and their    *)
(* proofs.  As long as users leave a session only when the page is at      *)
(* rest (`orderly`), everything on its way belongs to the one who is       *)
(* signed in; as long as moreover nothing fails (`healthy`), one request   *)
(* at most is on its way, and store, request and row stand in line.        *)
(***************************************************************************)
EXTENDS DocumentSync, TLAPS

MaybeUser == Users \cup {None}

\* Requests, whatever their ids.
PutShape(r) == r \in [id: {r.id}, as: MaybeUser, doc: Document,
                      from: {"queue", "hydrate", "route"},
                      awaited: BOOLEAN, executed: BOOLEAN]
LoadShape(l) == l \in [id: {l.id}, user: Users, phase: {"asked", "empty", "answered"},
                       answer: Document]

TypesOK ==
  /\ check \in MaybeUser \cup {NoCheck} /\ asking \in MaybeUser
  /\ session \in MaybeUser /\ token \in MaybeUser
  /\ store \in Document /\ edits \in Nat
  /\ rows \in [Users -> Document \cup {NoRow}]
  /\ \A r \in wire : PutShape(r)
  /\ \A l \in loads : LoadShape(l)

\* The hydrator has followed the session, and works on it until there is a document.
SessionOK ==
  /\ checking => session = None
  /\ hydratedFor = session
  /\ session # None => token \in {session, None}
  /\ SkeletonsEnd

\* What is shown, loaded, on its way and stored is everybody's own.
Owned ==
  /\ session = None => ~hydrated /\ ~timer /\ loads = {} /\ wire = {}
  /\ hydrated => store.owner = session
  /\ timer => hydrated
  /\ wire # {} => hydrated
  /\ \A l \in loads : l.user = session /\ l.answer.owner = l.user
  /\ \A r \in wire : r.as # None => r.doc.owner = r.as
  /\ \A u \in Users : rows[u] # NoRow => rows[u].owner = u

\* The one request of the queue: not newer than the store, not older than the row.
InLine(r) ==
  /\ r.awaited /\ r.from = "queue" /\ r.as = session
  /\ r.doc.version <= store.version
  /\ rows[session] # NoRow
  /\ r.executed => rows[session] = r.doc
  /\ ~r.executed => rows[session].version <= r.doc.version
  /\ ~timer /\ ~rerun => r.doc = store

\* A load knows what is stored.
Loading(l) ==
  /\ l.phase \in {"asked", "empty"} => l.answer = Seed(l.user)
  /\ l.phase = "empty" => rows[l.user] = NoRow
  /\ l.phase = "answered" => rows[l.user] = l.answer

InStep ==
  /\ session # None => token = session
  /\ hydrated => loads = {}
  /\ \A l \in loads : Loading(l) /\ loads = {l}
  /\ ~inFlight => wire = {} /\ ~rerun
  /\ inFlight => \E r \in wire : wire = {r} /\ InLine(r)
  /\ hydrated /\ ~inFlight =>
       /\ rows[session] # NoRow /\ rows[session].version <= store.version
       /\ ~timer => rows[session] = store
  /\ store.version <= edits
  /\ \A u \in Users : rows[u] # NoRow => rows[u].version <= edits

IInv == /\ TypesOK /\ SessionOK
        /\ orderly => Owned
        /\ orderly /\ healthy => InStep

-----------------------------------------------------------------------------
(* Documents and requests.                                                 *)

LEMMA Documents ==
  /\ Empty \in Document /\ Empty.version = 0
  /\ \A u \in Users : Seed(u) \in Document /\ Seed(u).owner = u /\ Seed(u).version = 0
  /\ NoRow \notin Document /\ None \notin Users
BY NoRowAssumption, NoneAssumption DEF Empty, Seed, Document

LEMMA NewPutShape ==
  ASSUME NEW doc \in Document, NEW from \in {"queue", "hydrate", "route"}, token \in MaybeUser
  PROVE  /\ PutShape(NewPut(doc, from)) /\ NewPut(doc, from).as = token
         /\ NewPut(doc, from).doc = doc /\ NewPut(doc, from).from = from
         /\ NewPut(doc, from).awaited /\ ~NewPut(doc, from).executed
BY DEF PutShape, NewPut

LEMMA GivenUpShape ==
  ASSUME NEW r, PutShape(r)
  PROVE  PutShape(GivenUp(r)) /\ GivenUp(r).as = r.as /\ GivenUp(r).doc = r.doc
BY DEF PutShape, GivenUp

LEMMA LateSeedShape ==
  ASSUME NEW l, LoadShape(l)
  PROVE  PutShape(LateSeed(l)) /\ LateSeed(l).as = l.user /\ LateSeed(l).doc = Seed(l.user)
<1>1. l.user \in Users /\ Seed(l.user) \in Document
  BY Documents DEF LoadShape
<1> QED
  BY <1>1 DEF PutShape, LateSeed, MaybeUser

\* The effect follows the session from whomever it was to whomever it is.
LEMMA Hydrates ==
  ASSUME TypesOK, NEW s \in MaybeUser, Hydration(s)
  PROVE  /\ hydratedFor' = s
         /\ s = None => ~hydrated' /\ loads' = loads
         /\ s # None /\ s = hydratedFor => UNCHANGED <<hydrated, loads>>
         /\ s # None /\ s # hydratedFor =>
              /\ ~hydrated'
              /\ \E l : /\ loads' = loads \cup {l} /\ LoadShape(l) /\ l.user = s
                       /\ l.phase = "asked" /\ l.answer = Seed(s)
<1>1. CASE s = None
  BY <1>1 DEF Hydration
<1>2. CASE s # None /\ s = hydratedFor
  BY <1>2 DEF Hydration
<1>3. CASE s # None /\ s # hydratedFor
  <2> DEFINE l == [id |-> FreshId, user |-> s, phase |-> "asked", answer |-> Seed(s)]
  <2>1. s \in Users /\ Seed(s) \in Document
    BY <1>3, Documents DEF MaybeUser
  <2>2. LoadShape(l) /\ l.user = s /\ l.phase = "asked" /\ l.answer = Seed(s)
    BY <2>1 DEF LoadShape
  <2>3. hydratedFor' = s /\ hydrated' = FALSE /\ loads' = loads \cup {l}
    BY <1>3 DEF Hydration
  <2> HIDE DEF l
  <2> QED
    BY <1>3, <2>2, <2>3
<1> QED
  BY <1>1, <1>2, <1>3

LEMMA Changed ==
  ASSUME TypesOK, store' = [store EXCEPT !.version = edits + 1]
  PROVE  store' \in Document /\ store'.owner = store.owner /\ store'.version = edits + 1
BY DEF TypesOK, Document

-----------------------------------------------------------------------------
(* Sessions.                                                               *)

\* A session that becomes s keeps the invariant, if the token is its own or if
\* there is no session and the token is anybody's.
LEMMA SessionKeeps ==
  ASSUME IInv, NEW s \in MaybeUser, SessionBecomes(s),
         token' \in MaybeUser, s # None => token' = s, check' \in MaybeUser \cup {NoCheck},
         asking' \in MaybeUser, checking' => s = None, edits' = edits, healthy' => healthy
  PROVE  IInv'
<1>1. /\ session' = s /\ Hydration(s)
      /\ orderly' => orderly /\ (s = session \/ ~Busy)
      /\ UNCHANGED <<store, timer, inFlight, rerun, wire, rows>>
      /\ TypesOK /\ SessionOK
  BY DEF SessionBecomes, queueVars, IInv
<1>2. hydratedFor = session
  BY <1>1 DEF SessionOK
<1>3. CASE s = session
  <2>1. hydratedFor' = s /\ loads' = loads
        /\ (s # None => hydrated' = hydrated) /\ (s = None => ~hydrated')
    BY <1>1, <1>2, <1>3, Hydrates
  <2>2. TypesOK' /\ SessionOK'
    BY <1>1, <1>3, <2>1 DEF TypesOK, SessionOK, SkeletonsEnd
  <2>3. ASSUME orderly' PROVE Owned'
    <3>1. Owned
      BY <1>1, <2>3 DEF IInv
    <3> QED
      BY <1>1, <1>3, <2>1, <3>1 DEF Owned
  <2>4. ASSUME orderly', healthy' PROVE InStep'
    <3>1. InStep /\ Owned
      BY <1>1, <2>4 DEF IInv
    <3>2. hydrated' => hydrated
      BY <2>1
    <3>3. \A r \in wire : InLine(r) => InLine(r)'
      BY <1>1, <1>3 DEF InLine
    <3>4. \A l \in loads : Loading(l) => Loading(l)'
      BY <1>1 DEF Loading
    <3> QED
      BY <1>1, <1>3, <2>1, <3>1, <3>2, <3>3, <3>4 DEF InStep
  <2> QED
    BY <2>2, <2>3, <2>4 DEF IInv
<1>4. CASE s # session /\ s = None
  <2>1. hydratedFor' = None /\ ~hydrated' /\ loads' = loads
    BY <1>1, <1>4, Hydrates
  <2>2. TypesOK' /\ SessionOK'
    BY <1>1, <1>4, <2>1 DEF TypesOK, SessionOK, SkeletonsEnd
  <2>3. ASSUME orderly' PROVE Owned'
    <3>1. Owned /\ ~Busy
      BY <1>1, <1>4, <2>3 DEF IInv
    <3> QED
      BY <1>1, <1>4, <2>1, <3>1 DEF Owned, Busy
  <2>4. ASSUME orderly', healthy' PROVE InStep'
    <3>1. Owned /\ ~Busy /\ InStep
      BY <1>1, <1>4, <2>4 DEF IInv
    <3> QED
      BY <1>1, <1>4, <2>1, <3>1 DEF InStep, Busy
  <2> QED
    BY <2>2, <2>3, <2>4 DEF IInv
<1>5. CASE s # session /\ s # None
  <2>1. PICK l : /\ loads' = loads \cup {l} /\ LoadShape(l) /\ l.user = s
                 /\ l.phase = "asked" /\ l.answer = Seed(s)
    BY <1>1, <1>2, <1>5, Hydrates
  <2>2. hydratedFor' = s /\ ~hydrated'
    BY <1>1, <1>2, <1>5, Hydrates
  <2>3. TypesOK' /\ SessionOK'
    BY <1>1, <1>5, <2>1, <2>2 DEF TypesOK, SessionOK, SkeletonsEnd
  <2>4. Seed(s).owner = s /\ s # None
    BY <1>5, Documents DEF MaybeUser
  <2>5. ASSUME orderly' PROVE Owned'
    <3>1. Owned /\ ~Busy
      BY <1>1, <1>5, <2>5 DEF IInv
    <3> QED
      BY <1>1, <2>1, <2>2, <2>4, <3>1 DEF Owned, Busy
  <2>6. ASSUME orderly', healthy' PROVE InStep'
    <3>1. Owned /\ ~Busy /\ InStep
      BY <1>1, <1>5, <2>6 DEF IInv
    <3> QED
      BY <1>1, <1>5, <2>1, <2>2, <3>1 DEF InStep, Busy, Loading
  <2> QED
    BY <2>3, <2>5, <2>6 DEF IInv
<1> QED
  BY <1>3, <1>4, <1>5

LEMMA LoginKeeps ==
  ASSUME IInv, (\E u \in Users : LoginAsked(u)) \/ LoginFails
  PROVE  IInv'
<1>1. /\ asking' \in MaybeUser
      /\ UNCHANGED <<checking, check, session, token, hydratedFor, hydrated, store, timer,
                     inFlight, rerun, loads, wire, rows, edits, orderly, healthy>>
  BY DEF LoginAsked, LoginFails, storeVars, queueVars, counters, MaybeUser
<1>2. TypesOK' /\ SessionOK'
  BY <1>1 DEF IInv, TypesOK, SessionOK, SkeletonsEnd
<1>3. orderly' => Owned'
  BY <1>1 DEF IInv, Owned
<1>4. orderly' /\ healthy' => InStep'
  BY <1>1 DEF IInv, InStep, InLine, Loading
<1> QED
  BY <1>2, <1>3, <1>4 DEF IInv

\* The answers to a login and to a session check, and a logout.
LEMMA AnswersKeep ==
  ASSUME IInv,
         LoginAnswered \/ CheckAnswered \/ CheckRefused \/ CheckThrows \/ SignOut
  PROVE  IInv'
<1>1. /\ check \in MaybeUser \cup {NoCheck} /\ asking \in MaybeUser
      /\ token \in MaybeUser /\ None \in MaybeUser /\ (checking => session = None)
  BY DEF IInv, TypesOK, SessionOK, MaybeUser
<1>2. CASE LoginAnswered
  BY <1>1, <1>2, SessionKeeps DEF LoginAnswered, counters
<1>3. CASE CheckAnswered
  <2>1. check \in MaybeUser /\ SessionBecomes(check)
    BY <1>3 DEF CheckAnswered, MaybeUser
  <2> QED
    BY <1>1, <1>3, <2>1, SessionKeeps DEF CheckAnswered, counters
<1>4. CASE CheckRefused
  BY <1>1, <1>4, SessionKeeps DEF CheckRefused, counters
<1>5. CASE CheckThrows
  BY <1>1, <1>5, SessionKeeps DEF CheckThrows, counters
<1>6. CASE SignOut
  BY <1>1, <1>6, SessionKeeps DEF SignOut, counters
<1> QED
  BY <1>2, <1>3, <1>4, <1>5, <1>6

LEMMA SignOutFailsKeeps ==
  ASSUME IInv, SignOutFails
  PROVE  IInv'
<1>1. /\ token' = None /\ ~healthy' /\ None \in MaybeUser
      /\ UNCHANGED <<checking, check, asking, session, hydratedFor, hydrated, store, timer, inFlight, rerun,
                     loads, wire, rows, edits, orderly>>
  BY DEF SignOutFails, storeVars, queueVars, counters, MaybeUser
<1>2. TypesOK' /\ SessionOK'
  BY <1>1 DEF IInv, TypesOK, SessionOK, SkeletonsEnd
<1>3. orderly' => Owned'
  BY <1>1 DEF IInv, Owned
<1> QED
  BY <1>1, <1>2, <1>3 DEF IInv

LEMMA ReloadKeeps ==
  ASSUME IInv, Reload
  PROVE  IInv'
<1>1. /\ checking' /\ session' = None /\ hydratedFor' = None /\ ~hydrated' /\ store' = Empty
      /\ ~timer' /\ ~inFlight' /\ ~rerun' /\ loads' = {}
      /\ UNCHANGED <<token, rows, edits, healthy>> /\ check' = token /\ asking' = None
      /\ orderly' => orderly /\ ~Busy
      /\ None \in MaybeUser /\ Empty \in Document /\ Empty.version = 0
  BY Documents DEF Reload, MaybeUser
<1>2. PICK kept \in SUBSET {r \in wire : ~r.executed},
           seeding \in SUBSET {l \in loads : l.phase = "empty"} :
        wire' = {GivenUp(r) : r \in kept}
                \cup {LateSeed(l) : l \in seeding}
                \cup IF timer /\ ~inFlight THEN {GivenUp(NewPut(store, "queue"))}
                     ELSE {}
  BY DEF Reload
<1>3. ASSUME NEW r \in wire' PROVE PutShape(r)
  <2>1. CASE \E q \in kept : r = GivenUp(q)
    <3>1. PICK q \in kept : r = GivenUp(q)
      BY <2>1
    <3>2. PutShape(q)
      BY DEF IInv, TypesOK
    <3> QED
      BY <3>1, <3>2, GivenUpShape
  <2>2. CASE \E l \in seeding : r = LateSeed(l)
    <3>1. PICK l \in seeding : r = LateSeed(l)
      BY <2>2
    <3>2. LoadShape(l)
      BY DEF IInv, TypesOK
    <3> QED
      BY <3>1, <3>2, LateSeedShape
  <2>3. CASE r = GivenUp(NewPut(store, "queue"))
    <3>1. PutShape(NewPut(store, "queue"))
      BY NewPutShape DEF IInv, TypesOK
    <3> QED
      BY <2>3, <3>1, GivenUpShape
  <2> QED
    BY <1>2, <2>1, <2>2, <2>3
<1>4. TypesOK'
  BY <1>1, <1>3 DEF IInv, TypesOK
<1>5. SessionOK'
  BY <1>1 DEF SessionOK, SkeletonsEnd
<1>6. ASSUME orderly'
      PROVE  Owned' /\ wire' = {}
  <2>1. Owned /\ ~Busy
    BY <1>1, <1>6 DEF IInv
  <2>2. wire' = {}
    BY <1>2, <2>1 DEF Busy
  <2> QED
    BY <1>1, <2>1, <2>2 DEF Owned
<1>7. ASSUME orderly', healthy'
      PROVE  InStep'
  <2>1. InStep /\ edits \in Nat
    BY <1>1, <1>7 DEF IInv, TypesOK
  <2> QED
    BY <1>1, <1>6, <1>7, <2>1 DEF InStep
<1> QED
  BY <1>4, <1>5, <1>6, <1>7 DEF IInv

-----------------------------------------------------------------------------
(* Edits.                                                                  *)

LEMMA EditKeeps ==
  ASSUME IInv, Edit
  PROVE  IInv'
<1>1. /\ session # None /\ hydrated /\ timer' /\ edits' = edits + 1 /\ edits \in Nat
      /\ UNCHANGED <<checking, check, asking, session, token, hydratedFor, hydrated, inFlight, rerun, loads,
                     wire, rows, healthy, orderly>>
  BY DEF Edit, Change, authVars, IInv, TypesOK
<1>2. store' \in Document /\ store'.owner = store.owner /\ store'.version = edits + 1
  BY Changed DEF Edit, Change, IInv
<1>3. TypesOK' /\ SessionOK'
  BY <1>1, <1>2 DEF IInv, TypesOK, SessionOK, SkeletonsEnd
<1>4. orderly' => Owned'
  BY <1>1, <1>2 DEF IInv, Owned
<1>5. ASSUME orderly', healthy'
      PROVE  InStep'
  <2>1. InStep /\ store.version \in Nat
    BY <1>1, <1>5 DEF IInv, TypesOK, Document
  <2>2. \A u \in Users : rows[u] # NoRow => rows[u].version \in Nat
    BY DEF IInv, TypesOK, Document
  <2>3. \A r \in wire : InLine(r) => InLine(r)'
    <3> SUFFICES ASSUME NEW r \in wire, InLine(r) PROVE InLine(r)'
      OBVIOUS
    <3>1. r.doc.version \in Nat
      BY DEF IInv, TypesOK, PutShape, Document
    <3> QED
      BY <1>1, <1>2, <2>1, <3>1 DEF InLine, InStep
  <2>4. \A l \in loads : Loading(l) => Loading(l)'
    BY <1>1 DEF Loading
  <2>5. session \in Users
    BY <1>1 DEF IInv, TypesOK, MaybeUser
  <2> QED
    BY <1>1, <1>2, <2>1, <2>2, <2>3, <2>4, <2>5 DEF InStep
<1> QED
  BY <1>3, <1>4, <1>5 DEF IInv

LEMMA EditEarlyKeeps ==
  ASSUME IInv, EditEarly
  PROVE  IInv'
<1>1. /\ ~orderly' /\ edits' = edits + 1 /\ edits \in Nat
      /\ UNCHANGED <<checking, check, asking, session, token, hydratedFor, hydrated, loads, wire, rows>>
  BY DEF EditEarly, Change, authVars, IInv, TypesOK
<1>2. store' \in Document
  BY Changed DEF EditEarly, Change, IInv
<1> QED
  BY <1>1, <1>2 DEF IInv, TypesOK, SessionOK, SkeletonsEnd

-----------------------------------------------------------------------------
(* The save queue.                                                         *)

LEMMA TimerFiresKeeps ==
  ASSUME IInv, TimerFires
  PROVE  IInv'
<1>1. /\ timer /\ ~timer'
      /\ UNCHANGED <<checking, check, asking, session, token, hydratedFor, hydrated, store, loads, rows, edits,
                     orderly, healthy>>
  BY DEF TimerFires, authVars, storeVars, counters
<1>2. PICK r : r = NewPut(store, "queue")
  OBVIOUS
<1>3. /\ PutShape(r) /\ r.as = token /\ r.doc = store /\ r.from = "queue"
      /\ r.awaited /\ ~r.executed
  BY <1>2, NewPutShape DEF IInv, TypesOK
<1>4. CASE inFlight /\ rerun' /\ UNCHANGED <<inFlight, wire>>
  <2>1. TypesOK' /\ SessionOK'
    BY <1>1, <1>4 DEF IInv, TypesOK, SessionOK, SkeletonsEnd
  <2>2. orderly' => Owned'
    BY <1>1, <1>4 DEF IInv, Owned
  <2>3. ASSUME orderly', healthy'
        PROVE  InStep'
    <3>1. InStep
      BY <1>1, <2>3 DEF IInv
    <3>2. \A q \in wire : InLine(q) => InLine(q)'
      BY <1>1, <1>4 DEF InLine
    <3>3. \A l \in loads : Loading(l) => Loading(l)'
      BY <1>1 DEF Loading
    <3> QED
      BY <1>1, <1>4, <3>1, <3>2, <3>3 DEF InStep
  <2> QED
    BY <2>1, <2>2, <2>3 DEF IInv
<1>5. CASE ~inFlight /\ inFlight' /\ wire' = wire \cup {r} /\ rerun' = rerun
  <2>1. TypesOK' /\ SessionOK'
    BY <1>1, <1>3, <1>5 DEF IInv, TypesOK, SessionOK, SkeletonsEnd
  <2>2. ASSUME orderly'
        PROVE  Owned' /\ Owned /\ hydrated /\ session # None
    <3>1. Owned /\ hydrated /\ session # None
      BY <1>1, <2>2 DEF IInv, Owned
    <3>2. r.as # None => r.doc.owner = r.as
      BY <1>1, <1>3, <3>1 DEF IInv, SessionOK, Owned
    <3> QED
      BY <1>1, <1>5, <3>1, <3>2 DEF Owned
  <2>3. ASSUME orderly', healthy'
        PROVE  InStep'
    <3>1. InStep /\ hydrated /\ session # None
      BY <1>1, <2>2, <2>3 DEF IInv
    <3>2. wire' = {r} /\ ~rerun
      BY <1>5, <3>1 DEF InStep
    <3>3. InLine(r)'
      <4>1. store.version \in Nat
        BY DEF IInv, TypesOK, Document
      <4> QED
        BY <1>1, <1>3, <1>5, <3>1, <3>2, <4>1 DEF InLine, InStep
    <3>4. \A l \in loads : Loading(l) => Loading(l)'
      BY <1>1 DEF Loading
    <3> QED
      BY <1>1, <1>5, <3>1, <3>2, <3>3, <3>4 DEF InStep
  <2> QED
    BY <2>1, <2>2, <2>3 DEF IInv
<1> QED
  BY <1>2, <1>4, <1>5 DEF TimerFires, Run

\* What follows when a request has been settled.
LEMMA SettledTypes ==
  ASSUME TypesOK, NEW r, NEW rest, Settled(r, rest), \A q \in rest : PutShape(q)
  PROVE  \A q \in wire' : PutShape(q)
<1>1. PutShape(NewPut(store, "queue"))
  BY NewPutShape DEF TypesOK
<1> QED
  BY <1>1 DEF Settled

LEMMA SettledOwned ==
  ASSUME TypesOK, SessionOK, Owned, hydrated, NEW r, NEW rest, Settled(r, rest),
         \A q \in rest : q.as # None => q.doc.owner = q.as
  PROVE  \A q \in wire' : q.as # None => q.doc.owner = q.as
<1>1. /\ NewPut(store, "queue").as = token /\ NewPut(store, "queue").doc = store
  BY NewPutShape DEF TypesOK
<1>2. session # None /\ store.owner = session
  BY DEF Owned
<1>3. NewPut(store, "queue").as # None => NewPut(store, "queue").doc.owner = NewPut(store, "queue").as
  BY <1>1, <1>2 DEF SessionOK
<1> QED
  BY <1>3 DEF Settled

LEMMA AnsweredKeeps ==
  ASSUME IInv, NEW r \in wire, Answered(r)
  PROVE  IInv'
<1>1. /\ r.awaited /\ r.executed /\ Settled(r, wire \ {r})
      /\ UNCHANGED <<checking, check, asking, session, token, hydratedFor, hydrated, store, timer, loads, rows,
                     edits, orderly, healthy>>
  BY DEF Answered, authVars, storeVars, counters
<1>2. TypesOK' /\ SessionOK'
  <2>1. \A q \in wire' : PutShape(q)
    BY <1>1, SettledTypes DEF IInv, TypesOK
  <2> QED
    BY <1>1, <2>1 DEF IInv, TypesOK, SessionOK, SkeletonsEnd
<1>3. ASSUME orderly'
      PROVE  Owned' /\ hydrated /\ session # None
  <2>1. Owned /\ hydrated /\ session # None
    BY <1>1, <1>3 DEF IInv, Owned
  <2>2. \A q \in wire' : q.as # None => q.doc.owner = q.as
    BY <1>1, <2>1, SettledOwned DEF IInv, Owned
  <2> QED
    BY <1>1, <2>1, <2>2 DEF Owned
<1>4. ASSUME orderly', healthy'
      PROVE  InStep'
  <2>1. InStep /\ hydrated /\ session # None
    BY <1>1, <1>3, <1>4 DEF IInv
  <2>2. wire = {r} /\ InLine(r)
    BY <2>1 DEF InStep
  <2>3. rows[session] # NoRow /\ rows[session] = r.doc /\ r.doc.version <= store.version
    BY <1>1, <2>2 DEF InLine
  <2>4. \A l \in loads : Loading(l) => Loading(l)'
    BY <1>1 DEF Loading
  <2>5. CASE rerun
    <3>1. PICK q : q = NewPut(store, "queue")
      OBVIOUS
    <3>2. /\ q.as = token /\ q.doc = store /\ q.from = "queue" /\ q.awaited /\ ~q.executed
      BY <3>1, NewPutShape DEF IInv, TypesOK
    <3>3. ~rerun' /\ wire' = {q} /\ UNCHANGED inFlight
      BY <1>1, <2>2, <2>5, <3>1 DEF Settled, InLine
    <3>4. store.version \in Nat
      BY DEF IInv, TypesOK, Document
    <3>5. InLine(q)'
      BY <1>1, <2>1, <2>3, <3>2, <3>4 DEF InLine, InStep
    <3>6. inFlight
      BY <2>1, <2>2 DEF InStep
    <3> QED
      BY <1>1, <2>1, <2>4, <3>3, <3>5, <3>6 DEF InStep
  <2>6. CASE ~rerun
    <3>1. ~inFlight' /\ wire' = {} /\ UNCHANGED rerun
      BY <1>1, <2>2, <2>6 DEF Settled, InLine
    <3>2. ~timer => rows[session] = store
      BY <2>2, <2>3, <2>6 DEF InLine
    <3> QED
      BY <1>1, <2>1, <2>3, <2>4, <2>6, <3>1, <3>2 DEF InStep
  <2> QED
    BY <2>5, <2>6
<1> QED
  BY <1>2, <1>3, <1>4 DEF IInv

LEMMA PutFailsKeeps ==
  ASSUME IInv, NEW r \in wire, PutFails(r)
  PROVE  IInv'
<1>1. /\ ~healthy'
      /\ UNCHANGED <<checking, check, asking, session, token, hydratedFor, hydrated, store, timer, loads, rows,
                     edits, orderly>>
  BY DEF PutFails, authVars, storeVars, counters
<1>2. PutShape(r) /\ PutShape(GivenUp(r)) /\ GivenUp(r).as = r.as /\ GivenUp(r).doc = r.doc
  BY GivenUpShape DEF IInv, TypesOK
<1>3. PICK rest : Settled(r, rest) /\ rest \subseteq wire \cup {GivenUp(r)}
  BY DEF PutFails
<1>4. TypesOK' /\ SessionOK'
  <2>1. \A q \in wire' : PutShape(q)
    BY <1>2, <1>3, SettledTypes DEF IInv, TypesOK
  <2> QED
    BY <1>1, <2>1 DEF IInv, TypesOK, SessionOK, SkeletonsEnd
<1>5. ASSUME orderly'
      PROVE  Owned'
  <2>1. Owned /\ hydrated /\ session # None
    BY <1>1, <1>5 DEF IInv, Owned
  <2>2. \A q \in wire' : q.as # None => q.doc.owner = q.as
    BY <1>2, <1>3, <2>1, SettledOwned DEF IInv, Owned
  <2> QED
    BY <1>1, <2>1, <2>2 DEF Owned
<1> QED
  BY <1>1, <1>4, <1>5 DEF IInv

\* The row of a request that is executed.
LEMMA ExecutedRow ==
  ASSUME IInv, NEW r \in wire, Executes(r)
  PROVE  /\ r.as \in Users /\ r.doc \in Document /\ PutShape(r)
         /\ rows' = [rows EXCEPT ![r.as] = r.doc]
         /\ rows' \in [Users -> Document \cup {NoRow}]
         /\ rows'[r.as] = r.doc
         /\ \A u \in Users : u # r.as => rows'[u] = rows[u]
<1>1. PutShape(r) /\ rows \in [Users -> Document \cup {NoRow}]
  BY DEF IInv, TypesOK
<1>2. r.as \in Users /\ r.doc \in Document
  BY <1>1 DEF Executes, PutShape, MaybeUser
<1> QED
  BY <1>1, <1>2 DEF Executes

LEMMA ExecutesKeeps ==
  ASSUME IInv, NEW r \in wire, Executes(r)
  PROVE  IInv'
<1>1. /\ ~r.executed /\ r.as # None
      /\ UNCHANGED <<checking, check, asking, session, token, hydratedFor, hydrated, store, timer, inFlight,
                     rerun, loads, edits, orderly, healthy>>
  BY DEF Executes, authVars, storeVars, queueVars, counters
<1>2. PICK q : q = [r EXCEPT !.executed = TRUE]
  OBVIOUS
<1>3. /\ PutShape(q) /\ q.as = r.as /\ q.doc = r.doc /\ q.from = r.from
      /\ q.awaited = r.awaited /\ q.executed
  BY <1>2, ExecutedRow DEF PutShape
<1>4. wire' = (wire \ {r}) \cup IF r.awaited THEN {q} ELSE {}
  BY <1>2 DEF Executes
<1>5. TypesOK' /\ SessionOK'
  <2>1. \A p \in wire' : PutShape(p)
    BY <1>3, <1>4 DEF IInv, TypesOK
  <2> QED
    BY <1>1, <2>1, ExecutedRow DEF IInv, TypesOK, SessionOK, SkeletonsEnd
<1>6. ASSUME orderly'
      PROVE  Owned' /\ hydrated /\ session # None
  <2>1. Owned /\ hydrated /\ session # None /\ r.doc.owner = r.as
    BY <1>1, <1>6 DEF IInv, Owned
  <2>2. \A p \in wire' : p.as # None => p.doc.owner = p.as
    BY <1>3, <1>4, <2>1 DEF Owned
  <2>3. \A u \in Users : rows'[u] # NoRow => rows'[u].owner = u
    BY <2>1, ExecutedRow DEF Owned
  <2> QED
    BY <1>1, <2>1, <2>2, <2>3 DEF Owned
<1>7. ASSUME orderly', healthy'
      PROVE  InStep'
  <2>1. InStep /\ hydrated /\ session # None
    BY <1>1, <1>6, <1>7 DEF IInv
  <2>2. wire = {r} /\ InLine(r) /\ inFlight /\ loads = {}
    BY <2>1 DEF InStep
  <2>3. wire' = {q} /\ r.as = session /\ rows'[session] = r.doc /\ rows'[session] # NoRow
    BY <1>4, <2>2, ExecutedRow, Documents DEF InLine
  <2>4. InLine(q)'
    BY <1>1, <1>3, <2>2, <2>3 DEF InLine
  <2>5. \A u \in Users : rows'[u] # NoRow => rows'[u].version <= edits'
    <3>1. r.doc.version <= edits
      <4>1. r.doc.version \in Nat /\ store.version \in Nat /\ edits \in Nat
        BY ExecutedRow DEF IInv, TypesOK, Document
      <4> QED
        BY <2>1, <2>2, <4>1 DEF InLine, InStep
    <3> QED
      BY <1>1, <2>1, <2>3, <3>1, ExecutedRow DEF InStep
  <2> QED
    BY <1>1, <2>1, <2>2, <2>3, <2>4, <2>5 DEF InStep
<1> QED
  BY <1>5, <1>6, <1>7 DEF IInv

LEMMA ForgottenKeeps ==
  ASSUME IInv, NEW r \in wire, Forgotten(r)
  PROVE  IInv'
<1>1. /\ ~r.awaited /\ wire' = wire \ {r}
      /\ UNCHANGED <<checking, check, asking, session, token, hydratedFor, hydrated, store, timer, inFlight,
                     rerun, loads, rows, edits, orderly, healthy>>
  BY DEF Forgotten, authVars, storeVars, queueVars, counters
<1>2. TypesOK' /\ SessionOK'
  BY <1>1 DEF IInv, TypesOK, SessionOK, SkeletonsEnd
<1>3. orderly' => Owned'
  BY <1>1 DEF IInv, Owned
<1>4. ~(orderly /\ healthy)
  BY <1>1 DEF IInv, InStep, InLine
<1> QED
  BY <1>1, <1>2, <1>3, <1>4 DEF IInv

-----------------------------------------------------------------------------
(* Loading.                                                                *)

\* Before the document is there the queue of an orderly session is idle.
LEMMA Quiet ==
  ASSUME Owned, InStep, ~hydrated
  PROVE  wire = {} /\ ~inFlight /\ ~rerun /\ ~timer
BY DEF Owned, InStep

LEMMA RouteReadsKeeps ==
  ASSUME IInv, NEW l \in loads, RouteReads(l)
  PROVE  IInv'
<1>1. /\ l.phase = "asked" /\ LoadShape(l) /\ l.user \in Users
      /\ UNCHANGED <<checking, check, asking, session, token, hydratedFor, hydrated, store, timer, inFlight,
                     rerun, wire, rows, edits, orderly, healthy>>
  BY DEF RouteReads, authVars, storeVars, queueVars, counters, IInv, TypesOK, LoadShape
<1>2. PICK m : m = IF rows[l.user] = NoRow THEN [l EXCEPT !.phase = "empty"]
                   ELSE [l EXCEPT !.phase = "answered", !.answer = rows[l.user]]
  OBVIOUS
<1>3. loads' = (loads \ {l}) \cup {m}
  BY <1>2 DEF RouteReads
<1>4. /\ LoadShape(m) /\ m.user = l.user
      /\ rows[l.user] = NoRow => m.phase = "empty" /\ m.answer = l.answer
      /\ rows[l.user] # NoRow => m.phase = "answered" /\ m.answer = rows[l.user]
  <2>1. rows[l.user] \in Document \cup {NoRow}
    BY <1>1 DEF IInv, TypesOK
  <2> QED
    BY <1>1, <1>2, <2>1 DEF LoadShape
<1>5. TypesOK' /\ SessionOK'
  BY <1>1, <1>3, <1>4 DEF IInv, TypesOK, SessionOK, SkeletonsEnd
<1>6. ASSUME orderly'
      PROVE  Owned'
  <2>1. Owned
    BY <1>1, <1>6 DEF IInv
  <2>2. m.user = session /\ m.answer.owner = m.user
    BY <1>1, <1>4, <2>1 DEF Owned
  <2> QED
    BY <1>1, <1>3, <2>1, <2>2 DEF Owned
<1>7. ASSUME orderly', healthy'
      PROVE  InStep'
  <2>1. InStep /\ loads = {l} /\ Loading(l) /\ ~hydrated /\ Owned
    BY <1>1, <1>7 DEF IInv, InStep
  <2>2. wire = {} /\ ~inFlight /\ ~rerun
    BY <2>1, Quiet
  <2>3. Loading(m)'
    BY <1>1, <1>4, <2>1 DEF Loading
  <2> QED
    BY <1>1, <1>3, <2>1, <2>2, <2>3 DEF InStep
<1> QED
  BY <1>5, <1>6, <1>7 DEF IInv

LEMMA RouteSeedsKeeps ==
  ASSUME IInv, NEW l \in loads, RouteSeeds(l)
  PROVE  IInv'
<1>1. /\ l.phase = "empty" /\ LoadShape(l) /\ l.user \in Users
      /\ UNCHANGED <<checking, check, asking, session, token, hydratedFor, hydrated, store, timer, inFlight,
                     rerun, wire, edits, orderly, healthy>>
      /\ rows \in [Users -> Document \cup {NoRow}] /\ edits \in Nat
  BY DEF RouteSeeds, authVars, storeVars, queueVars, counters, IInv, TypesOK, LoadShape
<1>2. PICK m : m = [l EXCEPT !.phase = "answered"]
  OBVIOUS
<1>3. loads' = (loads \ {l}) \cup {m}
  BY <1>2 DEF RouteSeeds
<1>4. LoadShape(m) /\ m.user = l.user /\ m.phase = "answered" /\ m.answer = l.answer
  BY <1>1, <1>2 DEF LoadShape
<1>5. PICK d : d = Seed(l.user)
  OBVIOUS
<1>6. d \in Document /\ d.owner = l.user /\ d.version = 0 /\ d # NoRow
  BY <1>1, <1>5, Documents
<1>7. /\ rows' \in [Users -> Document \cup {NoRow}] /\ rows'[l.user] = d
      /\ \A u \in Users : u # l.user => rows'[u] = rows[u]
  BY <1>1, <1>5, <1>6 DEF RouteSeeds
<1>8. TypesOK' /\ SessionOK'
  BY <1>1, <1>3, <1>4, <1>7 DEF IInv, TypesOK, SessionOK, SkeletonsEnd
<1>9. ASSUME orderly'
      PROVE  Owned'
  <2>1. Owned
    BY <1>1, <1>9 DEF IInv
  <2>2. m.user = session /\ m.answer.owner = m.user
    BY <1>1, <1>4, <2>1 DEF Owned
  <2>3. \A u \in Users : rows'[u] # NoRow => rows'[u].owner = u
    BY <1>6, <1>7, <2>1 DEF Owned
  <2> QED
    BY <1>1, <1>3, <2>1, <2>2, <2>3 DEF Owned
<1>10. ASSUME orderly', healthy'
       PROVE  InStep'
  <2>1. InStep /\ loads = {l} /\ Loading(l) /\ ~hydrated /\ Owned
    BY <1>1, <1>10 DEF IInv, InStep
  <2>2. wire = {} /\ ~inFlight /\ ~rerun
    BY <2>1, Quiet
  <2>3. Loading(m)'
    BY <1>1, <1>4, <1>5, <1>7, <2>1 DEF Loading
  <2>4. \A u \in Users : rows'[u] # NoRow => rows'[u].version <= edits
    BY <1>1, <1>6, <1>7, <2>1 DEF InStep
  <2> QED
    BY <1>1, <1>3, <2>1, <2>2, <2>3, <2>4 DEF InStep
<1> QED
  BY <1>8, <1>9, <1>10 DEF IInv

LEMMA LoadArrivesKeeps ==
  ASSUME IInv, NEW l \in loads, LoadArrives(l)
  PROVE  IInv'
<1>1. /\ l.phase = "answered" /\ loads' = loads \ {l} /\ store' = l.answer /\ hydrated'
      /\ LoadShape(l) /\ l.user \in Users /\ l.answer \in Document
      /\ UNCHANGED <<checking, check, asking, session, token, hydratedFor, timer, inFlight,
                     rerun, wire, rows, edits, orderly, healthy>>
  BY DEF LoadArrives, authVars, queueVars, counters, IInv, TypesOK, LoadShape
<1>2. TypesOK' /\ SessionOK'
  BY <1>1 DEF IInv, TypesOK, SessionOK, SkeletonsEnd
<1>3. ASSUME orderly'
      PROVE  Owned' /\ session = l.user
  <2>1. Owned
    BY <1>1, <1>3 DEF IInv
  <2> QED
    BY <1>1, <2>1 DEF Owned
<1>4. ASSUME orderly', healthy'
      PROVE  InStep'
  <2>1. InStep /\ loads = {l} /\ Loading(l) /\ ~hydrated /\ Owned
    BY <1>1, <1>4 DEF IInv, InStep
  <2>2. wire = {} /\ ~inFlight /\ ~rerun
    BY <2>1, Quiet
  <2>3. rows[session] = l.answer /\ l.answer # NoRow
    BY <1>1, <1>3, <1>4, <2>1, Documents DEF Loading
  <2>4. l.answer.version <= edits /\ l.answer.version \in Nat
    BY <1>1, <1>3, <1>4, <2>1, <2>3 DEF InStep, Document
  <2> QED
    BY <1>1, <2>1, <2>2, <2>3, <2>4 DEF InStep
<1> QED
  BY <1>2, <1>3, <1>4 DEF IInv

LEMMA LoadFailsKeeps ==
  ASSUME IInv, NEW l \in loads, LoadFails(l)
  PROVE  IInv'
<1>1. PICK d : d = Seed(l.user)
  OBVIOUS
<1>2. /\ loads' = loads \ {l} /\ store' = d /\ hydrated' /\ ~healthy'
      /\ LoadShape(l) /\ l.user \in Users
      /\ UNCHANGED <<checking, check, asking, session, token, hydratedFor, timer, inFlight,
                     rerun, rows, edits, orderly>>
  BY <1>1 DEF LoadFails, authVars, queueVars, counters, IInv, TypesOK, LoadShape
<1>3. d \in Document /\ d.owner = l.user
  BY <1>1, <1>2, Documents
<1>4. PICK p, q : /\ wire' \subseteq wire \cup {p, q}
                  /\ PutShape(p) /\ p.as = token /\ p.doc = d
                  /\ PutShape(q) /\ q.as = l.user /\ q.doc = d
  <2>1. /\ PutShape(NewPut(d, "hydrate")) /\ NewPut(d, "hydrate").as = token
        /\ NewPut(d, "hydrate").doc = d
    BY <1>3, NewPutShape DEF IInv, TypesOK
  <2>2. PutShape(LateSeed(l)) /\ LateSeed(l).as = l.user /\ LateSeed(l).doc = d
    BY <1>1, <1>2, LateSeedShape
  <2>3. wire' \subseteq wire \cup {NewPut(d, "hydrate"), LateSeed(l)}
    BY <1>1 DEF LoadFails
  <2> QED
    BY <2>1, <2>2, <2>3
<1>5. TypesOK' /\ SessionOK'
  <2>1. \A r \in wire' : PutShape(r)
    BY <1>4 DEF IInv, TypesOK
  <2> QED
    BY <1>2, <1>3, <2>1 DEF IInv, TypesOK, SessionOK, SkeletonsEnd
<1>6. ASSUME orderly'
      PROVE  Owned'
  <2>1. Owned /\ session = l.user /\ session # None /\ token \in {session, None}
    BY <1>2, <1>6 DEF IInv, Owned, SessionOK
  <2>2. \A r \in wire' : r.as # None => r.doc.owner = r.as
    BY <1>3, <1>4, <2>1 DEF Owned
  <2> QED
    BY <1>2, <1>3, <2>1, <2>2 DEF Owned
<1> QED
  BY <1>2, <1>5, <1>6 DEF IInv

-----------------------------------------------------------------------------
(* The invariant.                                                          *)

LEMMA Initial == Init => IInv
<1> SUFFICES ASSUME Init PROVE IInv
  OBVIOUS
<1>1. PICK known \in SUBSET Users :
        rows = [u \in Users |-> IF u \in known THEN [owner |-> u, version |-> 1] ELSE NoRow]
  BY DEF Init
<1>2. \A u \in Users : /\ rows[u] \in Document \cup {NoRow}
                       /\ rows[u] # NoRow => rows[u].owner = u /\ rows[u].version = 1
  BY <1>1, Documents DEF Document
<1>3. rows \in [Users -> Document \cup {NoRow}]
  BY <1>1, <1>2
<1>4. TypesOK
  BY <1>3, Documents DEF Init, TypesOK, MaybeUser
<1>5. SessionOK /\ Owned
  BY <1>2 DEF Init, SessionOK, SkeletonsEnd, Owned
<1>6. InStep
  BY <1>2, Documents DEF Init, InStep
<1> QED
  BY <1>4, <1>5, <1>6 DEF IInv

LEMMA Step == IInv /\ [Next]_vars => IInv'
<1> SUFFICES ASSUME IInv, [Next]_vars PROVE IInv'
  OBVIOUS
<1>1. CASE (\E u \in Users : LoginAsked(u)) \/ LoginFails
  BY <1>1, LoginKeeps
<1>2. CASE LoginAnswered \/ CheckAnswered \/ CheckRefused \/ CheckThrows \/ SignOut
  BY <1>2, AnswersKeep
<1>3. CASE SignOutFails
  BY <1>3, SignOutFailsKeeps
<1>4. CASE Reload
  BY <1>4, ReloadKeeps
<1>5. CASE Edit
  BY <1>5, EditKeeps
<1>6. CASE EditEarly
  BY <1>6, EditEarlyKeeps
<1>7. CASE TimerFires
  BY <1>7, TimerFiresKeeps
<1>8. ASSUME NEW r \in wire, Executes(r) \/ Answered(r) \/ PutFails(r) \/ Forgotten(r)
       PROVE  IInv'
  BY <1>8, ExecutesKeeps, AnsweredKeeps, PutFailsKeeps, ForgottenKeeps
<1>9. ASSUME NEW l \in loads,
              RouteReads(l) \/ RouteSeeds(l) \/ LoadArrives(l) \/ LoadFails(l)
       PROVE  IInv'
  BY <1>9, RouteReadsKeeps, RouteSeedsKeeps, LoadArrivesKeeps, LoadFailsKeeps
<1>10. CASE UNCHANGED vars
  <2>1. UNCHANGED <<checking, check, asking, session, token, hydratedFor, hydrated, store, timer, inFlight,
                    rerun, loads, wire, rows, edits, orderly, healthy>>
    BY <1>10 DEF vars, authVars, storeVars, queueVars, counters
  <2>2. TypesOK' /\ SessionOK'
    BY <2>1 DEF IInv, TypesOK, SessionOK, SkeletonsEnd
  <2>3. orderly' => Owned'
    BY <2>1 DEF IInv, Owned
  <2>4. orderly' /\ healthy' => InStep'
    BY <2>1 DEF IInv, InStep, InLine, Loading
  <2> QED
    BY <2>2, <2>3, <2>4 DEF IInv
<1> QED
  BY <1>1, <1>2, <1>3, <1>4, <1>5, <1>6, <1>7, <1>8, <1>9, <1>10 DEF Next

\* Store, queue, requests and rows fit together in every reachable state.
THEOREM Invariance == Spec => []IInv
BY Initial, Step, PTL DEF Spec

\* What the routes show as ready belongs to the one who is signed in, as long
\* as sessions are left at rest (StoreHydrator.tsx:10-31).
THEOREM OwnIsShown == Spec => []ShownIsOwn
<1>1. IInv => ShownIsOwn
  BY DEF IInv, Owned, ShownIsOwn
<1> QED
  BY <1>1, Invariance, PTL

\* Under the same provision a row holds the document of its user, whichever of
\* queue, hydrate() and route wrote it (ApiRepository.ts, app/api/data/route.ts).
THEOREM OwnIsStored == Spec => []RowsAreOwn
<1>1. IInv => RowsAreOwn
  BY DEF IInv, Owned, RowsAreOwn
<1> QED
  BY <1>1, Invariance, PTL

\* If moreover no request failed, a page at rest shows what is stored.
THEOREM RestIsStored == Spec => []RestMeansStored
<1>1. IInv => RestMeansStored
  BY DEF IInv, InStep, Busy, RestMeansStored
<1> QED
  BY <1>1, Invariance, PTL

\* While a document is missing, a load for it is under way.
THEOREM SkeletonsHaveLoads == Spec => []SkeletonsEnd
<1>1. IInv => SkeletonsEnd
  BY DEF IInv, SessionOK
<1> QED
  BY <1>1, Invariance, PTL

\* Only an executed PUT and the route's seed write rows.
LEMMA RowsWritten ==
  [Next]_vars => \/ UNCHANGED rows
                 \/ \E r \in wire : Executes(r)
                 \/ \E l \in loads : RouteSeeds(l)
BY DEF Next, vars, counters, SessionBecomes, LoginAsked, LoginAnswered, LoginFails, CheckAnswered,
       CheckRefused, CheckThrows, SignOut, SignOutFails, Reload,
       Edit, EditEarly, Change, TimerFires, Answered, PutFails, Forgotten, RouteReads,
       LoadArrives, LoadFails

\* In an orderly session without failures no write takes a row back to an older
\* version or to the seed (saveQueue.ts:35-55, app/api/data/route.ts).
THEOREM RowsGrow == Spec => RowsMoveForward
<1> DEFINE Forward == orderly' /\ healthy' =>
                        \A u \in Users : rows[u] # NoRow => rows'[u].version >= rows[u].version
<1>1. ASSUME IInv, [Next]_vars PROVE [Forward]_rows
  <2>1. \A u \in Users : rows[u] # NoRow => rows[u].version \in Nat
    BY <1>1 DEF IInv, TypesOK, Document
  <2>2. ASSUME NEW r \in wire, Executes(r), orderly', healthy', NEW u \in Users,
               rows[u] # NoRow
        PROVE  rows'[u].version >= rows[u].version
    <3>1. InStep /\ ~r.executed
      BY <1>1, <2>2 DEF IInv, Executes
    <3>2. InLine(r)
      BY <3>1 DEF InStep
    <3>3. r.as = session /\ rows[session].version <= r.doc.version
      BY <3>1, <3>2 DEF InLine
    <3>4. r.doc.version \in Nat
      BY <1>1, <2>2, ExecutedRow DEF Document
    <3>5. rows'[r.as] = r.doc /\ (u # r.as => rows'[u] = rows[u])
      BY <1>1, <2>2, ExecutedRow
    <3> QED
      BY <2>1, <2>2, <3>3, <3>4, <3>5
  <2>3. ASSUME NEW l \in loads, RouteSeeds(l), orderly', healthy', NEW u \in Users,
               rows[u] # NoRow
        PROVE  rows'[u].version >= rows[u].version
    <3>1. InStep /\ l.phase = "empty"
      BY <1>1, <2>3 DEF IInv, RouteSeeds
    <3>2. rows[l.user] = NoRow
      BY <3>1 DEF InStep, Loading
    <3>3. rows'[u] = rows[u]
      BY <1>1, <2>3, <3>2 DEF RouteSeeds, IInv, TypesOK
    <3> QED
      BY <2>1, <2>3, <3>3
  <2> QED
    BY <1>1, <2>2, <2>3, RowsWritten
<1>2. Spec => [][Forward]_rows
  BY <1>1, Invariance, PTL DEF Spec
<1> QED
  BY <1>2 DEF RowsMoveForward
=============================================================================
