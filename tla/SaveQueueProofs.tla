--------------------------- MODULE SaveQueueProofs --------------------------
(***************************************************************************)
(* Theorems about SaveQueue, for any number of versions and of hydrate()   *)
(* calls, and their proofs.  The inductive invariant relates the queue's   *)
(* flags to the requests on the wire and those to the row.  What makes it  *)
(* inductive is `LatestOnItsWay`: when no timer is armed and no follow-up  *)
(* is asked for, the queue's request carries the current version - unless  *)
(* hydrate() has displaced what the queue was about to save.               *)
(***************************************************************************)
EXTENDS SaveQueue, TLAPS

Live == page # "closed"

\* Nothing is newer than the latest version, and no request of the queue is newer
\* than what is shown.
Numbered ==
  /\ current <= latest /\ stored.version <= latest
  /\ \A r \in wire : r.version <= latest
  /\ \A r \in wire : QueueSave(r) => r.version <= current
  /\ \A l \in loads : l.version <= latest

\* A row that was written in order never runs ahead of the save in flight, nor of
\* the page, which is behind it only as long as it has nothing to save.
RowBehind ==
  ~stored.stray =>
    /\ \A r \in wire : QueueSave(r) => stored.version <= r.version
    /\ Live => stored.version <= current \/ (Quiet /\ displaced)

LatestOnItsWay ==
  Live /\ ~displaced /\ ~timer /\ ~rerun =>
    \A r \in wire : QueueSave(r) => r.version = current

ExecutedIsStored ==
  \A r \in wire : QueueSave(r) /\ r.executed =>
    stored.stray \/ stored.version = r.version

FlagsOK ==
  /\ rerun => inFlight
  /\ ~Live => \A r \in wire : ~r.awaited
  /\ alarm => saveState = "error"

\* An idle queue has stored the current version, leaves that to hydrate(), or has
\* reported the failure.
IdleSettled ==
  Live /\ ~displaced /\ Quiet =>
    \/ \E r \in wire : r.awaited /\ ~r.executed /\ r.version = current
    \/ stored.version = current \/ stored.stray \/ saveState = "error"

IInv == /\ TypeOK /\ SingleFlight /\ QuietMeansIdle
        /\ Numbered /\ RowBehind /\ LatestOnItsWay /\ ExecutedIsStored
        /\ FlagsOK /\ IdleSettled

-----------------------------------------------------------------------------

LEMMA NewRequestFields ==
  ASSUME sent \in Nat, NEW v \in Nat, NEW from \in {"queue", "hydrate", "route"},
         NEW ka \in BOOLEAN, NEW refused \in BOOLEAN
  PROVE  LET n == NewRequest(v, from, ka, refused) IN
         /\ n \in Request /\ n.version = v /\ n.from = from
         /\ n.awaited = TRUE /\ n.executed = FALSE
BY DEF NewRequest, Request

LEMMA LateSeedFields ==
  ASSUME NEW id \in Nat, NEW v \in Nat
  PROVE  /\ LateSeed(id, v) \in Request
         /\ LateSeed(id, v).version = v
         /\ LateSeed(id, v).awaited = FALSE
BY DEF LateSeed, Request

LEMMA GivenUpFields ==
  ASSUME NEW r \in Request
  PROVE  /\ GivenUp(r) \in Request
         /\ GivenUp(r).version = r.version /\ GivenUp(r).awaited = FALSE
BY DEF GivenUp, Request

LEMMA CommittedFields ==
  ASSUME NEW r \in Request
  PROVE  /\ Committed(r) \in Request
         /\ Committed(r).version = r.version /\ Committed(r).from = r.from
         /\ Committed(r).awaited = r.awaited /\ Committed(r).executed = TRUE
BY DEF Committed, Request

LEMMA RequestFields ==
  ASSUME NEW r \in Request
  PROVE  /\ r.id \in Nat /\ r.version \in Nat
         /\ r.from \in {"queue", "hydrate", "route"}
         /\ r.awaited \in BOOLEAN /\ r.executed \in BOOLEAN
BY DEF Request

LEMMA InitInv == Init => IInv
<1> SUFFICES ASSUME Init PROVE IInv
  OBVIOUS
<1> USE DEF Init, SaveStatus, Live, QueueSave, Quiet
<1>1. TypeOK
  <2>1. latest \in Nat /\ stored \in [version: Nat, stray: BOOLEAN]
    OBVIOUS
  <2>2. wire \in SUBSET Request /\ loads \in SUBSET Load
    OBVIOUS
  <2>3. /\ saveState \in SaveStatus /\ current \in Nat /\ sent \in Nat
        /\ hydrations \in Nat
    OBVIOUS
  <2> QED
    BY <2>1, <2>2, <2>3 DEF TypeOK
<1>2. SingleFlight /\ QuietMeansIdle /\ LatestOnItsWay /\ FlagsOK
  BY DEF SingleFlight, QuietMeansIdle, LatestOnItsWay, FlagsOK
<1>3. Numbered /\ RowBehind /\ ExecutedIsStored /\ IdleSettled
  BY DEF Numbered, RowBehind, ExecutedIsStored, IdleSettled
<1> QED
  BY <1>1, <1>2, <1>3 DEF IInv

\* The request that saveFn() issues.
LEMMA SendFields ==
  ASSUME TypeOK, NEW ka \in BOOLEAN, NEW others, Send(ka, others)
  PROVE  \E new \in Request :
           /\ wire' = others \cup {new} /\ sent' \in Nat
           /\ new.version = current /\ new.from = "queue"
           /\ new.awaited = TRUE /\ new.executed = FALSE
<1>1. PICK refused \in {FALSE, ka} :
        wire' = others \cup {NewRequest(current, "queue", ka, refused)}
  BY DEF Send
<1> DEFINE new == NewRequest(current, "queue", ka, refused)
<1>t. current \in Nat /\ sent \in Nat /\ refused \in BOOLEAN
  BY DEF TypeOK
<1>2. /\ new \in Request /\ new.version = current /\ new.from = "queue"
      /\ new.awaited = TRUE /\ new.executed = FALSE
  BY <1>t DEF NewRequest, Request
<1>3. sent' \in Nat
  BY DEF Send, TypeOK
<1> HIDE DEF new
<1> QED
  BY <1>1, <1>2, <1>3 DEF new

\* What run() does when the timer fires or a flush finds it armed.
LEMMA SendStep ==
  ASSUME IInv, NEW ka \in BOOLEAN, timer, timer' = FALSE, Run(ka),
         Live, page' \in {"open", "hidden"},
         UNCHANGED <<told, shown, loading, stored>>
  PROVE  IInv'
<1> USE DEF IInv, TypeOK, SaveStatus, Live, told, shown, loading, QueueSave, Quiet
<1>j. CASE inFlight
  <2>1. /\ rerun' = TRUE /\ rerunKeepalive' \in BOOLEAN
        /\ UNCHANGED <<inFlight, sent, wire>>
    BY <1>j DEF Run
  <2>2. TypeOK'
    BY <1>j, <2>1
  <2>3. SingleFlight' /\ QuietMeansIdle' /\ LatestOnItsWay' /\ FlagsOK'
    BY <1>j, <2>1 DEF SingleFlight, QuietMeansIdle, LatestOnItsWay, FlagsOK
  <2>4. Numbered' /\ RowBehind' /\ ExecutedIsStored' /\ IdleSettled'
    BY <1>j, <2>1 DEF Numbered, RowBehind, ExecutedIsStored, IdleSettled
  <2> QED
    BY <2>2, <2>3, <2>4
<1>s. CASE ~inFlight
  <2>1. /\ inFlight' = TRUE /\ Send(ka, wire)
        /\ UNCHANGED <<rerun, rerunKeepalive>>
    BY <1>s DEF Run
  <2>2. PICK new \in Request :
          /\ wire' = wire \cup {new} /\ sent' \in Nat
          /\ new.version = current /\ new.from = "queue"
          /\ new.awaited = TRUE /\ new.executed = FALSE
    BY <2>1, SendFields, ZenonT(30)
  <2>3. \A r \in wire : ~QueueSave(r)
    BY <1>s DEF SingleFlight
  <2>4. TypeOK'
    BY <2>1, <2>2
  <2>5. SingleFlight'
    BY <2>1, <2>2, <2>3 DEF SingleFlight
  <2>6. QuietMeansIdle' /\ FlagsOK'
    BY <2>1, <2>2 DEF QuietMeansIdle, FlagsOK
  <2>7. Numbered'
    BY <2>1, <2>2 DEF Numbered
  <2>8. RowBehind'
    BY <2>1, <2>2 DEF RowBehind
  <2>9. LatestOnItsWay' /\ ExecutedIsStored' /\ IdleSettled'
    BY <2>1, <2>2, <2>3 DEF LatestOnItsWay, ExecutedIsStored, IdleSettled
  <2> QED
    BY <2>4, <2>5, <2>6, <2>7, <2>8, <2>9
<1> QED
  BY <1>j, <1>s

\* What remains in progress when a request has been settled.
LEMMA RestFields ==
  ASSUME IInv, NEW r \in wire,
         NEW rest, rest = wire \ {r} \/ rest = (wire \ {r}) \cup {GivenUp(r)}
  PROVE  /\ rest \in SUBSET Request
         /\ \A q \in rest : q.version <= latest
         /\ \A q \in rest : q.awaited => q \in wire \ {r}
<1>1. GivenUp(r) \in Request /\ GivenUp(r).version = r.version
      /\ GivenUp(r).awaited = FALSE
  BY GivenUpFields DEF IInv, TypeOK
<1> QED
  BY <1>1 DEF IInv, TypeOK, Numbered

\* What run() does after its await, for the request that has been settled.
LEMMA ContinueStep ==
  ASSUME IInv, NEW failed \in BOOLEAN, NEW r \in wire, QueueSave(r),
         ~failed => r.executed, Live,
         NEW rest, rest = wire \ {r} \/ rest = (wire \ {r}) \cup {GivenUp(r)},
         Continue(failed, rest),
         UNCHANGED <<timer, shown, page, loading, stored>>
  PROVE  IInv'
<1> USE DEF IInv, TypeOK, SaveStatus, Live, told, shown, loading, Quiet
<1>0. /\ rest \in SUBSET Request
      /\ \A q \in rest : q.version <= latest
      /\ \A q \in rest : q.awaited => q \in wire \ {r}
  BY RestFields
<1>1. \A q \in rest : ~QueueSave(q)
  BY <1>0 DEF SingleFlight, QueueSave
<1>i. inFlight
  BY DEF SingleFlight
<1>f. CASE rerun
  <2>1. /\ rerun' = FALSE /\ rerunKeepalive' = FALSE
        /\ Send(rerunKeepalive, rest) /\ UNCHANGED <<inFlight, told>>
    BY <1>f DEF Continue
  <2>2. PICK new \in Request :
          /\ wire' = rest \cup {new} /\ sent' \in Nat
          /\ new.version = current /\ new.from = "queue"
          /\ new.awaited = TRUE /\ new.executed = FALSE
    BY <2>1, SendFields, ZenonT(30)
  <2>3. TypeOK'
    BY <1>0, <2>1, <2>2
  <2>4. SingleFlight'
    BY <1>1, <1>i, <2>1, <2>2 DEF SingleFlight, QueueSave
  <2>5. QuietMeansIdle' /\ FlagsOK'
    BY <1>f, <1>i, <2>1 DEF QuietMeansIdle, FlagsOK
  <2>6. Numbered'
    BY <1>0, <1>1, <2>1, <2>2 DEF Numbered, QueueSave
  <2>7. RowBehind'
    BY <1>1, <1>f, <2>1, <2>2 DEF RowBehind, QueueSave
  <2>8. LatestOnItsWay' /\ ExecutedIsStored'
    BY <1>1, <2>1, <2>2 DEF LatestOnItsWay, ExecutedIsStored, QueueSave
  <2>9. IdleSettled'
    BY <1>i, <2>1 DEF IdleSettled
  <2> QED
    BY <2>3, <2>4, <2>5, <2>6, <2>7, <2>8, <2>9
<1>e. CASE ~rerun
  <2>1. /\ inFlight' = FALSE /\ wire' = rest
        /\ UNCHANGED <<rerun, rerunKeepalive, sent>>
    BY <1>e DEF Continue
  <2>2. \/ timer /\ UNCHANGED told
        \/ ~timer /\ alarm' = FALSE /\ saveState' = IF failed THEN "error" ELSE "saved"
    BY <1>e DEF Continue
  <2>3. TypeOK'
    BY <1>0, <2>1, <2>2
  <2>4. SingleFlight'
    BY <1>1, <2>1 DEF SingleFlight, QueueSave
  <2>5. QuietMeansIdle' /\ FlagsOK'
    BY <1>e, <2>1, <2>2 DEF QuietMeansIdle, FlagsOK
  <2>6. Numbered'
    BY <1>0, <1>1, <2>1 DEF Numbered, QueueSave
  <2>7. RowBehind'
    BY <1>1, <1>i, <2>1 DEF RowBehind, QueueSave
  <2>8. LatestOnItsWay' /\ ExecutedIsStored'
    BY <1>1, <2>1 DEF LatestOnItsWay, ExecutedIsStored, QueueSave
  <2>9. IdleSettled'
    <3>1. SUFFICES ASSUME ~displaced, ~timer, ~failed
                   PROVE  stored.version = current \/ stored.stray
      BY <2>1, <2>2 DEF IdleSettled
    <3>2. r.executed /\ r.version = current
      BY <1>e, <3>1 DEF LatestOnItsWay
    <3> QED
      BY <3>2 DEF ExecutedIsStored
  <2> QED
    BY <2>3, <2>4, <2>5, <2>6, <2>7, <2>8, <2>9
<1> QED
  BY <1>f, <1>e

\* The end of hydrate(), whose seed has been settled.
LEMMA SeedStep ==
  ASSUME IInv, NEW failed \in BOOLEAN, NEW r \in wire, r.awaited, r.from = "hydrate",
         ~failed => r.executed, Live,
         NEW rest, rest = wire \ {r} \/ rest = (wire \ {r}) \cup {GivenUp(r)},
         SeedSettled(failed, rest),
         UNCHANGED <<timer, shown, page, loading, stored>>
  PROVE  IInv'
<1> USE DEF IInv, TypeOK, SaveStatus, Live, told, shown, loading, Quiet, SeedSettled
<1>0. /\ rest \in SUBSET Request
      /\ \A q \in rest : q.version <= latest
      /\ \A q \in rest : q.awaited => q \in wire \ {r}
      /\ wire \ {r} \subseteq rest
  BY RestFields
<1>1. \A q : q \in rest /\ QueueSave(q) <=> q \in wire /\ QueueSave(q)
  BY <1>0 DEF QueueSave
<1>2. wire' = rest /\ UNCHANGED <<timer, inFlight, rerun, rerunKeepalive, sent>>
  OBVIOUS
<1>3. \/ failed /\ saveState' = "error" /\ alarm' = TRUE
      \/ ~failed /\ UNCHANGED told
  OBVIOUS
<1>4. TypeOK'
  BY <1>0, <1>2, <1>3
<1>5. SingleFlight'
  BY <1>1, <1>2 DEF SingleFlight, QueueSave
<1>6. QuietMeansIdle' /\ FlagsOK'
  BY <1>2, <1>3 DEF QuietMeansIdle, FlagsOK
<1>7. Numbered'
  BY <1>0, <1>1, <1>2 DEF Numbered, QueueSave
<1>8. RowBehind' /\ LatestOnItsWay' /\ ExecutedIsStored'
  BY <1>1, <1>2 DEF RowBehind, LatestOnItsWay, ExecutedIsStored, QueueSave
<1>9. IdleSettled'
  <2>1. CASE failed
    BY <1>3, <2>1 DEF IdleSettled
  <2>2. CASE ~failed
    BY <1>0, <1>2, <1>3, <2>2 DEF IdleSettled
  <2> QED
    BY <2>1, <2>2
<1> QED
  BY <1>4, <1>5, <1>6, <1>7, <1>8, <1>9

LEMMA SettledStep ==
  ASSUME IInv, NEW r \in wire, Answered(r) \/ Failed(r)
  PROVE  IInv'
<1>1. r.awaited /\ Live /\ UNCHANGED <<timer, shown, page, loading, stored>>
  BY DEF Answered, Failed, Live
<1>2. PICK failed \in BOOLEAN, rest \in {wire \ {r}, (wire \ {r}) \cup {GivenUp(r)}} :
        Settled(r, failed, rest) /\ (~failed => r.executed)
  BY DEF Answered, Failed
<1>3. CASE r.from = "queue" /\ Continue(failed, rest)
  BY <1>1, <1>2, <1>3, ContinueStep DEF QueueSave
<1>4. CASE r.from = "hydrate" /\ SeedSettled(failed, rest)
  BY <1>1, <1>2, <1>4, SeedStep
<1> QED
  BY <1>2, <1>3, <1>4 DEF Settled

\* The page installs a document.
LEMMA LoadStep ==
  ASSUME IInv, NEW l \in loads, LoadArrives(l) \/ LoadFails(l)
  PROVE  IInv'
<1> USE DEF IInv, TypeOK, SaveStatus, Live, told, queueVars, Quiet
<1>0. l \in Load /\ l.version \in Nat
  BY DEF Load
<1>1. /\ page = "open" /\ loads' = loads \ {l}
      /\ UNCHANGED <<queueVars, told, page, hydrations, stored>>
  BY DEF LoadArrives, LoadFails
<1>a. CASE Quiet /\ LoadArrives(l) /\ displaced' = FALSE
  <2>1. UNCHANGED <<latest, sent, wire>> /\ current' = stored.version
    BY <1>a DEF LoadArrives, NewVersion
  <2>2. \A r \in wire : ~QueueSave(r)
    BY <1>1, <1>a DEF SingleFlight
  <2>3. TypeOK' /\ SingleFlight' /\ QuietMeansIdle' /\ FlagsOK'
    BY <1>1, <1>a, <2>1 DEF SingleFlight, QuietMeansIdle, FlagsOK, QueueSave
  <2>4. Numbered'
    BY <1>1, <2>1, <2>2 DEF Numbered, QueueSave
  <2>5. RowBehind' /\ LatestOnItsWay'
    BY <1>1, <2>1, <2>2 DEF RowBehind, LatestOnItsWay, QueueSave
  <2>6. ExecutedIsStored' /\ IdleSettled'
    BY <1>1, <2>1, <2>2 DEF ExecutedIsStored, IdleSettled, QueueSave
  <2> QED
    BY <2>3, <2>4, <2>5, <2>6
<1>b. CASE LoadArrives(l) /\ displaced' = TRUE
  <2>1. UNCHANGED <<sent, wire>> /\ latest' = latest + 1 /\ current' = latest + 1
    BY <1>b DEF LoadArrives, NewVersion
  <2>3. TypeOK' /\ SingleFlight' /\ QuietMeansIdle' /\ FlagsOK'
    BY <1>1, <1>b, <2>1 DEF SingleFlight, QuietMeansIdle, FlagsOK, QueueSave
  <2>4. Numbered'
    <3>1. \A r \in wire : r.version \in Nat
      BY RequestFields
    <3>2. \A k \in loads : k.version \in Nat
      BY DEF Load
    <3> QED
      BY <1>1, <2>1, <3>1, <3>2 DEF Numbered, QueueSave
  <2>5. RowBehind' /\ LatestOnItsWay'
    BY <1>1, <1>b, <2>1 DEF RowBehind, LatestOnItsWay, QueueSave, Numbered
  <2>6. ExecutedIsStored' /\ IdleSettled'
    BY <1>1, <1>b, <2>1 DEF ExecutedIsStored, IdleSettled, QueueSave
  <2> QED
    BY <2>3, <2>4, <2>5, <2>6
<1>c. CASE LoadFails(l)
  <2>1. latest' = latest + 1 /\ current' = latest + 1 /\ displaced' = ~Quiet
    BY <1>c DEF LoadFails, NewVersion
  <2>2. PICK late \in SUBSET {LateSeed(sent + 1, latest + 1)} :
          wire' = wire \cup {NewRequest(latest + 1, "hydrate", FALSE, FALSE)} \cup late
    BY <1>c DEF LoadFails
  <2> DEFINE seed == NewRequest(latest + 1, "hydrate", FALSE, FALSE)
  <2>3. sent' \in Nat /\ latest + 1 \in Nat /\ sent + 1 \in Nat
    BY <1>c DEF LoadFails
  <2>4. /\ seed \in Request /\ seed.version = latest + 1 /\ seed.from = "hydrate"
        /\ seed.awaited = TRUE /\ seed.executed = FALSE
    BY <2>3, SMTT(30) DEF NewRequest, Request
  <2>5. \A r \in late : r \in Request /\ r.version = latest + 1 /\ r.awaited = FALSE
    <3>1. \A r \in late : r = LateSeed(sent + 1, latest + 1)
      OBVIOUS
    <3>2. /\ LateSeed(sent + 1, latest + 1) \in Request
          /\ LateSeed(sent + 1, latest + 1).version = latest + 1
          /\ LateSeed(sent + 1, latest + 1).awaited = FALSE
      BY <2>3, LateSeedFields
    <3> QED
      BY <3>1, <3>2
  <2>6. wire' = wire \cup {seed} \cup late
    BY <2>2
  <2> HIDE DEF seed
  <2>7. \A r : r \in wire' /\ QueueSave(r) <=> r \in wire /\ QueueSave(r)
    BY <2>4, <2>5, <2>6 DEF QueueSave
  <2>8. wire' \in SUBSET Request
    BY <2>4, <2>5, <2>6
  <2>9. TypeOK'
    BY <1>1, <2>1, <2>3, <2>8
  <2>10. SingleFlight'
    BY <1>1, <2>7 DEF SingleFlight, QueueSave
  <2>11. QuietMeansIdle' /\ FlagsOK'
    BY <1>1 DEF QuietMeansIdle, FlagsOK
  <2>12. Numbered'
    <3>1. \A r \in wire : r.version \in Nat
      BY RequestFields
    <3>2. \A k \in loads : k.version \in Nat
      BY DEF Load
    <3>3. /\ current' <= latest' /\ stored'.version <= latest'
          /\ \A k \in loads' : k.version <= latest'
      BY <1>1, <2>1, <3>2 DEF Numbered
    <3>4. \A r \in wire' : r.version <= latest'
      BY <2>1, <2>3, <2>4, <2>5, <2>6, <3>1 DEF Numbered
    <3>5. \A r \in wire' : QueueSave(r) => r.version <= current'
      BY <2>1, <2>7, <3>4
    <3> QED
      BY <3>3, <3>4, <3>5 DEF Numbered, QueueSave
  <2>13. RowBehind' /\ LatestOnItsWay' /\ ExecutedIsStored'
    <3>1. RowBehind' /\ ExecutedIsStored'
      BY <1>1, <2>1, <2>7 DEF RowBehind, ExecutedIsStored, QueueSave, Numbered
    <3>2. CASE Quiet
      BY <1>1, <2>7, <3>1, <3>2 DEF LatestOnItsWay, QueueSave, SingleFlight
    <3>3. CASE ~Quiet
      BY <2>1, <3>1, <3>3 DEF LatestOnItsWay
    <3> QED
      BY <3>1, <3>2, <3>3
  <2>14. IdleSettled'
    BY <2>1, <2>4, <2>6 DEF IdleSettled
  <2> QED
    BY <2>9, <2>10, <2>11, <2>12, <2>13, <2>14
<1> QED
  BY <1>a, <1>b, <1>c DEF LoadArrives

\* The GET route reads the row, and stores the seed.
LEMMA RouteStep ==
  ASSUME IInv, NEW l \in loads, RouteReads(l) \/ RouteSeeds(l)
  PROVE  IInv'
<1> USE DEF IInv, TypeOK, SaveStatus, Live, told, queueVars, shown, Quiet
<1>0. l \in Load /\ l.id \in Nat /\ l.version \in Nat
  BY DEF Load
<1>a. CASE RouteReads(l)
  <2>1. UNCHANGED <<queueVars, told, shown, page, sent, wire, hydrations, stored>>
    BY <1>a DEF RouteReads
  <2>2. PICK k \in Load : loads' = (loads \ {l}) \cup {k} /\ k.version <= latest
    <3>1. CASE stored.version = 0
      <4>1. [l EXCEPT !.phase = "empty"] \in Load
            /\ [l EXCEPT !.phase = "empty"].version <= latest
        BY <1>0 DEF Load, Numbered
      <4> QED
        BY <1>a, <3>1, <4>1 DEF RouteReads
    <3>2. CASE stored.version # 0
      <4> DEFINE k == [l EXCEPT !.phase = "answered", !.version = stored.version]
      <4>1. k \in Load /\ k.version = stored.version
        BY <1>0 DEF Load
      <4>2. k.version <= latest
        BY <4>1 DEF Numbered
      <4> QED
        BY <1>a, <3>2, <4>1, <4>2 DEF RouteReads
    <3> QED
      BY <3>1, <3>2
  <2>3. TypeOK'
    BY <2>1, <2>2
  <2>4. SingleFlight' /\ QuietMeansIdle' /\ FlagsOK' /\ LatestOnItsWay'
    BY <2>1 DEF SingleFlight, QuietMeansIdle, FlagsOK, LatestOnItsWay, QueueSave
  <2>5. Numbered'
    BY <2>1, <2>2 DEF Numbered, QueueSave
  <2>6. RowBehind' /\ ExecutedIsStored' /\ IdleSettled'
    BY <2>1 DEF RowBehind, ExecutedIsStored, IdleSettled, QueueSave
  <2> QED
    BY <2>3, <2>4, <2>5, <2>6
<1>b. CASE RouteSeeds(l)
  <2> DEFINE k == [l EXCEPT !.phase = "answered", !.version = latest + 1]
  <2>1. /\ latest' = latest + 1 /\ loads' = (loads \ {l}) \cup {k}
        /\ stored' = [version |-> latest + 1, stray |-> TRUE]
        /\ UNCHANGED <<queueVars, told, current, displaced, page, sent, wire, hydrations>>
    BY <1>b DEF RouteSeeds
  <2>2. k \in Load /\ k.version = latest + 1
    <3>1. latest + 1 \in Nat
      OBVIOUS
    <3> QED
      BY <1>0, <3>1 DEF Load
  <2>3. stored'.version = latest + 1 /\ stored'.stray = TRUE
        /\ stored' \in [version: Nat, stray: BOOLEAN]
    BY <2>1
  <2> HIDE DEF k
  <2>4. TypeOK'
    BY <2>1, <2>2, <2>3
  <2>5. SingleFlight' /\ QuietMeansIdle' /\ FlagsOK' /\ LatestOnItsWay'
    BY <2>1 DEF SingleFlight, QuietMeansIdle, FlagsOK, LatestOnItsWay, QueueSave
  <2>6. Numbered'
    <3>1. \A r \in wire : r.version \in Nat
      BY RequestFields
    <3>2. \A j \in loads : j.version \in Nat
      BY DEF Load
    <3> QED
      BY <2>1, <2>2, <2>3, <3>1, <3>2 DEF Numbered, QueueSave
  <2>7. RowBehind' /\ ExecutedIsStored' /\ IdleSettled'
    BY <2>1, <2>3 DEF RowBehind, ExecutedIsStored, IdleSettled, QueueSave
  <2> QED
    BY <2>4, <2>5, <2>6, <2>7
<1> QED
  BY <1>a, <1>b

\* The page is dropped with what it waits for.
LEMMA DroppedStep ==
  ASSUME IInv, PageDropped
  PROVE  IInv'
<1> USE DEF IInv, TypeOK, SaveStatus, Live, told, queueVars
<1>1. /\ page' = "closed" /\ loads' = {}
      /\ UNCHANGED <<queueVars, told, current, displaced, sent, hydrations, stored>>
  BY DEF PageDropped
<1>2. PICK cancelled \in SUBSET {r \in wire : r.awaited /\ ~r.keepalive},
           seeding \in SUBSET {l \in loads : l.phase = "empty"} :
        /\ latest' = IF seeding = {} THEN latest ELSE latest + 1
        /\ wire' = {GivenUp(r) : r \in {q \in wire \ cancelled :
                                           ~q.executed /\ ~q.refused}}
                   \cup {LateSeed(sent + l.id, latest + 1) : l \in seeding}
  BY DEF PageDropped
<1>3. latest' \in Nat /\ latest <= latest'
      /\ (seeding # {} => latest' = latest + 1)
  BY <1>2
<1>4. \A r \in wire' : r \in Request /\ ~r.awaited /\ r.version <= latest'
  <2> TAKE r \in wire'
  <2>1. CASE \E q \in wire : r = GivenUp(q)
    <3>1. PICK q \in wire : r = GivenUp(q)
      BY <2>1
    <3>2. q \in Request /\ q.version \in Nat /\ q.version <= latest
      BY RequestFields DEF Numbered
    <3>3. r \in Request /\ r.version = q.version /\ r.awaited = FALSE
      BY <3>1, <3>2, GivenUpFields
    <3> QED
      BY <1>3, <3>2, <3>3
  <2>2. CASE \E l \in seeding : r = LateSeed(sent + l.id, latest + 1)
    <3>1. PICK l \in seeding : r = LateSeed(sent + l.id, latest + 1)
      BY <2>2
    <3>2. l \in Load /\ seeding # {}
      OBVIOUS
    <3>3. sent + l.id \in Nat /\ latest + 1 \in Nat
      BY <3>2 DEF Load
    <3>4. r \in Request /\ r.version = latest + 1 /\ r.awaited = FALSE
      BY <3>1, <3>3, LateSeedFields
    <3> QED
      BY <1>3, <3>2, <3>4
  <2> QED
    BY <1>2, <2>1, <2>2
<1>5. TypeOK'
  BY <1>1, <1>3, <1>4
<1>6. SingleFlight' /\ QuietMeansIdle' /\ LatestOnItsWay' /\ FlagsOK'
  BY <1>1, <1>4 DEF SingleFlight, QuietMeansIdle, LatestOnItsWay, FlagsOK, Quiet
<1>7. Numbered'
  BY <1>1, <1>3, <1>4 DEF Numbered, QueueSave
<1>8. RowBehind' /\ ExecutedIsStored' /\ IdleSettled'
  BY <1>1, <1>4 DEF RowBehind, ExecutedIsStored, IdleSettled, QueueSave
<1> QED
  BY <1>5, <1>6, <1>7, <1>8

\* The content service commits an upsert.
LEMMA ExecutesStep ==
  ASSUME IInv, NEW r \in wire, Executes(r)
  PROVE  IInv'
<1> USE DEF IInv, TypeOK, SaveStatus, Live, told, queueVars, shown, loading
<1> DEFINE new == Committed(r)
<1>0. /\ new \in Request /\ new.version = r.version /\ new.from = r.from
      /\ new.awaited = r.awaited /\ new.executed = TRUE
  BY CommittedFields
<1>1. r.version \in Nat /\ r.awaited \in BOOLEAN /\ r.version <= latest
  BY RequestFields DEF Numbered
<1>2. /\ wire' = (wire \ {r}) \cup (IF r.awaited THEN {new} ELSE {})
      /\ UNCHANGED <<queueVars, told, shown, page, sent, loading>>
      /\ ~r.executed
  BY DEF Executes
<1>3. /\ stored' \in [version: Nat, stray: BOOLEAN]
      /\ stored'.version = r.version /\ stored'.stray = ~QueueSave(r)
  BY <1>1 DEF Executes, QueueSave
<1> HIDE DEF new
<1>4. TypeOK'
  BY <1>0, <1>2, <1>3
<1>5. SingleFlight' /\ QuietMeansIdle' /\ FlagsOK'
  BY <1>0, <1>2 DEF SingleFlight, QuietMeansIdle, FlagsOK, Quiet, QueueSave
<1>6. Numbered'
  BY <1>0, <1>1, <1>2, <1>3 DEF Numbered, QueueSave
<1>7. LatestOnItsWay'
  BY <1>0, <1>2 DEF LatestOnItsWay, QueueSave
<1>a. CASE QueueSave(r)
  <2>1. Live /\ inFlight /\ r.awaited /\ ~stored'.stray
    BY <1>3, <1>a DEF FlagsOK, SingleFlight, QueueSave
  <2>2. \A q \in wire' : QueueSave(q) => q = new
    BY <1>0, <1>2, <1>a, <2>1 DEF SingleFlight, QueueSave
  <2>3. RowBehind'
    BY <1>0, <1>1, <1>2, <1>3, <1>a, <2>2 DEF RowBehind, Numbered, QueueSave
  <2>4. ExecutedIsStored' /\ IdleSettled'
    BY <1>0, <1>2, <1>3, <2>1, <2>2 DEF ExecutedIsStored, IdleSettled, Quiet, QueueSave
  <2> QED
    BY <1>4, <1>5, <1>6, <1>7, <2>3, <2>4
<1>b. CASE ~QueueSave(r)
  <2>1. RowBehind' /\ ExecutedIsStored' /\ IdleSettled'
    BY <1>3, <1>b DEF RowBehind, ExecutedIsStored, IdleSettled
  <2> QED
    BY <1>4, <1>5, <1>6, <1>7, <2>1
<1> QED
  BY <1>a, <1>b

LEMMA StepInv == IInv /\ [Next]_vars => IInv'
<1> SUFFICES ASSUME IInv, [Next]_vars PROVE IInv'
  OBVIOUS
<1> USE DEF IInv
<1>1. CASE Edit
  <2> USE <1>1 DEF Edit, NewVersion, TypeOK, SaveStatus, Live, loading, Quiet
  <2>0. timer' /\ latest' = latest + 1 /\ current' = latest + 1
    OBVIOUS
  <2>t. TypeOK'
    <3>1. current' \in Nat /\ latest' \in Nat /\ saveState' \in SaveStatus
      BY <2>0
    <3>2. timer' = TRUE /\ displaced' = FALSE /\ alarm' = FALSE
      OBVIOUS
    <3> QED
      BY <3>1, <3>2
  <2>1. SingleFlight' /\ QuietMeansIdle'
    BY DEF SingleFlight, QuietMeansIdle, QueueSave
  <2>2. Numbered'
    <3>1. \A r \in wire : r.version \in Nat
      BY RequestFields
    <3>2. \A l \in loads : l.version \in Nat
      BY DEF Load
    <3> QED
      BY <2>0, <3>1, <3>2 DEF Numbered, QueueSave
  <2>3. RowBehind' /\ LatestOnItsWay'
    BY <2>0 DEF RowBehind, LatestOnItsWay, QueueSave, Numbered
  <2>4. ExecutedIsStored' /\ FlagsOK' /\ IdleSettled'
    BY DEF ExecutedIsStored, FlagsOK, IdleSettled, QueueSave
  <2> QED
    BY <2>t, <2>1, <2>2, <2>3, <2>4
<1>2. CASE TimerFires
  BY <1>2, SendStep DEF TimerFires, Live
<1>3. ASSUME NEW ka \in BOOLEAN, Flush(ka), page = "open",
             page' \in {"open", "hidden"}, UNCHANGED <<told, shown, loading, stored>>
      PROVE  IInv'
  <2>1. CASE timer
    BY <1>3, <2>1, SendStep DEF Flush, Live
  <2>2. CASE ~timer
    BY <1>3, <2>2 DEF Flush, TypeOK, SaveStatus, Live, SingleFlight, QuietMeansIdle,
       Numbered, RowBehind, LatestOnItsWay, ExecutedIsStored, FlagsOK, IdleSettled,
       told, shown, loading, Quiet, QueueSave
  <2> QED
    BY <2>1, <2>2
<1>4. CASE TabHidden
  BY <1>3, <1>4 DEF TabHidden
<1>5. CASE PageHide
  BY <1>3, <1>5 DEF PageHide
<1>6. CASE PageShow
  BY <1>6 DEF PageShow, TypeOK, SaveStatus, Live, SingleFlight, QuietMeansIdle,
     Numbered, RowBehind, LatestOnItsWay, ExecutedIsStored, FlagsOK, IdleSettled,
     told, shown, loading, queueVars, Quiet, QueueSave
<1>7. CASE PageDropped
  BY <1>7, DroppedStep
<1>8. CASE Hydrate
  <2> DEFINE l == [id |-> hydrations, phase |-> "asked", version |-> 0]
  <2>1. loads' = loads \cup {l} /\ hydrations' = hydrations + 1
        /\ UNCHANGED <<queueVars, told, shown, page, sent, wire, stored>>
    BY <1>8 DEF Hydrate
  <2>2. l \in Load /\ l.version <= latest
    BY DEF Load, TypeOK
  <2> HIDE DEF l
  <2> USE <2>1, <2>2 DEF queueVars, told, shown
  <2>3. TypeOK'
    BY DEF TypeOK, SaveStatus
  <2>4. SingleFlight' /\ QuietMeansIdle' /\ FlagsOK' /\ LatestOnItsWay'
    BY DEF SingleFlight, QuietMeansIdle, FlagsOK, LatestOnItsWay, QueueSave, Live, Quiet
  <2>5. Numbered' /\ RowBehind' /\ ExecutedIsStored' /\ IdleSettled'
    BY DEF Numbered, RowBehind, ExecutedIsStored, IdleSettled, QueueSave, Live, Quiet
  <2> QED
    BY <2>3, <2>4, <2>5
<1>9. ASSUME NEW l \in loads, RouteReads(l) \/ RouteSeeds(l)
      PROVE  IInv'
  BY <1>9, RouteStep
<1>10. ASSUME NEW l \in loads, LoadArrives(l) \/ LoadFails(l)
       PROVE  IInv'
  BY <1>10, LoadStep
<1>11. ASSUME NEW r \in wire, Answered(r) \/ Failed(r)
       PROVE  IInv'
  BY <1>11, SettledStep
<1>12. ASSUME NEW r \in wire, Executes(r)
       PROVE  IInv'
  BY <1>12, ExecutesStep
<1>13. ASSUME NEW r \in wire, Forgotten(r)
       PROVE  IInv'
  BY <1>13 DEF Forgotten, TypeOK, SaveStatus, Live, SingleFlight, QuietMeansIdle,
     Numbered, RowBehind, LatestOnItsWay, ExecutedIsStored, FlagsOK, IdleSettled,
     told, shown, loading, queueVars, Quiet, QueueSave
<1>14. CASE UNCHANGED vars
  BY <1>14 DEF vars, TypeOK, SaveStatus, Live, SingleFlight, QuietMeansIdle,
     Numbered, RowBehind, LatestOnItsWay, ExecutedIsStored, FlagsOK, IdleSettled,
     told, shown, loading, queueVars, Quiet, QueueSave
<1> QED
  BY <1>1, <1>2, <1>4, <1>5, <1>6, <1>7, <1>8, <1>9, <1>10, <1>11, <1>12, <1>13, <1>14
  DEF Next, Settles

-----------------------------------------------------------------------------

\* The inductive invariant holds in every reachable state.
THEOREM Invariance == Spec => []IInv
<1>1. Init => IInv
  BY InitInv
<1>2. IInv /\ [Next]_vars => IInv'
  BY StepInv
<1> QED
  BY <1>1, <1>2, PTL DEF Spec

\* Every variable of the queue, the loads, the wire and the row keeps its type,
\* however many versions, requests and late writes there are.
THEOREM TypeCorrect == Spec => []TypeOK
<1>1. IInv => TypeOK
  BY DEF IInv
<1> QED
  BY <1>1, Invariance, PTL

\* The queue never waits for two saves: the guard of run() is enough.
THEOREM OneSaveAtATime == Spec => []SingleFlight
<1>1. IInv => SingleFlight
  BY DEF IInv
<1> QED
  BY <1>1, Invariance, PTL

\* The version on the screen is pending, on its way, stored, or its failure
\* is shown, unless hydrate() has displaced another one with it.
THEOREM NoEditForgotten == Spec => []LastEditAccountedFor
<1>1. IInv => LastEditAccountedFor
  <2> SUFFICES ASSUME IInv, Live, ~displaced, ~timer, ~rerun
               PROVE  \/ OnItsWay \/ stored.version = current \/ stored.stray
                      \/ saveState = "error"
    BY DEF LastEditAccountedFor, Live
  <2>1. CASE inFlight
    BY <2>1 DEF IInv, SingleFlight, LatestOnItsWay, OnItsWay, QueueSave, Live
  <2>2. CASE ~inFlight
    BY <2>2 DEF IInv, IdleSettled, OnItsWay, Quiet
  <2> QED
    BY <2>1, <2>2
<1> QED
  BY <1>1, Invariance, PTL

\* Under "saved" the queue is idle, whoever else sets the indicator.
LEMMA SavedIsQuiet == IInv /\ saveState = "saved" => Quiet
BY DEF IInv, QuietMeansIdle, FlagsOK

\* The indicator says "saved" only when nothing is pending and the row holds the
\* version on the screen or is about to, was written past the queue, or hydrate()
\* has displaced what was saved.
THEOREM SavedIsTrue == Spec => []SavedMeansStored
<1>1. IInv => SavedMeansStored
  BY SavedIsQuiet DEF IInv, IdleSettled, SavedMeansStored, OnItsWay, Live
<1> QED
  BY <1>1, Invariance, PTL

\* No pending or running save hides behind a quiet indicator, unless it shows the
\* alarm of hydrate().
THEOREM QuietIsIdle == Spec => []QuietMeansIdle
<1>1. IInv => QuietMeansIdle
  BY DEF IInv
<1> QED
  BY <1>1, Invariance, PTL

\* The two ways in which the row changes.
LEMMA StoredMoves ==
  ASSUME IInv, [Next]_vars, stored' # stored
  PROVE  \/ /\ \E r \in wire : Executes(r)
            /\ UNCHANGED <<current, latest, displaced, saveState>>
         \/ /\ stored' = [version |-> latest + 1, stray |-> TRUE]
            /\ latest' = latest + 1
            /\ UNCHANGED <<current, displaced, saveState>>
<1>1. (\E r \in wire : Executes(r)) \/ (\E l \in loads : RouteSeeds(l))
  BY DEF Next, Settles, Edit, TimerFires, TabHidden, PageHide, PageShow, PageDropped,
     Hydrate, RouteReads, LoadArrives, LoadFails, Answered, Failed, Forgotten, vars
<1>2. CASE \E r \in wire : Executes(r)
  BY <1>2 DEF Executes, told, shown
<1>3. CASE \E l \in loads : RouteSeeds(l)
  BY <1>3 DEF RouteSeeds, told
<1> QED
  BY <1>1, <1>2, <1>3

\* An upsert that is executed in order does not move the row back.
LEMMA ExecutedFields ==
  ASSUME IInv, NEW r \in wire, Executes(r)
  PROVE  /\ stored' = [version |-> r.version, stray |-> ~QueueSave(r)]
         /\ r.version \in 0..latest
         /\ QueueSave(r) /\ ~stored.stray => r.version >= stored.version
<1>1. r.version \in Nat /\ latest \in Nat /\ stored.version \in Nat
  BY RequestFields DEF IInv, TypeOK
<1> QED
  BY <1>1 DEF IInv, RowBehind, Numbered, Executes

\* Writes that the queue awaits land in order: the claim of single flight, with
\* the exceptions that the route's timeout and hydrate() make.
THEOREM AwaitedInOrder == Spec => AwaitedWritesLandInOrder
<1>1. IInv /\ [Next]_vars =>
        [~stored.stray /\ ~stored'.stray => stored'.version >= stored.version]_stored
  <2> SUFFICES ASSUME IInv, [Next]_vars, stored' # stored,
                      ~stored.stray, ~stored'.stray
               PROVE  stored'.version >= stored.version
    OBVIOUS
  <2>1. PICK r \in wire : Executes(r)
    BY StoredMoves
  <2>2. stored' = [version |-> r.version, stray |-> ~QueueSave(r)]
        /\ (QueueSave(r) => r.version >= stored.version)
    BY <2>1, ExecutedFields
  <2> QED
    BY <2>2
<1> QED
  BY <1>1, Invariance, PTL DEF AwaitedWritesLandInOrder, Spec

-----------------------------------------------------------------------------
(* The page that is dropped.                                               *)

\* "Saving" is said for a reason, and a page that is not open has no timer: its
\* pagehide has flushed it.
BusyForAReason ==
  /\ Live /\ saveState = "saving" => timer \/ inFlight
  /\ page # "open" => ~timer

LEMMA BusyStep == IInv /\ BusyForAReason /\ [Next]_vars => BusyForAReason'
<1> SUFFICES ASSUME IInv, BusyForAReason, [Next]_vars PROVE BusyForAReason'
  OBVIOUS
<1> USE DEF BusyForAReason, Live, told, queueVars
<1>1. timer \in BOOLEAN /\ inFlight \in BOOLEAN /\ rerun \in BOOLEAN /\ (rerun => inFlight)
  BY DEF IInv, TypeOK, FlagsOK
<1>2. CASE Edit
  BY <1>2 DEF Edit
<1>3. CASE TimerFires \/ TabHidden \/ PageHide
  <2>1. ASSUME NEW ka, Run(ka)
        PROVE  inFlight'
    BY <2>1 DEF Run
  <2>2. ASSUME NEW ka, Flush(ka)
        PROVE  ~timer' /\ (timer \/ inFlight => inFlight')
    BY <1>1, <2>1, <2>2 DEF Flush
  <2>3. CASE TimerFires
    BY <2>1, <2>3 DEF TimerFires
  <2>4. CASE TabHidden
    BY <2>2, <2>4 DEF TabHidden
  <2>5. CASE PageHide
    BY <2>2, <2>5 DEF PageHide
  <2> QED
    BY <1>3, <2>3, <2>4, <2>5
<1>4. CASE PageShow \/ PageDropped \/ Hydrate
  BY <1>4 DEF PageShow, PageDropped, Hydrate
<1>5. ASSUME NEW l \in loads,
             RouteReads(l) \/ RouteSeeds(l) \/ LoadArrives(l) \/ LoadFails(l)
      PROVE  BusyForAReason'
  <2>1. UNCHANGED <<queueVars, told, page>>
    BY <1>5 DEF RouteReads, RouteSeeds, LoadArrives, LoadFails
  <2> QED
    BY <2>1
<1>6. ASSUME NEW r \in wire, NEW failed, NEW rest, Settled(r, failed, rest),
             UNCHANGED <<timer, page>>
      PROVE  BusyForAReason'
  <2>1. CASE Continue(failed, rest) /\ rerun
    BY <1>1, <1>6, <2>1 DEF Continue
  <2>2. CASE Continue(failed, rest) /\ ~rerun
    BY <1>1, <1>6, <2>2 DEF Continue
  <2>3. CASE SeedSettled(failed, rest)
    BY <1>6, <2>3 DEF SeedSettled
  <2> QED
    BY <1>6, <2>1, <2>2, <2>3 DEF Settled
<1>7. ASSUME NEW r \in wire, Answered(r) \/ Failed(r)
      PROVE  BusyForAReason'
  BY <1>6, <1>7 DEF Answered, Failed
<1>8. ASSUME NEW r \in wire, Executes(r) \/ Forgotten(r)
      PROVE  BusyForAReason'
  BY <1>8 DEF Executes, Forgotten
<1>9. CASE UNCHANGED vars
  BY <1>9 DEF vars
<1> QED
  BY <1>2, <1>3, <1>4, <1>5, <1>7, <1>8, <1>9 DEF Next, Settles

\* What the page leaves behind when it is dropped: the keepalive request that
\* carries the last version, or the row it has written already.
LEMMA DroppedPageLeavesItsEdit ==
  ASSUME IInv, BusyForAReason, [Next]_vars,
         page = "hidden", page' = "closed", saveState = "saving", ~rerun, ~displaced,
         \A r \in wire : r.awaited => r.keepalive /\ ~r.refused
  PROVE  \/ \E r \in wire' : r.version = current
         \/ stored.version = current \/ stored.stray
<1>1. PageDropped
  BY DEF Next, Settles, Edit, TimerFires, TabHidden, PageHide, PageShow, Hydrate,
         RouteReads, RouteSeeds, LoadArrives, LoadFails, Answered,
         Failed, Executes, Forgotten, vars
<1>2. ~timer /\ inFlight
  BY DEF BusyForAReason, Live
<1>3. PICK r \in wire : QueueSave(r)
  BY <1>2 DEF IInv, SingleFlight
<1>4. r.version = current /\ r \in Request /\ r.awaited
  BY <1>2, <1>3 DEF IInv, LatestOnItsWay, Live, TypeOK, QueueSave
<1>5. CASE r.executed
  BY <1>3, <1>4, <1>5 DEF IInv, ExecutedIsStored
<1>6. CASE ~r.executed
  <2>1. PICK cancelled \in SUBSET {q \in wire : q.awaited /\ ~q.keepalive},
             seeding \in SUBSET {l \in loads : l.phase = "empty"} :
          wire' = {GivenUp(q) : q \in {p \in wire \ cancelled :
                                          ~p.executed /\ ~p.refused}}
                  \cup {LateSeed(sent + l.id, latest + 1) : l \in seeding}
    BY <1>1 DEF PageDropped
  <2>2. r \in wire \ cancelled /\ ~r.refused
    BY <1>4, <2>1
  <2>3. GivenUp(r) \in wire'
    BY <1>6, <2>1, <2>2
  <2> QED
    BY <1>4, <2>3, GivenUpFields
<1> QED
  BY <1>5, <1>6

\* A tab closed within the debounce window loses nothing, if no ordinary save is
\* under way and the browser accepts the document as a keepalive body: what
\* pagehide flushed is then a request with the last version, and neither the
\* browser nor the dropped page can call it back.
THEOREM EditOutlivesThePage == Spec => PendingEditSurvivesPageHide
<1>1. Init => BusyForAReason
  BY DEF Init, BusyForAReason
<1>2. Spec => [](IInv /\ BusyForAReason)
  BY <1>1, BusyStep, Invariance, PTL DEF Spec
<1>3. IInv /\ BusyForAReason /\ [Next]_vars =>
        [/\ page = "hidden" /\ page' = "closed"
         /\ saveState = "saving" /\ ~rerun /\ ~displaced
         /\ \A r \in wire : r.awaited => r.keepalive /\ ~r.refused
         => \/ \E r \in wire' : r.version = current
            \/ stored.version = current \/ stored.stray]_vars
  BY DroppedPageLeavesItsEdit
<1> QED
  BY <1>2, <1>3, PTL DEF Spec, PendingEditSurvivesPageHide

-----------------------------------------------------------------------------
(* The queue and hydrate() implement the abstract autosave.                *)

LEMMA InitRefines == Init => Abstract!AInit
BY DEF Init, Abstract!AInit

\* The end of a save is said as "saved" or "error", or is not said at all.
LEMMA SettledRefines ==
  ASSUME IInv, NEW r \in wire, Answered(r) \/ Failed(r)
  PROVE  Abstract!ANext \/ UNCHANGED Abstract!avars
<1>1. r.awaited /\ Live /\ UNCHANGED <<timer, current, latest, displaced, page, stored>>
  BY DEF Answered, Failed, Live, shown
<1>2. PICK failed \in BOOLEAN, rest \in {wire \ {r}, (wire \ {r}) \cup {GivenUp(r)}} :
        Settled(r, failed, rest) /\ (~failed => r.executed)
  BY DEF Answered, Failed
<1>a. CASE saveState' = saveState
  BY <1>1, <1>a DEF Abstract!avars
<1>b. CASE saveState' = "error"
  BY <1>1, <1>b DEF Abstract!ANext, Abstract!TellError
<1>c. CASE saveState' # saveState /\ saveState' # "error"
  <2>1. r.from = "queue" /\ Continue(failed, rest) /\ ~rerun /\ ~timer /\ ~failed
        /\ saveState' = "saved"
    BY <1>2, <1>c DEF Settled, SeedSettled, Continue, told
  <2>2. QueueSave(r) /\ r.executed /\ inFlight
    BY <1>1, <1>2, <2>1 DEF QueueSave, IInv, SingleFlight, Live
  <2>3. saveState \in {"saving", "error"}
    BY <2>2 DEF IInv, QuietMeansIdle, FlagsOK, Quiet
  <2>4. stored.stray \/ stored.version = current \/ displaced
    BY <1>1, <2>1, <2>2 DEF IInv, LatestOnItsWay, ExecutedIsStored
  <2> QED
    BY <1>1, <2>1, <2>3, <2>4 DEF Abstract!ANext, Abstract!TellSaved
<1> QED
  BY <1>a, <1>b, <1>c

LEMMA StepRefines ==
  ASSUME IInv, [Next]_vars
  PROVE  Abstract!ANext \/ UNCHANGED Abstract!avars
<1> USE DEF told, shown
<1>1. CASE Edit
  BY <1>1 DEF Edit, NewVersion, Abstract!ANext, Abstract!Change
<1>2. CASE TimerFires \/ TabHidden \/ PageHide \/ PageShow \/ Hydrate
  BY <1>2 DEF TimerFires, TabHidden, PageHide, PageShow, Hydrate, Abstract!avars
<1>3. CASE PageDropped
  <2>1. latest' \in {latest, latest + 1} /\ UNCHANGED <<told, current, displaced, stored>>
    BY <1>3 DEF PageDropped
  <2> QED
    BY <2>1 DEF Abstract!ANext, Abstract!Number, Abstract!avars
<1>4. ASSUME NEW l \in loads, RouteReads(l)
      PROVE  UNCHANGED Abstract!avars
  BY <1>4 DEF RouteReads, Abstract!avars
<1>5. ASSUME NEW l \in loads, LoadArrives(l)
      PROVE  Abstract!ANext
  <2>1. UNCHANGED <<saveState, stored>>
    BY <1>5 DEF LoadArrives
  <2>2. CASE Quiet /\ l.version = stored.version
    BY <1>5, <2>1, <2>2 DEF LoadArrives, Abstract!ANext, Abstract!Fetch
  <2>3. CASE ~(Quiet /\ l.version = stored.version)
    <3>1. latest' = latest + 1 /\ current' = latest' /\ displaced' \in BOOLEAN
      BY <1>5, <2>3 DEF LoadArrives, NewVersion
    <3> QED
      BY <2>1, <3>1 DEF Abstract!ANext, Abstract!Replace
  <2> QED
    BY <2>2, <2>3
<1>6. ASSUME NEW l \in loads, LoadFails(l)
      PROVE  Abstract!ANext
  <2>1. UNCHANGED <<saveState, stored>>
    BY <1>6 DEF LoadFails
  <2>2. latest' = latest + 1 /\ current' = latest' /\ displaced' \in BOOLEAN
    BY <1>6 DEF LoadFails, NewVersion, Quiet, IInv, TypeOK
  <2> QED
    BY <2>1, <2>2 DEF Abstract!ANext, Abstract!Replace
<1>7. CASE stored' # stored
  <2>1. CASE /\ \E r \in wire : Executes(r)
             /\ UNCHANGED <<current, latest, displaced, saveState>>
    <3>1. PICK r \in wire : Executes(r)
      BY <2>1
    <3>2. /\ stored' = [version |-> r.version, stray |-> ~QueueSave(r)]
          /\ r.version \in 0..latest
          /\ QueueSave(r) /\ ~stored.stray => r.version >= stored.version
      BY <3>1, ExecutedFields
    <3>3. CASE QueueSave(r)
      <4>1. stored' = [version |-> r.version, stray |-> FALSE]
        BY <3>2, <3>3
      <4> QED
        BY <2>1, <3>2, <3>3, <4>1 DEF Abstract!ANext, Abstract!Store
    <3>4. CASE ~QueueSave(r)
      <4>1. stored' = [version |-> r.version, stray |-> TRUE]
        BY <3>2, <3>4
      <4> QED
        BY <2>1, <3>2, <4>1 DEF Abstract!ANext, Abstract!StoreStray
    <3> QED
      BY <3>3, <3>4
  <2>2. CASE /\ stored' = [version |-> latest + 1, stray |-> TRUE]
             /\ latest' = latest + 1
             /\ UNCHANGED <<current, displaced, saveState>>
    <3>1. latest' \in 0..latest'
      BY <2>2 DEF IInv, TypeOK
    <3>2. stored' = [version |-> latest', stray |-> TRUE]
      BY <2>2
    <3> QED
      BY <2>2, <3>1, <3>2 DEF Abstract!ANext, Abstract!StoreStray
  <2> QED
    BY <1>7, <2>1, <2>2, StoredMoves
<1>8. ASSUME NEW r \in wire, Answered(r) \/ Failed(r)
      PROVE  Abstract!ANext \/ UNCHANGED Abstract!avars
  BY <1>8, SettledRefines
<1>9. ASSUME NEW r \in wire, Forgotten(r) \/ Executes(r), stored' = stored
      PROVE  UNCHANGED Abstract!avars
  BY <1>9 DEF Forgotten, Executes, Abstract!avars
<1>10. ASSUME NEW l \in loads, RouteSeeds(l)
       PROVE  Abstract!ANext \/ UNCHANGED Abstract!avars
  <2>1. /\ stored' = [version |-> latest + 1, stray |-> TRUE]
        /\ latest' = latest + 1
        /\ UNCHANGED <<current, displaced, saveState>>
    BY <1>10 DEF RouteSeeds
  <2>2. latest' \in 0..latest' /\ stored' = [version |-> latest', stray |-> TRUE]
    BY <2>1 DEF IInv, TypeOK
  <2> QED
    BY <2>1, <2>2 DEF Abstract!ANext, Abstract!StoreStray
<1>11. CASE UNCHANGED vars
  BY <1>11 DEF vars, Abstract!avars
<1> QED
  BY <1>1, <1>2, <1>3, <1>4, <1>5, <1>6, <1>7, <1>8, <1>9, <1>10, <1>11
  DEF Next, Settles

\* Whatever the queue, hydrate(), the page and the server do is something the
\* abstract autosave allows: saved is never claimed falsely, and writes in progress
\* never put an older version back.
THEOREM Refinement == Spec => ImplementsAutosave
<1>1. IInv /\ [Next]_vars => [Abstract!ANext]_(Abstract!avars)
  BY StepRefines
<1> QED
  BY <1>1, InitRefines, Invariance, PTL DEF Spec, ImplementsAutosave, Abstract!ASpec
=============================================================================
