------------------------------ MODULE AiQuota -------------------------------
(***************************************************************************)
(* Card generation: the daily quota, the breaker and the usage log of the  *)
(* ai-service (services/ai-service/src), and the panels of the frontend    *)
(* that ask for cards and report how many were kept (FlashcardsPanel).     *)
(*                                                                         *)
(* A generation is known by its number, and so are its cards.  The cards'  *)
(* text, tokens and latencies are left out; an accepted card goes into the *)
(* document as any other does (module RevisionStore).                      *)
(***************************************************************************)
EXTENDS Naturals, FiniteSets, Sequences

CONSTANTS
  Users, Panels,
  Owner,      \* whose panel it is
  Requests,   \* slots: requests for cards under way
  None,
  Limit,      \* AI_DAILY_QUOTA
  CoolOff,    \* COOL_OFF_MS in ticks
  MaxTime, MaxDay, MaxEvents   \* bounds of the model

ASSUME AiAssumption ==
  /\ Owner \in [Panels -> Users]
  /\ IsFiniteSet(Requests) /\ None \notin Requests
  /\ Limit \in Nat \ {0}
  /\ {CoolOff, MaxTime, MaxDay, MaxEvents} \subseteq Nat

VARIABLES
  quota,      \* ai_quota: [user and day -> used]
  usage,      \* ai_usage, a row's id is its place
  openUntil,  \* the breaker, in the memory of the process
  reqs,
  panels,
  reports,    \* kept counts on their way
  now, day,
  events,     \* generations asked for and crashes so far, for the bound
  ran, lost,  \* history: units of a row that bought a run of the model, or nothing
  heard       \* history: when this process last heard a 429

vars == <<quota, usage, openUntil, reqs, panels, reports, now, day, events, ran, lost, heard>>
service == <<quota, usage, openUntil, ran, lost, heard>>
clock == <<now, day>>

Rows == Users \X (0..MaxDay)
Kinds == {"ok", "rate_limited", "unavailable", "bad_output", "timeout"}
ModelRan == {"ok", "bad_output", "timeout"}
Refundable == {"unavailable", "rate_limited"}

Idle == [pc |-> "idle", gen |-> 0, user |-> None, row |-> None, at |-> 0, kind |-> "ok", id |-> 0]
EmptyPanel == [waiting |-> None, cards |-> 0, usageId |-> 0]

Init ==
  /\ quota = [k \in Rows |-> 0]
  /\ usage = <<>>
  /\ openUntil = 0
  /\ reqs = [r \in Requests |-> Idle]
  /\ panels = [p \in Panels |-> EmptyPanel]
  /\ reports = {}
  /\ now = 0 /\ day = 0 /\ events = 0
  /\ ran = [k \in Rows |-> 0] /\ lost = [k \in Rows |-> 0]
  /\ heard = None

At(r, pc) == reqs[r].pc = pc

-----------------------------------------------------------------------------
(* A panel.  It hears of its request's answer, or gives up: the proxy's    *)
(* AI_TIMEOUT_MS has passed, or the connection failed.                     *)

Busy(p) == panels[p].waiting # None

\* A slot whose answer nobody waits for any more is free again.
Finished(q, r) == IF \E p \in Panels : panels[p].waiting = r THEN [q EXCEPT !.pc = "answered"]
                                                             ELSE Idle

\* generate, up to its first await: the cards go at once, their usageId stays.
Generate(p) ==
  /\ ~Busy(p) /\ events < MaxEvents
  /\ \E r \in Requests :
       /\ At(r, "idle")
       /\ reqs' = [reqs EXCEPT ![r] = [Idle EXCEPT !.pc = "sent", !.gen = events + 1,
                                                   !.user = Owner[p]]]
       /\ panels' = [panels EXCEPT ![p].waiting = r, ![p].cards = 0]
  /\ events' = events + 1
  /\ UNCHANGED <<service, reports, clock>>

ShownKeepingId(panel, q, some) ==
  IF q.id # None /\ some
  THEN [waiting |-> None, cards |-> q.gen, usageId |-> IF q.id = 0 THEN panel.usageId ELSE q.id]
  ELSE [panel EXCEPT !.waiting = None]

\* What the panel shows after the answer q: cards (if there are any), or an error.
Shown(panel, q, some) ==
  IF q.id # None /\ some THEN [waiting |-> None, cards |-> q.gen, usageId |-> q.id]
                         ELSE [panel EXCEPT !.waiting = None]

Hear(p) ==
  /\ Busy(p) /\ At(panels[p].waiting, "answered")
  /\ \E some \in BOOLEAN :
       panels' = [panels EXCEPT ![p] = Shown(@, reqs[panels[p].waiting], some)]
  /\ reqs' = [reqs EXCEPT ![panels[p].waiting] = Idle]
  /\ UNCHANGED <<service, reports, clock, events>>

GiveUp(p) ==
  /\ Busy(p)
  /\ panels' = [panels EXCEPT ![p].waiting = None]
  /\ reqs' = IF At(panels[p].waiting, "answered")
             THEN [reqs EXCEPT ![panels[p].waiting] = Idle] ELSE reqs
  /\ UNCHANGED <<service, reports, clock, events>>

\* discardReview, by Cancel or as the end of saveKept.
Discarded(panel) == [panel EXCEPT !.cards = 0, !.usageId = 0]

Cancel(p) ==
  /\ panels[p].cards # 0
  /\ panels' = [panels EXCEPT ![p] = Discarded(@)]
  /\ UNCHANGED <<service, reqs, reports, clock, events>>

\* saveKept: the report is sent and forgotten.
SaveKept(p) ==
  /\ panels[p].cards # 0
  /\ reports' = IF panels[p].usageId = 0 THEN reports
                ELSE reports \cup {[id |-> panels[p].usageId, user |-> Owner[p],
                                    of |-> panels[p].cards]}
  /\ panels' = [panels EXCEPT ![p] = Discarded(@)]
  /\ UNCHANGED <<service, reqs, clock, events>>

-----------------------------------------------------------------------------
(* POST /flashcards, one step between two awaits.  The id of an answer is  *)
(* that of its usage row, 0 for null, and None when it is an error.        *)

Failed(q, r) == Finished([q EXCEPT !.id = None], r)

\* The request never gets to the service.
Drop(r) ==
  /\ At(r, "sent")
  /\ reqs' = [reqs EXCEPT ![r] = Failed(@, r)]
  /\ UNCHANGED <<service, panels, reports, clock, events>>

isOpen == now < openUntil

Receive(r) ==
  /\ At(r, "sent")
  /\ reqs' = [reqs EXCEPT ![r] =
                IF isOpen THEN Failed(@, r)
                ELSE [@ EXCEPT !.pc = "claiming", !.row = <<reqs[r].user, day>>, !.at = now]]
  /\ UNCHANGED <<service, panels, reports, clock, events>>

Logged(r, outcome) ==
  Append(usage, [user |-> reqs[r].user, gen |-> reqs[r].gen, outcome |-> outcome, kept |-> 0])

\* consumeQuota: one conditional statement.
Claimable(k) == quota[k] < Limit

Claim(r) ==
  /\ At(r, "claiming") /\ Claimable(reqs[r].row)
  /\ quota' = [quota EXCEPT ![reqs[r].row] = @ + 1]
  /\ reqs' = [reqs EXCEPT ![r].pc = "calling"]
  /\ UNCHANGED <<usage, openUntil, ran, lost, heard, panels, reports, clock, events>>

ClaimRefused(r) ==
  /\ At(r, "claiming") /\ ~Claimable(reqs[r].row)
  /\ usage' \in {usage, Logged(r, "quota")}   \* unless the database fails
  /\ reqs' = [reqs EXCEPT ![r] = Failed(@, r)]
  /\ UNCHANGED <<quota, openUntil, ran, lost, heard, panels, reports, clock, events>>

\* The statement fails, or has been executed and its answer is lost.
ClaimFails(r) ==
  /\ At(r, "claiming")
  /\ \/ UNCHANGED <<quota, lost>>
     \/ /\ Claimable(reqs[r].row)
        /\ quota' = [quota EXCEPT ![reqs[r].row] = @ + 1]
        /\ lost' = [lost EXCEPT ![reqs[r].row] = @ + 1]
  /\ reqs' = [reqs EXCEPT ![r] = Failed(@, r)]
  /\ UNCHANGED <<usage, openUntil, ran, heard, panels, reports, clock, events>>

TrippedOnce(kind) == IF kind = "rate_limited" /\ ~isOpen THEN now + CoolOff ELSE openUntil

\* trip, before any await.
Tripped(kind) == IF kind = "rate_limited" THEN now + CoolOff ELSE openUntil

\* The provider's answer, as GeminiProvider classifies it.
ProviderAnswers(r, kind) ==
  /\ At(r, "calling")
  /\ openUntil' = Tripped(kind)
  /\ heard' = IF kind = "rate_limited" THEN now ELSE heard
  /\ ran' = IF kind \in ModelRan THEN [ran EXCEPT ![reqs[r].row] = @ + 1] ELSE ran
  /\ reqs' = [reqs EXCEPT ![r].pc = "answering", ![r].kind = kind]
  /\ UNCHANGED <<quota, usage, lost, panels, reports, clock, events>>

\* A failed INSERT does not take the cards from the student.
Succeed(r) ==
  /\ At(r, "answering") /\ reqs[r].kind = "ok"
  /\ \/ /\ usage' = Logged(r, "ok")
        /\ reqs' = [reqs EXCEPT ![r] = Finished([@ EXCEPT !.id = Len(usage) + 1], r)]
     \/ /\ reqs' = [reqs EXCEPT ![r] = Finished([@ EXCEPT !.id = 0], r)]
        /\ usage' \in {usage, Logged(r, "ok")}
  /\ UNCHANGED <<quota, openUntil, ran, lost, heard, panels, reports, clock, events>>

Outcome(kind) == IF kind = "rate_limited" THEN "rate_limited" ELSE "error"

RefundToday(r) == <<reqs[r].user, day>>

\* The row the refund goes to: that of the day of the claim.
RefundRow(r) == reqs[r].row

\* The refund, when one is due, and the row of the log; either may fail, and
\* the second is not tried after the first has failed.
Settle(r) ==
  /\ At(r, "answering") /\ reqs[r].kind # "ok"
  /\ IF reqs[r].kind \in Refundable
     THEN \/ /\ quota' = [quota EXCEPT ![RefundRow(r)] = IF @ = 0 THEN 0 ELSE @ - 1]
             /\ usage' \in {usage, Logged(r, Outcome(reqs[r].kind))}
             /\ UNCHANGED lost
          \/ /\ lost' = [lost EXCEPT ![reqs[r].row] = @ + 1]
             /\ UNCHANGED <<quota, usage>>
     ELSE /\ usage' \in {usage, Logged(r, Outcome(reqs[r].kind))}
          /\ UNCHANGED <<quota, lost>>
  /\ reqs' = [reqs EXCEPT ![r] = Failed(@, r)]
  /\ UNCHANGED <<openUntil, ran, heard, panels, reports, clock, events>>

\* POST /flashcards/kept: recordKept, the row must be the user's own.
Kept(rep) ==
  /\ usage' = IF usage[rep.id].user = rep.user
              THEN [usage EXCEPT ![rep.id].kept = rep.of] ELSE usage
  /\ reports' = reports \ {rep}
  /\ UNCHANGED <<quota, openUntil, ran, lost, heard, reqs, panels, clock, events>>

KeptLost(rep) ==
  /\ reports' = reports \ {rep}
  /\ UNCHANGED <<service, reqs, panels, clock, events>>

\* Claims that are neither refunded nor known to have bought a run.
Pending(k) ==
  {r \in Requests : /\ reqs[r].row = k
                    /\ \/ At(r, "calling")
                       \/ At(r, "answering") /\ reqs[r].kind \in Refundable}

\* The process ends and is started again: the breaker is closed, and nothing
\* is refunded.
Crash ==
  /\ events < MaxEvents /\ events' = events + 1
  /\ openUntil' = 0 /\ heard' = None
  /\ lost' = [k \in Rows |-> lost[k] + Cardinality(Pending(k))]
  /\ reqs' = [r \in Requests |-> IF reqs[r].pc \in {"claiming", "calling", "answering"}
                                 THEN Failed(reqs[r], r) ELSE reqs[r]]
  /\ UNCHANGED <<quota, usage, ran, panels, reports, clock>>

Tick ==
  /\ now < MaxTime /\ now' = now + 1
  /\ UNCHANGED <<service, reqs, panels, reports, day, events>>

Midnight ==
  /\ day < MaxDay /\ day' = day + 1
  /\ UNCHANGED <<service, reqs, panels, reports, now, events>>

-----------------------------------------------------------------------------
PanelStep(p) == Generate(p) \/ Hear(p) \/ GiveUp(p) \/ Cancel(p) \/ SaveKept(p)
RequestStep(r) ==
  \/ Drop(r) \/ Receive(r)
  \/ Claim(r) \/ ClaimRefused(r) \/ ClaimFails(r)
  \/ \E kind \in Kinds : ProviderAnswers(r, kind)
  \/ Succeed(r) \/ Settle(r)
ReportStep(rep) == Kept(rep) \/ KeptLost(rep)

Next ==
  \/ \E p \in Panels : PanelStep(p)
  \/ \E r \in Requests : RequestStep(r)
  \/ \E rep \in reports : ReportStep(rep)
  \/ Crash \/ Tick \/ Midnight

Spec == Init /\ [][Next]_vars

-----------------------------------------------------------------------------
TypeOK ==
  /\ quota \in [Rows -> Nat] /\ ran \in [Rows -> Nat] /\ lost \in [Rows -> Nat]
  /\ usage \in Seq([user : Users, gen : Nat, kept : Nat,
                    outcome : {"ok", "quota", "rate_limited", "error"}])
  /\ reqs \in [Requests -> [pc : {"idle", "sent", "claiming", "calling", "answering", "answered"},
                            gen : Nat, user : Users \cup {None}, row : Rows \cup {None},
                            at : Nat, kind : Kinds, id : Nat \cup {None}]]
  /\ panels \in [Panels -> [waiting : Requests \cup {None}, cards : Nat, usageId : Nat]]
  /\ openUntil \in Nat /\ now \in Nat /\ day \in 0..MaxDay /\ events \in Nat
  /\ heard \in Nat \cup {None}

\* However the claims, answers, refunds and crashes of concurrent requests
\* interleave, across midnight too, each unit of a student's day is accounted
\* for: it bought a run of the model, is still under way, or was lost to a crash
\* or to the database; and a day's units never exceed the limit (server.ts:63,
\* 113-121, quota.ts:32-41).  Nobody is charged for a refusal of the provider,
\* and no run of the model is free.
UnitsAccountedFor ==
  \A k \in Rows : /\ quota[k] = ran[k] + lost[k] + Cardinality(Pending(k))
                  /\ quota[k] <= Limit

\* A request that has passed the breaker did not arrive within the cool-off of
\* the last 429 the process heard, however many requests were at the provider
\* when it came and whatever the database does (breaker.ts:1-21, server.ts:59,
\* 104).  Only requests that had passed before it still get through.
BreakerHolds ==
  \A r \in Requests :
    reqs[r].pc \in {"claiming", "calling"} /\ heard # None =>
      reqs[r].at <= heard \/ heard + CoolOff <= reqs[r].at

\* A kept count is stored with the generation whose cards were kept, although a
\* panel keeps its usageId while the next generation is under way or fails, and
\* a generation may have none (FlashcardsPanel.tsx:41-74, usage.ts:30-36).
KeptIsOfItsCards ==
  \A i \in DOMAIN usage : usage[i].kept \in {0, usage[i].gen}
=============================================================================
