--------------------------- MODULE AiQuotaProofs ----------------------------
(***************************************************************************)
(* Theorems about AiQuota, for any number of users, panels and requests,   *)
(* any limit, cool-off and run of the clock, and their proofs.  The ledger *)
(* (UnitsAccountedFor) is inductive once a claimed request is known to     *)
(* hold a row; the breaker needs to know when it was tripped last, and     *)
(* the kept counts that every id on its way to the log names the           *)
(* generation whose cards it came with.                                    *)
(***************************************************************************)
EXTENDS AiQuota, TLAPS, FiniteSetTheorems

Request == [pc : {"idle", "sent", "claiming", "calling", "answering", "answered"},
            gen : Nat, user : Users \cup {None}, row : Rows \cup {None},
            at : Nat, kind : Kinds, id : Nat \cup {None}]
Entry == [user : Users, gen : Nat, kept : Nat,
          outcome : {"ok", "quota", "rate_limited", "error"}]
Panel == [waiting : Requests \cup {None}, cards : Nat, usageId : Nat]

\* A request under way belongs to a user, one past the breaker has a row, and
\* none arrived in the future.
SlotsOK ==
  \A r \in Requests :
    /\ reqs[r].pc \in {"sent", "claiming", "calling", "answering"} => reqs[r].user \in Users
    /\ reqs[r].pc \in {"claiming", "calling", "answering"} => reqs[r].row \in Rows
    /\ reqs[r].at <= now

TrippedLast == heard # None => heard \in Nat /\ heard <= now /\ openUntil = heard + CoolOff

\* id is a row of the log, and the row is of that generation.
Cites(log, id, gen) == id \in DOMAIN log /\ log[id].gen = gen

IdsOK ==
  /\ \A r \in Requests : reqs[r].pc = "answered" /\ reqs[r].id \notin {0, None} =>
       Cites(usage, reqs[r].id, reqs[r].gen)
  /\ \A p \in Panels : panels[p].cards # 0 /\ panels[p].usageId # 0 =>
       Cites(usage, panels[p].usageId, panels[p].cards)
  /\ \A rep \in reports : rep.of \in Nat /\ Cites(usage, rep.id, rep.of)

IInv == /\ TypeOK /\ SlotsOK
        /\ UnitsAccountedFor
        /\ TrippedLast /\ BreakerHolds
        /\ IdsOK /\ KeptIsOfItsCards

-----------------------------------------------------------------------------
(* Records and slots.                                                      *)

LEMMA RequestFields ==
  ASSUME NEW q \in Request
  PROVE  /\ q.gen \in Nat /\ q.at \in Nat /\ q.kind \in Kinds
         /\ q.user \in Users \cup {None} /\ q.row \in Rows \cup {None}
         /\ q.id \in Nat \cup {None}
         /\ q.pc \in {"idle", "sent", "claiming", "calling", "answering", "answered"}
BY DEF Request

LEMMA IdleFields ==
  /\ Idle \in Request
  /\ Idle.pc = "idle" /\ Idle.at = 0
BY DEF Idle, Request, Kinds

\* What becomes of a slot whose answer is there: nobody acts on it any more.
LEMMA FinishedFields ==
  ASSUME NEW q \in Request, NEW r
  PROVE  /\ Finished(q, r) \in Request
         /\ Finished(q, r).pc \in {"idle", "answered"}
         /\ Finished(q, r).pc = "answered" =>
              Finished(q, r).id = q.id /\ Finished(q, r).gen = q.gen
         /\ Finished(q, r).at \in {0, q.at}
<1>1. [q EXCEPT !.pc = "answered"] \in Request
  BY DEF Request
<1>2. /\ [q EXCEPT !.pc = "answered"].pc = "answered"
      /\ [q EXCEPT !.pc = "answered"].id = q.id
      /\ [q EXCEPT !.pc = "answered"].gen = q.gen
      /\ [q EXCEPT !.pc = "answered"].at = q.at
  BY DEF Request
<1>3. \/ Finished(q, r) = [q EXCEPT !.pc = "answered"]
      \/ Finished(q, r) = Idle
  BY DEF Finished
<1> HIDE DEF Finished
<1> QED
  BY <1>1, <1>2, <1>3, IdleFields

LEMMA FailedFields ==
  ASSUME NEW q \in Request, NEW r
  PROVE  /\ Failed(q, r) \in Request
         /\ Failed(q, r).pc \in {"idle", "answered"}
         /\ Failed(q, r).pc = "answered" => Failed(q, r).id = None
         /\ Failed(q, r).at \in {0, q.at}
<1> DEFINE f == [q EXCEPT !.id = None]
<1>1. f \in Request /\ f.id = None /\ f.at = q.at
  BY DEF Request
<1>2. Failed(q, r) = Finished(f, r)
  BY DEF Failed
<1> HIDE DEF f
<1> QED
  BY <1>1, <1>2, FinishedFields

LEMMA SlotSet ==
  ASSUME reqs \in [Requests -> Request], NEW r \in Requests, NEW q \in Request,
         reqs' = [reqs EXCEPT ![r] = q]
  PROVE  /\ reqs' \in [Requests -> Request]
         /\ reqs'[r] = q
         /\ \A s \in Requests : s # r => reqs'[s] = reqs[s]
OBVIOUS

\* What a request still owes its row, one unit or none.
Owes(q, k) ==
  IF q.row = k /\ (q.pc = "calling" \/ (q.pc = "answering" /\ q.kind \in Refundable))
  THEN 1 ELSE 0

Charged(q) == q.pc = "calling" \/ (q.pc = "answering" /\ q.kind \in Refundable)

LEMMA PendingCounted ==
  ASSUME NEW k
  PROVE  /\ IsFiniteSet(Pending(k)) /\ Cardinality(Pending(k)) \in Nat
         /\ \A r \in Requests : (r \in Pending(k)) <=> (Owes(reqs[r], k) = 1)
<1>1. Pending(k) \in SUBSET Requests
  BY DEF Pending
<1>2. IsFiniteSet(Pending(k))
  BY <1>1, FS_Subset, AiAssumption
<1>3. Cardinality(Pending(k)) \in Nat
  BY <1>2, FS_CardinalityType
<1>4. \A r \in Requests : (r \in Pending(k)) <=> (Owes(reqs[r], k) = 1)
  BY DEF Pending, Owes, At
<1> QED
  BY <1>2, <1>3, <1>4

LEMMA PendingMoves ==
  ASSUME reqs \in [Requests -> Request], NEW r \in Requests, NEW q \in Request,
         reqs' = [reqs EXCEPT ![r] = q], NEW k
  PROVE  Cardinality(Pending(k)') + Owes(reqs[r], k) = Cardinality(Pending(k)) + Owes(q, k)
<1> DEFINE C(S) == Cardinality(S)
<1>2. /\ IsFiniteSet(Pending(k)) /\ C(Pending(k)) \in Nat
      /\ (r \in Pending(k)) <=> (Owes(reqs[r], k) = 1)
  BY PendingCounted
<1>3. /\ C(Pending(k) \cup {r}) = IF r \in Pending(k) THEN C(Pending(k)) ELSE C(Pending(k)) + 1
      /\ C(Pending(k) \ {r}) = IF r \in Pending(k) THEN C(Pending(k)) - 1 ELSE C(Pending(k))
  BY <1>2, FS_AddElement, FS_RemoveElement
<1>4. Owes(q, k) \in {0, 1} /\ Owes(reqs[r], k) \in {0, 1}
  BY DEF Owes
<1>5. CASE Owes(q, k) = 1
  <2>1. Pending(k)' = Pending(k) \cup {r}
    BY <1>5, SlotSet DEF Pending, Owes, At
  <2>2. C(Pending(k)') = C(Pending(k) \cup {r})
    BY <2>1
  <2> QED
    BY <1>2, <1>3, <1>4, <1>5, <2>2
<1>6. CASE Owes(q, k) = 0
  <2>1. Pending(k)' = Pending(k) \ {r}
    BY <1>6, SlotSet DEF Pending, Owes, At
  <2>2. C(Pending(k)') = C(Pending(k) \ {r})
    BY <2>1
  <2> QED
    BY <1>2, <1>3, <1>4, <1>6, <2>2
<1> QED
  BY <1>4, <1>5, <1>6

\* The ledger stays balanced when a slot changes as the rows do.
LEMMA LedgerBalanced ==
  ASSUME TypeOK, UnitsAccountedFor, NEW r \in Requests, NEW q \in Request,
         reqs' = [reqs EXCEPT ![r] = q],
         quota' \in [Rows -> Nat], ran' \in [Rows -> Nat], lost' \in [Rows -> Nat],
         \A k \in Rows :
           /\ quota'[k] + ran[k] + lost[k] + Owes(reqs[r], k)
                = quota[k] + ran'[k] + lost'[k] + Owes(q, k)
           /\ quota'[k] <= Limit
  PROVE  UnitsAccountedFor'
<1> SUFFICES ASSUME NEW k \in Rows
             PROVE  quota'[k] = ran'[k] + lost'[k] + Cardinality(Pending(k)')
  BY DEF UnitsAccountedFor
<1>1. Cardinality(Pending(k)') + Owes(reqs[r], k) = Cardinality(Pending(k)) + Owes(q, k)
  BY PendingMoves DEF TypeOK, Request
<1>2. Cardinality(Pending(k)) \in Nat /\ Cardinality(Pending(k)') \in Nat
  <2>1. Cardinality(Pending(k)) \in Nat
    BY PendingCounted
  <2>2. Pending(k)' \in SUBSET Requests
    BY DEF Pending
  <2> QED
    BY <2>1, <2>2, FS_Subset, FS_CardinalityType, AiAssumption
<1>3. quota[k] = ran[k] + lost[k] + Cardinality(Pending(k))
  BY DEF UnitsAccountedFor
<1>4. Owes(q, k) \in {0, 1} /\ Owes(reqs[r], k) \in {0, 1}
  BY DEF Owes
<1>5. /\ quota[k] \in Nat /\ ran[k] \in Nat /\ lost[k] \in Nat
      /\ quota'[k] \in Nat /\ ran'[k] \in Nat /\ lost'[k] \in Nat
  BY DEF TypeOK
<1> QED
  BY <1>1, <1>2, <1>3, <1>4, <1>5

-----------------------------------------------------------------------------
(* What several actions do alike.                                          *)

LEMMA Types ==
  ASSUME TypeOK
  PROVE  /\ quota \in [Rows -> Nat] /\ ran \in [Rows -> Nat] /\ lost \in [Rows -> Nat]
         /\ usage \in Seq(Entry)
         /\ reqs \in [Requests -> Request]
         /\ panels \in [Panels -> Panel]
         /\ openUntil \in Nat /\ now \in Nat /\ day \in 0..MaxDay /\ events \in Nat
         /\ heard \in Nat \cup {None}
BY DEF TypeOK, Request, Entry, Panel

LEMMA TypesAgain ==
  ASSUME quota' \in [Rows -> Nat], ran' \in [Rows -> Nat], lost' \in [Rows -> Nat],
         usage' \in Seq(Entry), reqs' \in [Requests -> Request], panels' \in [Panels -> Panel],
         openUntil' \in Nat, now' \in Nat, day' \in 0..MaxDay, events' \in Nat,
         heard' \in Nat \cup {None}
  PROVE  TypeOK'
BY DEF TypeOK, Request, Entry, Panel

\* A slot that is answered or free again disturbs neither slots nor breaker.
LEMMA SlotSettled ==
  ASSUME IInv, NEW r \in Requests, NEW q \in Request, reqs' = [reqs EXCEPT ![r] = q],
         q.pc \in {"idle", "answered"}, q.at \in {0, reqs[r].at},
         UNCHANGED <<now, heard>>
  PROVE  SlotsOK' /\ BreakerHolds'
<1>1. /\ reqs'[r] = q
      /\ \A s \in Requests : s # r => reqs'[s] = reqs[s]
  BY SlotSet, Types DEF IInv
<1>2. now \in Nat
  BY Types DEF IInv
<1>3. SlotsOK'
  BY <1>1, <1>2 DEF IInv, SlotsOK
<1>4. BreakerHolds'
  BY <1>1 DEF IInv, BreakerHolds
<1> QED
  BY <1>3, <1>4

\* Such a slot owes nothing before, nor after: the ledger is as it was.
LEMMA LedgerUntouched ==
  ASSUME IInv, NEW r \in Requests, NEW q \in Request, reqs' = [reqs EXCEPT ![r] = q],
         ~Charged(reqs[r]), ~Charged(q),
         UNCHANGED <<quota, ran, lost>>
  PROVE  UnitsAccountedFor'
<1>1. \A k \in Rows : Owes(reqs[r], k) = 0 /\ Owes(q, k) = 0
  BY DEF Owes, Charged
<1>2. \A k \in Rows : quota[k] \in Nat /\ ran[k] \in Nat /\ lost[k] \in Nat /\ quota[k] <= Limit
  BY Types DEF IInv, UnitsAccountedFor
<1>3. \A k \in Rows :
        /\ quota'[k] + ran[k] + lost[k] + Owes(reqs[r], k)
             = quota[k] + ran'[k] + lost'[k] + Owes(q, k)
        /\ quota'[k] <= Limit
  BY <1>1, <1>2
<1>4. quota' \in [Rows -> Nat] /\ ran' \in [Rows -> Nat] /\ lost' \in [Rows -> Nat]
  BY Types DEF IInv
<1> QED
  BY <1>3, <1>4, LedgerBalanced DEF IInv

\* The log only grows, by rows of which nothing has been kept yet.
LEMMA LogGrows ==
  ASSUME IInv, NEW r \in Requests, reqs[r].user \in Users,
         NEW outcome \in {"ok", "quota", "rate_limited", "error"},
         usage' \in {usage, Logged(r, outcome)}
  PROVE  /\ usage' \in Seq(Entry) /\ KeptIsOfItsCards'
         /\ \A id, gen : Cites(usage, id, gen) => Cites(usage', id, gen)
         /\ usage' = Logged(r, outcome) => Cites(usage', Len(usage) + 1, reqs[r].gen)
<1> DEFINE e == [user |-> reqs[r].user, gen |-> reqs[r].gen, outcome |-> outcome, kept |-> 0]
<1>1. usage \in Seq(Entry) /\ reqs[r].gen \in Nat
  BY Types, RequestFields DEF IInv
<1>2. e \in Entry /\ e.gen = reqs[r].gen /\ e.kept = 0
  BY <1>1 DEF Entry
<1>3. usage' = usage \/ usage' = Append(usage, e)
  BY DEF Logged
<1>4. usage' = Logged(r, outcome) => usage' = Append(usage, e)
  BY DEF Logged
<1> HIDE DEF e
<1>5. usage' \in Seq(Entry)
  BY <1>1, <1>2, <1>3
<1>6. /\ DOMAIN usage = 1..Len(usage) /\ Len(usage) \in Nat
      /\ \A i \in DOMAIN usage : i \in DOMAIN usage' /\ usage'[i] = usage[i]
      /\ usage' = Append(usage, e) =>
           /\ DOMAIN usage' = 1..(Len(usage) + 1)
           /\ usage'[Len(usage) + 1] = e
  BY <1>1, <1>2, <1>3
<1>7. KeptIsOfItsCards'
  BY <1>2, <1>3, <1>6 DEF IInv, KeptIsOfItsCards
<1>8. \A id, gen : Cites(usage, id, gen) => Cites(usage', id, gen)
  BY <1>6 DEF Cites
<1>9. usage' = Logged(r, outcome) => Cites(usage', Len(usage) + 1, reqs[r].gen)
  <2> SUFFICES ASSUME usage' = Append(usage, e)
               PROVE  /\ Len(usage) + 1 \in DOMAIN usage'
                      /\ usage'[Len(usage) + 1].gen = reqs[r].gen
    BY <1>4 DEF Cites
  <2>1. Len(usage) \in Nat /\ DOMAIN usage' = 1..(Len(usage) + 1) /\ usage'[Len(usage) + 1] = e
    BY <1>6
  <2>2. Len(usage) + 1 \in 1..(Len(usage) + 1)
    BY <2>1
  <2> QED
    BY <1>2, <2>1, <2>2
<1> QED
  BY <1>5, <1>7, <1>8, <1>9

LEMMA IdsStay ==
  ASSUME IInv, NEW r \in Requests, NEW q \in Request, reqs' = [reqs EXCEPT ![r] = q],
         \A id, gen : Cites(usage, id, gen) => Cites(usage', id, gen),
         q.pc = "answered" /\ q.id \notin {0, None} => Cites(usage', q.id, q.gen),
         UNCHANGED <<panels, reports>>
  PROVE  IdsOK'
<1>1. /\ reqs'[r] = q
      /\ \A s \in Requests : s # r => reqs'[s] = reqs[s]
  BY SlotSet, Types DEF IInv
<1> USE DEF IInv, IdsOK
<1>2. \A s \in Requests : reqs'[s].pc = "answered" /\ reqs'[s].id \notin {0, None} =>
        Cites(usage', reqs'[s].id, reqs'[s].gen)
  BY <1>1
<1>3. \A p \in Panels : panels'[p].cards # 0 /\ panels'[p].usageId # 0 =>
        Cites(usage', panels'[p].usageId, panels'[p].cards)
  OBVIOUS
<1>4. \A rep \in reports' : rep.of \in Nat /\ Cites(usage', rep.id, rep.of)
  OBVIOUS
<1> QED
  BY <1>2, <1>3, <1>4

-----------------------------------------------------------------------------
(* The steps of a panel.                                                   *)

Asked(i, n, u) == [i EXCEPT !.pc = "sent", !.gen = n, !.user = u]

LEMMA AskedFields ==
  ASSUME NEW i \in Request, NEW n \in Nat, NEW u \in Users
  PROVE  /\ Asked(i, n, u) \in Request
         /\ Asked(i, n, u).pc = "sent" /\ Asked(i, n, u).user = u
         /\ Asked(i, n, u).at = i.at
BY DEF Asked, Request

LEMMA GenerateStep ==
  ASSUME IInv, NEW p \in Panels, Generate(p)
  PROVE  IInv'
<1>1. PICK r \in Requests :
        /\ reqs[r].pc = "idle"
        /\ reqs' = [reqs EXCEPT ![r] = Asked(Idle, events + 1, Owner[p])]
        /\ panels' = [panels EXCEPT ![p].waiting = r, ![p].cards = 0]
  BY DEF Generate, At, Asked
<1> DEFINE q == Asked(Idle, events + 1, Owner[p])
<1>2. /\ UNCHANGED <<quota, usage, openUntil, ran, lost, heard, reports, now, day>>
      /\ events' = events + 1
  BY DEF Generate, service, clock
<1>3. Owner[p] \in Users /\ events \in Nat
  BY Types, AiAssumption DEF IInv
<1>4. q \in Request /\ q.pc = "sent" /\ q.user = Owner[p] /\ q.at = 0
  BY <1>3, IdleFields, AskedFields
<1>5. reqs' = [reqs EXCEPT ![r] = q]
  BY <1>1
<1> HIDE DEF q
<1>6. /\ reqs' \in [Requests -> Request] /\ reqs'[r] = q
      /\ \A s \in Requests : s # r => reqs'[s] = reqs[s]
  BY <1>4, <1>5, SlotSet, Types DEF IInv
<1>7. /\ panels' \in [Panels -> Panel] /\ panels'[p].cards = 0
      /\ \A o \in Panels : o # p => panels'[o] = panels[o]
  BY <1>1, Types DEF IInv, Panel
<1>8. TypeOK'
  BY <1>2, <1>3, <1>6, <1>7, Types, TypesAgain DEF IInv
<1>9. SlotsOK' /\ BreakerHolds'
  <2>1. now \in Nat
    BY Types DEF IInv
  <2>2. SlotsOK'
    BY <1>2, <1>3, <1>4, <1>6, <2>1 DEF IInv, SlotsOK
  <2>3. BreakerHolds'
    BY <1>2, <1>4, <1>6 DEF IInv, BreakerHolds
  <2> QED
    BY <2>2, <2>3
<1>10. UnitsAccountedFor'
  <2>1. ~Charged(reqs[r]) /\ ~Charged(q)
    BY <1>1, <1>4 DEF Charged
  <2> QED
    BY <1>2, <1>4, <1>5, <2>1, LedgerUntouched
<1>11. IdsOK'
  BY <1>2, <1>4, <1>6, <1>7 DEF IInv, IdsOK
<1> QED
  BY <1>2, <1>8, <1>9, <1>10, <1>11 DEF IInv, TrippedLast, KeptIsOfItsCards

LEMMA ShownFields ==
  ASSUME NEW panel \in Panel, NEW q \in Request, NEW some \in BOOLEAN
  PROVE  /\ Shown(panel, q, some) \in Panel
         /\ \/ /\ q.id # None
               /\ Shown(panel, q, some).cards = q.gen /\ Shown(panel, q, some).usageId = q.id
            \/ /\ Shown(panel, q, some).cards = panel.cards
               /\ Shown(panel, q, some).usageId = panel.usageId
<1>1. CASE q.id # None /\ some
  <2>1. q.gen \in Nat /\ q.id \in Nat
    BY <1>1, RequestFields
  <2> QED
    BY <1>1, <2>1 DEF Shown, Panel
<1>2. CASE ~(q.id # None /\ some)
  BY <1>2 DEF Shown, Panel
<1> QED
  BY <1>1, <1>2

\* Changes of the panels alone.
LEMMA PanelsAlone ==
  ASSUME IInv, panels' \in [Panels -> Panel], IdsOK',
         reqs' \in [Requests -> Request], SlotsOK', BreakerHolds', UnitsAccountedFor',
         UNCHANGED <<quota, usage, openUntil, ran, lost, heard, now, day, events>>
  PROVE  IInv'
<1>1. TypeOK'
  BY Types DEF IInv, TypeOK, Request, Entry, Panel
<1> QED
  BY <1>1 DEF IInv, TrippedLast, KeptIsOfItsCards

\* Slots are not touched: nothing of what is said of them changes.
LEMMA SlotsAlone ==
  ASSUME IInv, UNCHANGED <<reqs, quota, ran, lost, heard, now>>
  PROVE  reqs' \in [Requests -> Request] /\ SlotsOK' /\ BreakerHolds' /\ UnitsAccountedFor'
<1>1. \A k \in Rows : Pending(k)' = Pending(k)
  BY DEF Pending, At
<1>2. \A k \in Rows : Cardinality(Pending(k)') = Cardinality(Pending(k))
  BY <1>1
<1>3. UnitsAccountedFor'
  BY <1>2 DEF IInv, UnitsAccountedFor
<1> QED
  BY <1>3, Types DEF IInv, SlotsOK, BreakerHolds

LEMMA HearStep ==
  ASSUME IInv, NEW p \in Panels, Hear(p)
  PROVE  IInv'
<1> DEFINE r == panels[p].waiting
<1>1. PICK some \in BOOLEAN : panels' = [panels EXCEPT ![p] = Shown(panels[p], reqs[r], some)]
  BY DEF Hear
<1>2. /\ reqs[r].pc = "answered" /\ r # None
      /\ reqs' = [reqs EXCEPT ![r] = Idle]
      /\ UNCHANGED <<quota, usage, openUntil, ran, lost, heard, reports, now, day, events>>
  BY DEF Hear, Busy, At, service, clock
<1>3. r \in Requests /\ panels[p] \in Panel /\ reqs[r] \in Request
  BY <1>2, Types DEF IInv, Panel
<1> HIDE DEF r
<1>4. /\ reqs' \in [Requests -> Request] /\ reqs'[r] = Idle
      /\ \A s \in Requests : s # r => reqs'[s] = reqs[s]
  BY <1>2, <1>3, IdleFields, SlotSet, Types DEF IInv
<1>5. /\ panels' \in [Panels -> Panel] /\ panels'[p] = Shown(panels[p], reqs[r], some)
      /\ \A o \in Panels : o # p => panels'[o] = panels[o]
  BY <1>1, <1>3, ShownFields, Types DEF IInv
<1>6. SlotsOK' /\ BreakerHolds'
  BY <1>2, <1>3, IdleFields, SlotSettled
<1>7. UnitsAccountedFor'
  <2>1. ~Charged(reqs[r]) /\ ~Charged(Idle)
    BY <1>2, IdleFields DEF Charged
  <2> QED
    BY <1>2, <1>3, <2>1, IdleFields, LedgerUntouched
<1>8. IdsOK'
  <2>1. \A s \in Requests : reqs'[s].pc = "answered" /\ reqs'[s].id \notin {0, None} =>
          Cites(usage', reqs'[s].id, reqs'[s].gen)
    BY <1>2, <1>4, IdleFields DEF IInv, IdsOK
  <2>2. panels'[p].cards # 0 /\ panels'[p].usageId # 0 =>
          Cites(usage', panels'[p].usageId, panels'[p].cards)
    BY <1>2, <1>3, <1>5, ShownFields DEF IInv, IdsOK
  <2> QED
    BY <1>2, <1>5, <2>1, <2>2 DEF IInv, IdsOK
<1> QED
  BY <1>2, <1>4, <1>5, <1>6, <1>7, <1>8, PanelsAlone

LEMMA GiveUpStep ==
  ASSUME IInv, NEW p \in Panels, GiveUp(p)
  PROVE  IInv'
<1> DEFINE r == panels[p].waiting
<1>1. /\ r # None
      /\ panels' = [panels EXCEPT ![p].waiting = None]
      /\ reqs' = IF reqs[r].pc = "answered" THEN [reqs EXCEPT ![r] = Idle] ELSE reqs
      /\ UNCHANGED <<quota, usage, openUntil, ran, lost, heard, reports, now, day, events>>
  BY DEF GiveUp, Busy, At, service, clock
<1>2. r \in Requests
  BY <1>1, Types DEF IInv, Panel
<1> HIDE DEF r
<1>3. /\ panels' \in [Panels -> Panel]
      /\ \A o \in Panels : panels'[o].cards = panels[o].cards
                           /\ panels'[o].usageId = panels[o].usageId
  BY <1>1, Types DEF IInv, Panel
<1>4. reqs' \in [Requests -> Request] /\ SlotsOK' /\ BreakerHolds' /\ UnitsAccountedFor'
  <2>1. CASE reqs[r].pc = "answered"
    <3>1. reqs' = [reqs EXCEPT ![r] = Idle] /\ Idle \in Request
      BY <1>1, <2>1, IdleFields
    <3>2. ~Charged(reqs[r]) /\ ~Charged(Idle)
      BY <2>1, IdleFields DEF Charged
    <3>3. reqs' \in [Requests -> Request]
      BY <1>2, <3>1, SlotSet, Types DEF IInv
    <3>4. SlotsOK' /\ BreakerHolds'
      BY <1>1, <1>2, <3>1, IdleFields, SlotSettled
    <3>5. UnitsAccountedFor'
      BY <1>1, <1>2, <3>1, <3>2, LedgerUntouched
    <3> QED
      BY <3>3, <3>4, <3>5
  <2>2. CASE reqs[r].pc # "answered"
    BY <1>1, <2>2, SlotsAlone
  <2> QED
    BY <2>1, <2>2
<1>5. \A s \in Requests : reqs'[s] = reqs[s] \/ reqs'[s] = Idle
  BY <1>1, <1>2, Types DEF IInv
<1>6. IdsOK'
  BY <1>1, <1>3, <1>5, IdleFields DEF IInv, IdsOK
<1> QED
  BY <1>1, <1>3, <1>4, <1>6, PanelsAlone

\* Cards are taken off a panel, by Cancel or by saveKept.
LEMMA DiscardedFields ==
  ASSUME NEW panel \in Panel
  PROVE  /\ Discarded(panel) \in Panel
         /\ Discarded(panel).cards = 0 /\ Discarded(panel).usageId = 0
BY DEF Discarded, Panel

LEMMA CancelStep ==
  ASSUME IInv, NEW p \in Panels, Cancel(p)
  PROVE  IInv'
<1>1. /\ panels' = [panels EXCEPT ![p] = Discarded(panels[p])]
      /\ UNCHANGED <<reqs, quota, usage, openUntil, ran, lost, heard, reports, now, day, events>>
  BY DEF Cancel, service, clock
<1>2. /\ panels' \in [Panels -> Panel] /\ panels'[p].cards = 0
      /\ \A o \in Panels : o # p => panels'[o] = panels[o]
  BY <1>1, DiscardedFields, Types DEF IInv
<1>3. IdsOK'
  BY <1>1, <1>2 DEF IInv, IdsOK
<1> QED
  BY <1>1, <1>2, <1>3, SlotsAlone, PanelsAlone

LEMMA SaveKeptStep ==
  ASSUME IInv, NEW p \in Panels, SaveKept(p)
  PROVE  IInv'
<1> DEFINE report == [id |-> panels[p].usageId, user |-> Owner[p], of |-> panels[p].cards]
<1>1. /\ panels[p].cards # 0
      /\ panels' = [panels EXCEPT ![p] = Discarded(panels[p])]
      /\ reports' = IF panels[p].usageId = 0 THEN reports ELSE reports \cup {report}
      /\ UNCHANGED <<reqs, quota, usage, openUntil, ran, lost, heard, now, day, events>>
  BY DEF SaveKept, service, clock
<1>2. report.id = panels[p].usageId /\ report.of = panels[p].cards
  OBVIOUS
<1> HIDE DEF report
<1>3. /\ panels' \in [Panels -> Panel] /\ panels'[p].cards = 0
      /\ \A o \in Panels : o # p => panels'[o] = panels[o]
  BY <1>1, DiscardedFields, Types DEF IInv
<1>4. panels[p].cards \in Nat
  BY Types DEF IInv, Panel
<1>5. \A rep \in reports' : rep.of \in Nat /\ Cites(usage', rep.id, rep.of)
  BY <1>1, <1>2, <1>4 DEF IInv, IdsOK
<1>6. IdsOK'
  BY <1>1, <1>3, <1>5 DEF IInv, IdsOK
<1> QED
  BY <1>1, <1>3, <1>6, SlotsAlone, PanelsAlone

-----------------------------------------------------------------------------
(* The steps of a request.                                                 *)

Claiming(q, row, at) == [q EXCEPT !.pc = "claiming", !.row = row, !.at = at]
Calling(q) == [q EXCEPT !.pc = "calling"]
Answering(q, kind) == [q EXCEPT !.pc = "answering", !.kind = kind]
WithId(q, id) == [q EXCEPT !.id = id]

LEMMA ClaimingFields ==
  ASSUME NEW q \in Request, NEW row \in Rows, NEW at \in Nat
  PROVE  /\ Claiming(q, row, at) \in Request
         /\ Claiming(q, row, at).pc = "claiming" /\ Claiming(q, row, at).row = row
         /\ Claiming(q, row, at).at = at /\ Claiming(q, row, at).user = q.user
BY DEF Claiming, Request

LEMMA CallingFields ==
  ASSUME NEW q \in Request
  PROVE  /\ Calling(q) \in Request
         /\ Calling(q).pc = "calling" /\ Calling(q).row = q.row
         /\ Calling(q).at = q.at /\ Calling(q).user = q.user
BY DEF Calling, Request

LEMMA AnsweringFields ==
  ASSUME NEW q \in Request, NEW kind \in Kinds
  PROVE  /\ Answering(q, kind) \in Request
         /\ Answering(q, kind).pc = "answering" /\ Answering(q, kind).kind = kind
         /\ Answering(q, kind).row = q.row
         /\ Answering(q, kind).at = q.at /\ Answering(q, kind).user = q.user
BY DEF Answering, Request

LEMMA WithIdFields ==
  ASSUME NEW q \in Request, NEW id \in Nat
  PROVE  /\ WithId(q, id) \in Request
         /\ WithId(q, id).id = id /\ WithId(q, id).gen = q.gen /\ WithId(q, id).at = q.at
BY DEF WithId, Request

\* What remains to be shown of a step of one request that changes neither panels
\* nor reports nor the clock: its slot's new content, the ledger, the breaker and
\* the log.
LEMMA RequestStepInv ==
  ASSUME IInv, NEW r \in Requests, NEW q \in Request, reqs' = [reqs EXCEPT ![r] = q],
         UNCHANGED <<panels, reports, now, day, events>>,
         quota' \in [Rows -> Nat], ran' \in [Rows -> Nat], lost' \in [Rows -> Nat],
         usage' \in Seq(Entry), openUntil' \in Nat, heard' \in Nat \cup {None},
         SlotsOK', UnitsAccountedFor', TrippedLast', BreakerHolds', KeptIsOfItsCards',
         \A id, gen : Cites(usage, id, gen) => Cites(usage', id, gen),
         q.pc = "answered" /\ q.id \notin {0, None} => Cites(usage', q.id, q.gen)
  PROVE  IInv'
<1>1. reqs' \in [Requests -> Request]
  BY SlotSet, Types DEF IInv
<1>2. TypeOK'
  <2>1. /\ panels' \in [Panels -> Panel] /\ now' \in Nat /\ day' \in 0..MaxDay /\ events' \in Nat
    BY Types DEF IInv
  <2> QED
    BY <1>1, <2>1, TypesAgain
<1>3. IdsOK'
  BY IdsStay
<1> QED
  BY <1>2, <1>3 DEF IInv

\* The request is answered; only the log, and at most the ledger, have changed.
LEMMA AnsweredInv ==
  ASSUME IInv, NEW r \in Requests, NEW q \in Request, reqs' = [reqs EXCEPT ![r] = q],
         q.pc \in {"idle", "answered"}, q.at \in {0, reqs[r].at},
         UNCHANGED <<panels, reports, now, day, events, openUntil, heard>>,
         quota' \in [Rows -> Nat], ran' \in [Rows -> Nat], lost' \in [Rows -> Nat],
         usage' \in Seq(Entry), UnitsAccountedFor', KeptIsOfItsCards',
         \A id, gen : Cites(usage, id, gen) => Cites(usage', id, gen),
         q.pc = "answered" /\ q.id \notin {0, None} => Cites(usage', q.id, q.gen)
  PROVE  IInv'
<1>1. SlotsOK' /\ BreakerHolds'
  BY SlotSettled
<1>2. TrippedLast'
  BY DEF IInv, TrippedLast
<1>3. openUntil' \in Nat /\ heard' \in Nat \cup {None}
  BY Types DEF IInv
<1> QED
  BY <1>1, <1>2, <1>3, RequestStepInv

LEMMA DropStep ==
  ASSUME IInv, NEW r \in Requests, Drop(r)
  PROVE  IInv'
<1> DEFINE q == Failed(reqs[r], r)
<1>1. /\ reqs[r].pc = "sent" /\ reqs' = [reqs EXCEPT ![r] = q]
      /\ UNCHANGED <<quota, usage, openUntil, ran, lost, heard, panels, reports, now, day, events>>
  BY DEF Drop, At, service, clock
<1>2. reqs[r] \in Request
  BY Types DEF IInv
<1>3. /\ q \in Request /\ q.pc \in {"idle", "answered"} /\ q.at \in {0, reqs[r].at}
      /\ q.pc = "answered" => q.id = None
  BY <1>2, FailedFields
<1> HIDE DEF q
<1>4. UnitsAccountedFor'
  <2>1. ~Charged(reqs[r]) /\ ~Charged(q)
    BY <1>1, <1>3 DEF Charged
  <2> QED
    BY <1>1, <1>3, <2>1, LedgerUntouched
<1>5. /\ quota' \in [Rows -> Nat] /\ ran' \in [Rows -> Nat] /\ lost' \in [Rows -> Nat]
      /\ usage' \in Seq(Entry) /\ KeptIsOfItsCards'
      /\ \A id, gen : Cites(usage, id, gen) => Cites(usage', id, gen)
  BY <1>1, Types DEF IInv, KeptIsOfItsCards
<1> QED
  BY <1>1, <1>3, <1>4, <1>5, AnsweredInv

LEMMA ReceiveStep ==
  ASSUME IInv, NEW r \in Requests, Receive(r)
  PROVE  IInv'
<1> DEFINE q == IF isOpen THEN Failed(reqs[r], r)
                ELSE Claiming(reqs[r], <<reqs[r].user, day>>, now)
<1>1. /\ reqs[r].pc = "sent" /\ reqs' = [reqs EXCEPT ![r] = q]
      /\ UNCHANGED <<quota, usage, openUntil, ran, lost, heard, panels, reports, now, day, events>>
  BY DEF Receive, At, Claiming, service, clock
<1>2. /\ reqs[r] \in Request /\ <<reqs[r].user, day>> \in Rows
      /\ now \in Nat /\ reqs[r].user \in Users
  BY <1>1, Types DEF IInv, SlotsOK, Rows
<1>3. \/ /\ isOpen /\ q \in Request /\ q.pc \in {"idle", "answered"} /\ q.at \in {0, reqs[r].at}
         /\ q.pc = "answered" => q.id = None
      \/ /\ ~isOpen /\ q \in Request /\ q.pc = "claiming" /\ q.row \in Rows
         /\ q.at = now /\ q.user \in Users
  <2> DEFINE row == <<reqs[r].user, day>>
  <2>1. CASE isOpen
    BY <1>2, <2>1, FailedFields
  <2>2. CASE ~isOpen
    <3>1. q = Claiming(reqs[r], row, now) /\ row \in Rows
      BY <1>2, <2>2
    <3>2. reqs[r] \in Request /\ now \in Nat /\ reqs[r].user \in Users
      BY <1>2
    <3> HIDE DEF row, q
    <3>3. /\ q \in Request /\ q.pc = "claiming" /\ q.row = row
          /\ q.at = now /\ q.user = reqs[r].user
      BY <3>1, <3>2, ClaimingFields
    <3> QED
      BY <2>2, <3>1, <3>2, <3>3
  <2> QED
    BY <2>1, <2>2
<1> HIDE DEF q
<1>4. /\ reqs'[r] = q
      /\ \A s \in Requests : s # r => reqs'[s] = reqs[s]
  BY <1>1, <1>3, SlotSet, Types DEF IInv
<1>5. UnitsAccountedFor'
  <2>1. ~Charged(reqs[r]) /\ ~Charged(q)
    BY <1>1, <1>3 DEF Charged
  <2> QED
    BY <1>1, <1>3, <2>1, LedgerUntouched
<1>6. SlotsOK'
  <2>1. reqs[r].at <= now
    BY DEF IInv, SlotsOK
  <2> QED
    BY <1>1, <1>2, <1>3, <1>4, <2>1 DEF IInv, SlotsOK
<1>7. TrippedLast'
  BY <1>1 DEF IInv, TrippedLast
<1>8. BreakerHolds'
  \* A claim is made when the breaker is closed: the last 429 is a cool-off ago.
  <2>1. q.pc = "claiming" /\ heard # None => heard + CoolOff <= q.at
    BY <1>2, <1>3, Types, AiAssumption DEF IInv, TrippedLast, isOpen
  <2> QED
    BY <1>1, <1>3, <1>4, <2>1 DEF IInv, BreakerHolds
<1>9. /\ quota' \in [Rows -> Nat] /\ ran' \in [Rows -> Nat] /\ lost' \in [Rows -> Nat]
      /\ usage' \in Seq(Entry) /\ openUntil' \in Nat /\ heard' \in Nat \cup {None}
      /\ KeptIsOfItsCards'
      /\ \A id, gen : Cites(usage, id, gen) => Cites(usage', id, gen)
  BY <1>1, Types DEF IInv, KeptIsOfItsCards
<1> QED
  BY <1>1, <1>3, <1>5, <1>6, <1>7, <1>8, <1>9, RequestStepInv

\* A slot past the breaker that moves on keeps its arrival, its user and its row.
LEMMA SlotMovesOn ==
  ASSUME IInv, NEW r \in Requests, NEW q \in Request, reqs' = [reqs EXCEPT ![r] = q],
         reqs[r].pc \in {"claiming", "calling"},
         q.user = reqs[r].user, q.row = reqs[r].row, q.at = reqs[r].at,
         UNCHANGED now
  PROVE  /\ SlotsOK'
         /\ UNCHANGED heard => BreakerHolds'
<1>1. /\ reqs'[r] = q
      /\ \A s \in Requests : s # r => reqs'[s] = reqs[s]
  BY SlotSet, Types DEF IInv
<1> QED
  BY <1>1 DEF IInv, SlotsOK, BreakerHolds

LEMMA ClaimStep ==
  ASSUME IInv, NEW r \in Requests, Claim(r)
  PROVE  IInv'
<1> DEFINE q == Calling(reqs[r])
           row == reqs[r].row
<1>1. /\ reqs[r].pc = "claiming" /\ quota[row] < Limit
      /\ quota' = [quota EXCEPT ![row] = quota[row] + 1]
      /\ reqs' = [reqs EXCEPT ![r] = q]
      /\ UNCHANGED <<usage, openUntil, ran, lost, heard, panels, reports, now, day, events>>
  BY DEF Claim, Claimable, At, Calling, clock
<1>2. reqs[r] \in Request /\ row \in Rows
  BY <1>1, Types DEF IInv, SlotsOK
<1>3. /\ q \in Request /\ q.pc = "calling" /\ q.row = row
      /\ q.at = reqs[r].at /\ q.user = reqs[r].user
  BY <1>2, CallingFields
<1> HIDE DEF q, row
<1>4. quota \in [Rows -> Nat] /\ ran \in [Rows -> Nat] /\ lost \in [Rows -> Nat] /\ Limit \in Nat
  BY Types, AiAssumption DEF IInv
<1>5. quota' \in [Rows -> Nat] /\ ran' \in [Rows -> Nat] /\ lost' \in [Rows -> Nat]
  BY <1>1, <1>2, <1>4
<1>6. UnitsAccountedFor'
  <2>1. ASSUME NEW k \in Rows
        PROVE  /\ quota'[k] + ran[k] + lost[k] + Owes(reqs[r], k)
                    = quota[k] + ran'[k] + lost'[k] + Owes(q, k)
               /\ quota'[k] <= Limit
    <3>1. Owes(reqs[r], k) = 0 /\ Owes(q, k) = IF k = row THEN 1 ELSE 0
      BY <1>1, <1>3 DEF Owes
    <3>2. quota'[k] = IF k = row THEN quota[k] + 1 ELSE quota[k]
      BY <1>1, <1>4
    <3>3. quota[k] <= Limit
      BY DEF IInv, UnitsAccountedFor
    <3> QED
      BY <1>1, <1>4, <3>1, <3>2, <3>3
  <2>2. reqs' = [reqs EXCEPT ![r] = q] /\ q \in Request
    BY <1>1, <1>3
  <2> QED
    BY <1>5, <2>1, <2>2, LedgerBalanced DEF IInv
<1>7. SlotsOK' /\ BreakerHolds' /\ TrippedLast'
  <2>1. SlotsOK' /\ BreakerHolds'
    BY <1>1, <1>3, SlotMovesOn DEF row
  <2> QED
    BY <1>1, <2>1 DEF IInv, TrippedLast
<1>8. /\ usage' \in Seq(Entry) /\ openUntil' \in Nat /\ heard' \in Nat \cup {None}
      /\ KeptIsOfItsCards'
      /\ \A id, gen : Cites(usage, id, gen) => Cites(usage', id, gen)
  BY <1>1, Types DEF IInv, KeptIsOfItsCards
<1> QED
  BY <1>1, <1>3, <1>5, <1>6, <1>7, <1>8, RequestStepInv

LEMMA ClaimRefusedStep ==
  ASSUME IInv, NEW r \in Requests, ClaimRefused(r)
  PROVE  IInv'
<1> DEFINE q == Failed(reqs[r], r)
<1>1. /\ reqs[r].pc = "claiming" /\ reqs' = [reqs EXCEPT ![r] = q]
      /\ usage' \in {usage, Logged(r, "quota")}
      /\ UNCHANGED <<quota, openUntil, ran, lost, heard, panels, reports, now, day, events>>
  BY DEF ClaimRefused, At, clock
<1>2. reqs[r] \in Request /\ reqs[r].user \in Users
  BY <1>1, Types DEF IInv, SlotsOK
<1>3. /\ q \in Request /\ q.pc \in {"idle", "answered"} /\ q.at \in {0, reqs[r].at}
      /\ q.pc = "answered" => q.id = None
  BY <1>2, FailedFields
<1> HIDE DEF q
<1>4. UnitsAccountedFor'
  <2>1. ~Charged(reqs[r]) /\ ~Charged(q)
    BY <1>1, <1>3 DEF Charged
  <2> QED
    BY <1>1, <1>3, <2>1, LedgerUntouched
<1>5. /\ usage' \in Seq(Entry) /\ KeptIsOfItsCards'
      /\ \A id, gen : Cites(usage, id, gen) => Cites(usage', id, gen)
  BY <1>1, <1>2, LogGrows
<1>6. quota' \in [Rows -> Nat] /\ ran' \in [Rows -> Nat] /\ lost' \in [Rows -> Nat]
  BY <1>1, Types DEF IInv
<1> QED
  BY <1>1, <1>3, <1>4, <1>5, <1>6, AnsweredInv

LEMMA ClaimFailsStep ==
  ASSUME IInv, NEW r \in Requests, ClaimFails(r)
  PROVE  IInv'
<1> DEFINE q == Failed(reqs[r], r)
           row == reqs[r].row
<1>1. /\ reqs[r].pc = "claiming" /\ reqs' = [reqs EXCEPT ![r] = q]
      /\ \/ UNCHANGED <<quota, lost>>
         \/ /\ quota[row] < Limit
            /\ quota' = [quota EXCEPT ![row] = quota[row] + 1]
            /\ lost' = [lost EXCEPT ![row] = lost[row] + 1]
      /\ UNCHANGED <<usage, openUntil, ran, heard, panels, reports, now, day, events>>
  BY DEF ClaimFails, Claimable, At, clock
<1>2. reqs[r] \in Request /\ row \in Rows
  BY <1>1, Types DEF IInv, SlotsOK
<1>3. /\ q \in Request /\ q.pc \in {"idle", "answered"} /\ q.at \in {0, reqs[r].at}
      /\ q.pc = "answered" => q.id = None
  BY <1>2, FailedFields
<1> HIDE DEF q, row
<1>4. quota \in [Rows -> Nat] /\ ran \in [Rows -> Nat] /\ lost \in [Rows -> Nat] /\ Limit \in Nat
  BY Types, AiAssumption DEF IInv
<1>5. quota' \in [Rows -> Nat] /\ ran' \in [Rows -> Nat] /\ lost' \in [Rows -> Nat]
  BY <1>1, <1>2, <1>4
<1>6. UnitsAccountedFor'
  <2>1. ASSUME NEW k \in Rows
        PROVE  /\ quota'[k] + ran[k] + lost[k] + Owes(reqs[r], k)
                    = quota[k] + ran'[k] + lost'[k] + Owes(q, k)
               /\ quota'[k] <= Limit
    <3>1. Owes(reqs[r], k) = 0 /\ Owes(q, k) = 0
      BY <1>1, <1>3 DEF Owes
    <3>2. \/ quota'[k] = quota[k] /\ lost'[k] = lost[k]
          \/ quota'[k] = quota[k] + 1 /\ lost'[k] = lost[k] + 1 /\ quota[k] < Limit
      BY <1>1, <1>4
    <3>3. quota[k] <= Limit
      BY DEF IInv, UnitsAccountedFor
    <3> QED
      BY <1>1, <1>4, <3>1, <3>2, <3>3
  <2>2. reqs' = [reqs EXCEPT ![r] = q] /\ q \in Request
    BY <1>1, <1>3
  <2> QED
    BY <1>5, <2>1, <2>2, LedgerBalanced DEF IInv
<1>7. /\ usage' \in Seq(Entry) /\ KeptIsOfItsCards'
      /\ \A id, gen : Cites(usage, id, gen) => Cites(usage', id, gen)
  BY <1>1, Types DEF IInv, KeptIsOfItsCards
<1> QED
  BY <1>1, <1>3, <1>5, <1>6, <1>7, AnsweredInv

LEMMA ProviderAnswersStep ==
  ASSUME IInv, NEW r \in Requests, NEW kind \in Kinds, ProviderAnswers(r, kind)
  PROVE  IInv'
<1> DEFINE q == Answering(reqs[r], kind)
           row == reqs[r].row
<1>1. /\ reqs[r].pc = "calling"
      /\ openUntil' = IF kind = "rate_limited" THEN now + CoolOff ELSE openUntil
      /\ heard' = IF kind = "rate_limited" THEN now ELSE heard
      /\ ran' = IF kind \in ModelRan THEN [ran EXCEPT ![row] = ran[row] + 1] ELSE ran
      /\ UNCHANGED <<quota, usage, lost, panels, reports, now, day, events>>
  BY DEF ProviderAnswers, Tripped, At, clock
<1>2. reqs' = [reqs EXCEPT ![r] = q]
  BY DEF ProviderAnswers, Answering
<1>3. reqs[r] \in Request /\ row \in Rows /\ now \in Nat /\ CoolOff \in Nat
  BY <1>1, Types, AiAssumption DEF IInv, SlotsOK
<1>4. /\ q \in Request /\ q.pc = "answering" /\ q.kind = kind /\ q.row = row
      /\ q.at = reqs[r].at /\ q.user = reqs[r].user
  BY <1>3, AnsweringFields
<1> HIDE DEF q
<1>5. quota \in [Rows -> Nat] /\ ran \in [Rows -> Nat] /\ lost \in [Rows -> Nat] /\ Limit \in Nat
  BY Types, AiAssumption DEF IInv
<1>6. quota' \in [Rows -> Nat] /\ ran' \in [Rows -> Nat] /\ lost' \in [Rows -> Nat]
  BY <1>1, <1>3, <1>5
<1>7. UnitsAccountedFor'
  <2>1. ASSUME NEW k \in Rows
        PROVE  /\ quota'[k] + ran[k] + lost[k] + Owes(reqs[r], k)
                    = quota[k] + ran'[k] + lost'[k] + Owes(q, k)
               /\ quota'[k] <= Limit
    <3>1. Owes(reqs[r], k) = IF k = row THEN 1 ELSE 0
      BY <1>1 DEF Owes
    <3>2. kind \in ModelRan <=> kind \notin Refundable
      BY DEF Kinds, ModelRan, Refundable
    <3>3. Owes(q, k) = IF k = row /\ kind \in Refundable THEN 1 ELSE 0
      BY <1>4 DEF Owes
    <3>4. ran'[k] = IF k = row /\ kind \in ModelRan THEN ran[k] + 1 ELSE ran[k]
      BY <1>1, <1>5
    <3>5. quota[k] <= Limit
      BY DEF IInv, UnitsAccountedFor
    <3> HIDE DEF row
    <3> QED
      BY <1>1, <1>5, <3>1, <3>2, <3>3, <3>4, <3>5
  <2>2. reqs' = [reqs EXCEPT ![r] = q] /\ q \in Request
    BY <1>2, <1>4
  <2> QED
    BY <1>6, <2>1, <2>2, LedgerBalanced DEF IInv
<1>8. /\ reqs'[r] = q
      /\ \A s \in Requests : s # r => reqs'[s] = reqs[s]
  BY <1>2, <1>4, SlotSet, Types DEF IInv
<1>9. SlotsOK'
  BY <1>1, <1>2, <1>4, SlotMovesOn
<1>10. TrippedLast' /\ openUntil' \in Nat /\ heard' \in Nat \cup {None}
  BY <1>1, <1>3, Types DEF IInv, TrippedLast
<1>11. BreakerHolds'
  \* Every request that has passed the breaker did so before now.
  <2>1. ASSUME NEW s \in Requests, reqs'[s].pc \in {"claiming", "calling"}, heard' # None
        PROVE  reqs'[s].at <= heard' \/ heard' + CoolOff <= reqs'[s].at
    <3>1. reqs'[s] = reqs[s] /\ reqs[s].at <= now
      BY <1>4, <1>8, <2>1 DEF IInv, SlotsOK
    <3>2. CASE kind = "rate_limited"
      BY <1>1, <3>1, <3>2
    <3>3. CASE kind # "rate_limited"
      BY <1>1, <2>1, <3>1, <3>3 DEF IInv, BreakerHolds
    <3> QED
      BY <3>2, <3>3
  <2> QED
    BY <2>1 DEF BreakerHolds
<1>12. /\ usage' \in Seq(Entry) /\ KeptIsOfItsCards'
       /\ \A id, gen : Cites(usage, id, gen) => Cites(usage', id, gen)
  BY <1>1, Types DEF IInv, KeptIsOfItsCards
<1> QED
  BY <1>1, <1>2, <1>4, <1>6, <1>7, <1>9, <1>10, <1>11, <1>12, RequestStepInv

LEMMA SucceedStep ==
  ASSUME IInv, NEW r \in Requests, Succeed(r)
  PROVE  IInv'
<1>1. /\ reqs[r].pc = "answering" /\ reqs[r].kind = "ok"
      /\ UNCHANGED <<quota, openUntil, ran, lost, heard, panels, reports, now, day, events>>
  BY DEF Succeed, At, clock
<1>2. PICK id \in {0, Len(usage) + 1} :
        /\ reqs' = [reqs EXCEPT ![r] = Finished(WithId(reqs[r], id), r)]
        /\ usage' \in {usage, Logged(r, "ok")}
        /\ id # 0 => usage' = Logged(r, "ok")
  BY DEF Succeed, WithId
<1> DEFINE w == WithId(reqs[r], id)
           q == Finished(w, r)
<1>3. reqs[r] \in Request /\ reqs[r].user \in Users /\ usage \in Seq(Entry)
  BY <1>1, Types DEF IInv, SlotsOK
<1>4. id \in Nat
  BY <1>3
<1>5. w \in Request /\ w.id = id /\ w.gen = reqs[r].gen /\ w.at = reqs[r].at
  BY <1>3, <1>4, WithIdFields
<1> HIDE DEF w
<1>6. /\ q \in Request /\ q.pc \in {"idle", "answered"} /\ q.at \in {0, reqs[r].at}
      /\ q.pc = "answered" => q.id = id /\ q.gen = reqs[r].gen
  BY <1>5, FinishedFields
<1>7. reqs' = [reqs EXCEPT ![r] = q]
  BY <1>2 DEF w
<1> HIDE DEF q
<1>8. UnitsAccountedFor'
  <2>1. ~Charged(reqs[r]) /\ ~Charged(q)
    BY <1>1, <1>6 DEF Charged, Refundable
  <2> QED
    BY <1>1, <1>6, <1>7, <2>1, LedgerUntouched
<1>9. /\ usage' \in Seq(Entry) /\ KeptIsOfItsCards'
      /\ \A i, gen : Cites(usage, i, gen) => Cites(usage', i, gen)
      /\ usage' = Logged(r, "ok") => Cites(usage', Len(usage) + 1, reqs[r].gen)
  BY <1>2, <1>3, LogGrows
<1>10. q.pc = "answered" /\ q.id \notin {0, None} => Cites(usage', q.id, q.gen)
  BY <1>2, <1>6, <1>9
<1>11. quota' \in [Rows -> Nat] /\ ran' \in [Rows -> Nat] /\ lost' \in [Rows -> Nat]
  BY <1>1, Types DEF IInv
<1> QED
  BY <1>1, <1>6, <1>7, <1>8, <1>9, <1>10, <1>11, AnsweredInv

LEMMA SettleStep ==
  ASSUME IInv, NEW r \in Requests, Settle(r)
  PROVE  IInv'
<1> DEFINE q == Failed(reqs[r], r)
           row == reqs[r].row
<1>1. /\ reqs[r].pc = "answering" /\ reqs' = [reqs EXCEPT ![r] = q]
      /\ usage' \in {usage, Logged(r, Outcome(reqs[r].kind))}
      /\ UNCHANGED <<openUntil, ran, heard, panels, reports, now, day, events>>
  BY DEF Settle, At, clock
<1>2. \/ /\ reqs[r].kind \in Refundable /\ lost' = lost
         /\ quota' = [quota EXCEPT ![row] = IF quota[row] = 0 THEN 0 ELSE quota[row] - 1]
      \/ /\ reqs[r].kind \in Refundable /\ quota' = quota
         /\ lost' = [lost EXCEPT ![row] = lost[row] + 1]
      \/ reqs[r].kind \notin Refundable /\ UNCHANGED <<quota, lost>>
  BY DEF Settle, RefundRow
<1>3. reqs[r] \in Request /\ row \in Rows /\ reqs[r].user \in Users
  BY <1>1, Types DEF IInv, SlotsOK
<1>4. /\ q \in Request /\ q.pc \in {"idle", "answered"} /\ q.at \in {0, reqs[r].at}
      /\ q.pc = "answered" => q.id = None
  BY <1>3, FailedFields
<1> HIDE DEF q
<1>5. quota \in [Rows -> Nat] /\ ran \in [Rows -> Nat] /\ lost \in [Rows -> Nat] /\ Limit \in Nat
  BY Types, AiAssumption DEF IInv
<1>6. quota' \in [Rows -> Nat] /\ ran' \in [Rows -> Nat] /\ lost' \in [Rows -> Nat]
  <2> HIDE DEF row
  <2>1. quota[row] \in Nat /\ lost[row] \in Nat
    BY <1>3, <1>5
  <2>2. (IF quota[row] = 0 THEN 0 ELSE quota[row] - 1) \in Nat
    BY <2>1
  <2> QED
    BY <1>1, <1>2, <1>3, <1>5, <2>1, <2>2
<1>7. UnitsAccountedFor'
  <2>1. ASSUME NEW k \in Rows
        PROVE  /\ quota'[k] + ran[k] + lost[k] + Owes(reqs[r], k)
                    = quota[k] + ran'[k] + lost'[k] + Owes(q, k)
               /\ quota'[k] <= Limit
    <3>1. Owes(q, k) = 0
      BY <1>4 DEF Owes
    <3>2. Owes(reqs[r], k) = IF k = row /\ reqs[r].kind \in Refundable THEN 1 ELSE 0
      BY <1>1 DEF Owes
    <3>3. quota[k] <= Limit
      BY DEF IInv, UnitsAccountedFor
    \* The unit that is refunded is pending: the row is not at zero.
    <3>4. k = row /\ reqs[r].kind \in Refundable => quota[k] > 0
      <4>1. SUFFICES ASSUME Owes(reqs[r], k) = 1
                     PROVE  quota[k] > 0
        BY <3>2
      <4>2. /\ IsFiniteSet(Pending(k)) /\ Cardinality(Pending(k)) \in Nat
            /\ Pending(k) # {}
        BY <4>1, PendingCounted
      <4>3. Cardinality(Pending(k)) > 0
        BY <4>2, FS_EmptySet
      <4>4. quota[k] = ran[k] + lost[k] + Cardinality(Pending(k))
        BY DEF IInv, UnitsAccountedFor
      <4> QED
        BY <1>5, <4>2, <4>3, <4>4
    <3> HIDE DEF row
    <3>5. \/ /\ reqs[r].kind \in Refundable /\ lost'[k] = lost[k]
             /\ quota'[k] = IF k = row THEN quota[k] - 1 ELSE quota[k]
          \/ /\ reqs[r].kind \in Refundable /\ quota'[k] = quota[k]
             /\ lost'[k] = IF k = row THEN lost[k] + 1 ELSE lost[k]
          \/ reqs[r].kind \notin Refundable /\ quota'[k] = quota[k] /\ lost'[k] = lost[k]
      BY <1>2, <1>3, <1>5, <3>4
    <3> QED
      BY <1>1, <1>5, <3>1, <3>2, <3>3, <3>4, <3>5
  <2>2. reqs' = [reqs EXCEPT ![r] = q] /\ q \in Request
    BY <1>1, <1>4
  <2> QED
    BY <1>6, <2>1, <2>2, LedgerBalanced DEF IInv
<1>8. /\ usage' \in Seq(Entry) /\ KeptIsOfItsCards'
      /\ \A id, gen : Cites(usage, id, gen) => Cites(usage', id, gen)
  <2>1. Outcome(reqs[r].kind) \in {"ok", "quota", "rate_limited", "error"}
    BY DEF Outcome
  <2> QED
    BY <1>1, <1>3, <2>1, LogGrows
<1> QED
  BY <1>1, <1>4, <1>6, <1>7, <1>8, AnsweredInv

-----------------------------------------------------------------------------
(* Reports, crashes and the clock.                                         *)

\* A kept count is written to the row whose generation the report names.
LEMMA KeptStep ==
  ASSUME IInv, NEW rep \in reports, Kept(rep)
  PROVE  IInv'
<1>1. /\ usage' = IF usage[rep.id].user = rep.user
                  THEN [usage EXCEPT ![rep.id].kept = rep.of] ELSE usage
      /\ reports' = reports \ {rep}
      /\ UNCHANGED <<quota, openUntil, ran, lost, heard, reqs, panels, now, day, events>>
  BY DEF Kept, clock
<1>2. rep.of \in Nat /\ rep.id \in DOMAIN usage /\ usage[rep.id].gen = rep.of
  BY DEF IInv, IdsOK, Cites
<1>3. usage \in Seq(Entry)
  BY Types DEF IInv
<1>4. usage[rep.id] \in Entry /\ DOMAIN usage = 1..Len(usage)
  BY <1>2, <1>3
<1> DEFINE e == [usage[rep.id] EXCEPT !.kept = rep.of]
<1>5. e \in Entry /\ e.gen = rep.of /\ e.kept = rep.of
  BY <1>2, <1>4 DEF Entry
<1>6. usage' = [usage EXCEPT ![rep.id] = e] \/ usage' = usage
  BY <1>1
<1> HIDE DEF e
<1>7. /\ usage' \in Seq(Entry) /\ DOMAIN usage' = DOMAIN usage
      /\ \A i \in DOMAIN usage : usage'[i] = usage[i] \/ (i = rep.id /\ usage'[i] = e)
  BY <1>2, <1>3, <1>4, <1>5, <1>6
<1>8. KeptIsOfItsCards'
  BY <1>5, <1>7 DEF IInv, KeptIsOfItsCards
<1>9. \A id, gen : Cites(usage, id, gen) => Cites(usage', id, gen)
  BY <1>2, <1>5, <1>7 DEF Cites
<1>10. IdsOK'
  BY <1>1, <1>9 DEF IInv, IdsOK
<1>11. TypeOK'
  BY <1>1, <1>7, Types, TypesAgain DEF IInv
<1> QED
  BY <1>1, <1>8, <1>10, <1>11, SlotsAlone DEF IInv, TrippedLast

LEMMA KeptLostStep ==
  ASSUME IInv, NEW rep \in reports, KeptLost(rep)
  PROVE  IInv'
<1>1. /\ reports' = reports \ {rep}
      /\ UNCHANGED <<quota, usage, openUntil, ran, lost, heard, reqs, panels, now, day, events>>
  BY DEF KeptLost, service, clock
<1>2. IdsOK'
  BY <1>1 DEF IInv, IdsOK
<1> QED
  BY <1>1, <1>2, SlotsAlone, PanelsAlone, Types DEF IInv

LEMMA CrashStep ==
  ASSUME IInv, Crash
  PROVE  IInv'
<1>1. /\ openUntil' = 0 /\ heard' = None /\ events' = events + 1
      /\ lost' = [k \in Rows |-> lost[k] + Cardinality(Pending(k))]
      /\ UNCHANGED <<quota, usage, ran, panels, reports, now, day>>
  BY DEF Crash, clock
<1>2. reqs' = [r \in Requests |-> IF reqs[r].pc \in {"claiming", "calling", "answering"}
                                  THEN Failed(reqs[r], r) ELSE reqs[r]]
  BY DEF Crash
<1>3. ASSUME NEW r \in Requests
      PROVE  /\ reqs'[r] \in Request
             /\ \/ reqs'[r] = reqs[r] /\ reqs[r].pc \notin {"claiming", "calling", "answering"}
                \/ /\ reqs'[r].pc \in {"idle", "answered"} /\ reqs'[r].at \in {0, reqs[r].at}
                   /\ reqs'[r].pc = "answered" => reqs'[r].id = None
  <2>1. reqs[r] \in Request
    BY Types DEF IInv
  <2>2. CASE reqs[r].pc \in {"claiming", "calling", "answering"}
    BY <1>2, <2>1, <2>2, FailedFields
  <2>3. CASE reqs[r].pc \notin {"claiming", "calling", "answering"}
    BY <1>2, <2>1, <2>3
  <2> QED
    BY <2>2, <2>3
<1>4. reqs' \in [Requests -> Request]
  BY <1>2, <1>3
<1>5. \A k \in Rows : Cardinality(Pending(k)) \in Nat
  BY PendingCounted
<1>6. quota \in [Rows -> Nat] /\ ran \in [Rows -> Nat] /\ lost \in [Rows -> Nat]
  BY Types DEF IInv
<1>7. lost' \in [Rows -> Nat]
  BY <1>1, <1>5, <1>6
<1>8. TypeOK'
  <2>1. events' \in Nat /\ heard' \in Nat \cup {None} /\ openUntil' \in Nat
    BY <1>1, Types DEF IInv
  <2> QED
    BY <1>1, <1>4, <1>6, <1>7, <2>1, Types, TypesAgain DEF IInv
<1>9. SlotsOK'
  <2>1. now \in Nat
    BY Types DEF IInv
  <2> QED
    BY <1>1, <1>3, <2>1 DEF IInv, SlotsOK
<1>10. UnitsAccountedFor'
  <2>1. ASSUME NEW k \in Rows
        PROVE  /\ quota'[k] = ran'[k] + lost'[k] + Cardinality(Pending(k)')
               /\ quota'[k] <= Limit
    <3>1. Pending(k)' = {}
      BY <1>3 DEF Pending, At
    <3>2. Cardinality(Pending(k)') = 0
      BY <3>1, FS_EmptySet
    <3>3. /\ quota[k] = ran[k] + lost[k] + Cardinality(Pending(k))
          /\ quota[k] <= Limit
      BY DEF IInv, UnitsAccountedFor
    <3>4. lost'[k] = lost[k] + Cardinality(Pending(k))
      BY <1>1
    <3> QED
      BY <1>1, <1>5, <1>6, <3>2, <3>3, <3>4
  <2> QED
    BY <2>1 DEF UnitsAccountedFor
<1>11. TrippedLast' /\ BreakerHolds'
  BY <1>1 DEF TrippedLast, BreakerHolds
<1>12. IdsOK'
  BY <1>1, <1>3 DEF IInv, IdsOK
<1> QED
  BY <1>1, <1>8, <1>9, <1>10, <1>11, <1>12 DEF IInv, KeptIsOfItsCards

\* Nothing but the clock: a tick, or midnight.
LEMMA ClockStep ==
  ASSUME IInv, Tick \/ Midnight
  PROVE  IInv'
<1>1. /\ UNCHANGED <<quota, usage, openUntil, ran, lost, heard, reqs, panels, reports, events>>
      /\ \/ now' = now + 1 /\ day' = day
         \/ now' = now /\ day < MaxDay /\ day' = day + 1
  BY DEF Tick, Midnight, service
<1>2. now \in Nat /\ day \in 0..MaxDay /\ MaxDay \in Nat
  BY Types, AiAssumption DEF IInv
<1>3. now' \in Nat /\ now <= now' /\ day' \in 0..MaxDay
  BY <1>1, <1>2
<1>4. TypeOK'
  BY <1>1, <1>3, Types, TypesAgain DEF IInv
<1>5. SlotsOK'
  <2>1. \A r \in Requests : reqs[r].at \in Nat
    BY Types, RequestFields DEF IInv
  <2> QED
    BY <1>1, <1>2, <1>3, <2>1 DEF IInv, SlotsOK
<1>6. TrippedLast'
  BY <1>1, <1>2, <1>3 DEF IInv, TrippedLast
<1>7. UnitsAccountedFor'
  <2>1. \A k \in Rows : Pending(k)' = Pending(k)
    BY <1>1 DEF Pending, At
  <2>2. \A k \in Rows : Cardinality(Pending(k)') = Cardinality(Pending(k))
    BY <2>1
  <2> QED
    BY <1>1, <2>2 DEF IInv, UnitsAccountedFor
<1> QED
  BY <1>1, <1>4, <1>5, <1>6, <1>7 DEF IInv, BreakerHolds, IdsOK, KeptIsOfItsCards

-----------------------------------------------------------------------------
(* The theorems.                                                           *)

LEMMA InitInv == Init => IInv
<1> SUFFICES ASSUME Init PROVE IInv
  OBVIOUS
<1>1. \A r \in Requests : reqs[r] = Idle
  BY DEF Init
<1>2. /\ quota = [k \in Rows |-> 0] /\ ran = [k \in Rows |-> 0] /\ lost = [k \in Rows |-> 0]
      /\ usage = <<>> /\ openUntil = 0 /\ reports = {} /\ now = 0 /\ day = 0 /\ events = 0
      /\ heard = None /\ reqs = [r \in Requests |-> Idle]
      /\ panels = [p \in Panels |-> EmptyPanel]
  BY DEF Init
<1>3. TypeOK
  <2>1. EmptyPanel \in Panel
    BY DEF EmptyPanel, Panel
  <2>2. panels \in [Panels -> Panel] /\ reqs \in [Requests -> Request] /\ usage \in Seq(Entry)
    BY <1>2, <2>1, IdleFields
  <2>3. 0 \in 0..MaxDay
    BY AiAssumption
  <2> QED
    BY <1>2, <2>2, <2>3 DEF TypeOK, Request, Entry, Panel
<1>4. SlotsOK
  BY <1>1, <1>2, IdleFields DEF SlotsOK
<1>5. UnitsAccountedFor
  <2>1. ASSUME NEW k \in Rows
        PROVE  Cardinality(Pending(k)) = 0
    <3>1. Pending(k) = {}
      BY <1>1, IdleFields DEF Pending, At
    <3> QED
      BY <3>1, FS_EmptySet
  <2> QED
    BY <1>2, <2>1, AiAssumption DEF UnitsAccountedFor
<1>6. TrippedLast /\ BreakerHolds
  BY <1>2 DEF TrippedLast, BreakerHolds
<1>7. IdsOK /\ KeptIsOfItsCards
  BY <1>1, <1>2, IdleFields DEF IdsOK, KeptIsOfItsCards, EmptyPanel
<1> QED
  BY <1>3, <1>4, <1>5, <1>6, <1>7 DEF IInv

LEMMA StepInv == IInv /\ [Next]_vars => IInv'
<1> SUFFICES ASSUME IInv, [Next]_vars PROVE IInv'
  OBVIOUS
<1>1. ASSUME NEW p \in Panels, PanelStep(p) PROVE IInv'
  BY <1>1, GenerateStep, HearStep, GiveUpStep, CancelStep, SaveKeptStep DEF PanelStep
<1>2. ASSUME NEW r \in Requests, RequestStep(r) PROVE IInv'
  BY <1>2, DropStep, ReceiveStep, ClaimStep, ClaimRefusedStep, ClaimFailsStep,
     ProviderAnswersStep, SucceedStep, SettleStep DEF RequestStep
<1>3. ASSUME NEW rep \in reports, ReportStep(rep) PROVE IInv'
  BY <1>3, KeptStep, KeptLostStep DEF ReportStep
<1>4. CASE UNCHANGED vars
  <2>1. UNCHANGED <<reqs, quota, usage, openUntil, ran, lost, heard, panels, reports, now, day, events>>
    BY <1>4 DEF vars
  <2>2. reqs' \in [Requests -> Request] /\ SlotsOK' /\ BreakerHolds' /\ UnitsAccountedFor'
    BY <2>1, SlotsAlone
  <2>3. IdsOK' /\ panels' \in [Panels -> Panel]
    BY <2>1, Types DEF IInv, IdsOK
  <2> QED
    BY <2>1, <2>2, <2>3, PanelsAlone
<1> QED
  BY <1>1, <1>2, <1>3, <1>4, CrashStep, ClockStep DEF Next

\* The inductive invariant holds in every state the specification reaches.
THEOREM Invariance == Spec => []IInv
BY InitInv, StepInv, PTL DEF Spec

\* The variables of the ai-service and its panels keep their types.
THEOREM TypeCorrect == Spec => []TypeOK
<1>1. IInv => TypeOK
  BY DEF IInv
<1> QED
  BY <1>1, Invariance, PTL

\* However many requests, refunds and crashes interleave (server.ts:59-121,
\* quota.ts:32-41), each unit of a student's day is accounted for and no day
\* exceeds the limit.
THEOREM QuotaExact == Spec => []UnitsAccountedFor
<1>1. IInv => UnitsAccountedFor
  BY DEF IInv
<1> QED
  BY <1>1, Invariance, PTL

\* The breaker (breaker.ts) lets nobody past for the cool-off after the last 429.
THEOREM BreakerSafe == Spec => []BreakerHolds
<1>1. IInv => BreakerHolds
  BY DEF IInv
<1> QED
  BY <1>1, Invariance, PTL

\* Kept counts (usage.ts, FlashcardsPanel.tsx) are stored with the generation
\* whose cards were kept.
THEOREM KeptIsOwn == Spec => []KeptIsOfItsCards
<1>1. IInv => KeptIsOfItsCards
  BY DEF IInv
<1> QED
  BY <1>1, Invariance, PTL
=============================================================================
