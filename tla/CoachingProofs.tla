--------------------------- MODULE CoachingProofs ---------------------------
(***************************************************************************)
(* Theorems about the composition Coaching, for any people, groups,        *)
(* requests and clocks, any page and any times of cache and fetch, and     *)
(* their proofs.                                                           *)
(*                                                                         *)
(* The memberships of Organisation first.  That heads stay needs only that *)
(* memberships are a table and requests records; that an expulsion holds   *)
(* needs besides that nobody who is out has a way in.                      *)
(*                                                                         *)
(* Then the rosters: no answer is made from a roster that has been out of  *)
(* date for longer than the cache's time and a fetch.  The proof follows a *)
(* roster from the two statements that read it through the cache; that a   *)
(* request names a group at all is the page's doing, so the invariant      *)
(* follows the page as far as its selection.                               *)
(*                                                                         *)
(* Last the page: what it shows, or still waits for, or has missed, is     *)
(* what is selected.                                                       *)
(***************************************************************************)
EXTENDS Coaching, TLAPS, SequenceTheorems

Job == [op : {"none", "group", "head", "invite", "revoke", "join", "remove"},
        pc : {"idle", "belongs", "write"}, group : Groups \cup {None},
        user : People \cup {None}, code : Nat]

Code == [group : Groups \cup {None}, alive : BOOLEAN]

\* A removal names a group and a person, so that it empties a field of the table.
RemovalsNamed ==
  \A s \in Slots : jobs[s].op = "remove" => jobs[s].group \in Groups /\ jobs[s].user \in People

TablesOK ==
  /\ codes \in Seq(Code)
  /\ rows \in [Groups -> [People -> Roles]]
  /\ jobs \in [Slots -> Job]
  /\ RemovalsNamed

\* Out, and no request past its check or usable code leads in.
OutForGood ==
  \A e \in expelled :
    /\ e \in Groups \X People /\ rows[e[1]][e[2]] = "none"
    /\ \A k \in DOMAIN codes : codes[k].group = e[1] => codes[k].alive = FALSE
    /\ \A s \in Slots : jobs[s].op \in {"join", "head"} =>
                          ~(jobs[s].group = e[1] /\ jobs[s].user = e[2])

IInv == TablesOK /\ OutForGood

-----------------------------------------------------------------------------
(* Slots, the table of memberships, the table of codes.                    *)

NewJob(op, pc, g, u, k) == [op |-> op, pc |-> pc, group |-> g, user |-> u, code |-> k]

LEMMA IdleJob == Idle \in Job /\ Idle.op = "none"
BY DEF Idle, Job

\* A slot becomes idle, or takes a request.
LEMMA SlotFreed ==
  ASSUME TablesOK, NEW s \in Slots, jobs' = [jobs EXCEPT ![s] = Idle]
  PROVE  /\ jobs' \in [Slots -> Job] /\ jobs'[s] = Idle
         /\ \A r \in Slots : jobs'[r] = jobs[r] \/ jobs'[r].op = "none"
         /\ RemovalsNamed'
BY IdleJob DEF TablesOK, RemovalsNamed

LEMMA SlotTaken ==
  ASSUME TablesOK, NEW s \in Slots, NEW j \in Job, jobs' = [jobs EXCEPT ![s] = j],
         j.op = "remove" => j.group \in Groups /\ j.user \in People
  PROVE  /\ jobs' \in [Slots -> Job] /\ jobs'[s] = j
         /\ \A r \in Slots : r # s => jobs'[r] = jobs[r]
         /\ RemovalsNamed'
BY DEF TablesOK, RemovalsNamed

\* ON CONFLICT: a membership is written without lowering a head's.
LEMMA Raised ==
  ASSUME TablesOK, NEW g, NEW u, NEW role \in {"member", "head"}, AddMembership(g, u, role)
  PROVE  /\ rows' \in [Groups -> [People -> Roles]]
         /\ \A h \in Groups, p \in People :
              /\ rows[h][p] = "head" => rows'[h][p] = "head"
              /\ rows'[h][p] = rows[h][p] \/ (h = g /\ p = u)
<1>1. rows' = [rows EXCEPT ![g][u] = Upserted(rows[g][u], role)]
  BY DEF AddMembership
<1>2. CASE g \in Groups /\ u \in People
  <2>1. rows[g][u] \in Roles
    BY <1>2 DEF TablesOK
  <2>2. /\ Upserted(rows[g][u], role) \in Roles
        /\ rows[g][u] = "head" => Upserted(rows[g][u], role) = "head"
    BY <2>1 DEF Upserted, Roles
  <2> QED
    BY <1>1, <1>2, <2>2 DEF TablesOK
<1>3. CASE ~(g \in Groups /\ u \in People)
  BY <1>1, <1>3 DEF TablesOK
<1> QED
  BY <1>2, <1>3

\* An inserted code.
LEMMA CodeAdded ==
  ASSUME TablesOK, NEW g \in Groups \cup {None},
         codes' = Append(codes, [group |-> g, alive |-> TRUE])
  PROVE  /\ codes' \in Seq(Code)
         /\ \A k \in DOMAIN codes' :
              codes'[k].group # g => k \in DOMAIN codes /\ codes'[k] = codes[k]
<1> DEFINE c == [group |-> g, alive |-> TRUE]
<1>1. c \in Code /\ c.group = g
  BY DEF Code
<1>2. codes' = Append(codes, c) /\ codes \in Seq(Code)
  BY DEF TablesOK
<1> HIDE DEF c
<1>3. /\ codes' \in Seq(Code) /\ DOMAIN codes' = 1..(Len(codes) + 1)
      /\ DOMAIN codes = 1..Len(codes) /\ Len(codes) \in Nat
      /\ codes'[Len(codes) + 1] = c
      /\ \A k \in 1..Len(codes) : codes'[k] = codes[k]
  BY <1>1, <1>2
<1>4. ASSUME NEW k \in DOMAIN codes', codes'[k].group # g
      PROVE  k \in DOMAIN codes /\ codes'[k] = codes[k]
  <2>1. k # Len(codes) + 1
    BY <1>1, <1>3, <1>4
  <2> QED
    BY <1>3, <2>1
<1> QED
  BY <1>3, <1>4

\* A code that is revoked or expires.
LEMMA CodeKilled ==
  ASSUME TablesOK, NEW i, codes' = [codes EXCEPT ![i].alive = FALSE]
  PROVE  /\ codes' \in Seq(Code) /\ DOMAIN codes' = DOMAIN codes
         /\ \A k \in DOMAIN codes :
              codes'[k].group = codes[k].group /\ (codes[k].alive = FALSE => codes'[k].alive = FALSE)
<1> DEFINE c == [codes[i] EXCEPT !.alive = FALSE]
<1>1. codes' = [codes EXCEPT ![i] = c] /\ codes \in Seq(Code)
  BY DEF TablesOK
<1>2. ASSUME i \in DOMAIN codes
      PROVE  c \in Code /\ c.group = codes[i].group /\ c.alive = FALSE
  <2>1. codes[i] \in Code
    BY <1>1, <1>2
  <2> QED
    BY <2>1 DEF Code
<1> HIDE DEF c
<1>3. PICK n \in Nat : codes \in [1..n -> Code]
  BY <1>1, SeqDef
<1>4. codes' \in [1..n -> Code]
  BY <1>1, <1>2, <1>3
<1>5. codes' \in Seq(Code)
  BY <1>4, SeqDef
<1>6. \A k \in 1..n : codes'[k] = IF k = i THEN c ELSE codes[k]
  BY <1>1, <1>3
<1> QED
  BY <1>2, <1>3, <1>4, <1>5, <1>6

-----------------------------------------------------------------------------
(* What keeps people out.                                                  *)

\* A request has no bearing on who is out: it leads nowhere, or where it led.
Harmless(j, old) ==
  \/ j.op \notin {"join", "head"}
  \/ j.op = old.op /\ j.group = old.group /\ j.user = old.user

\* The table is written for nobody who is out, the codes of their groups stay
\* unusable, and no request leads to them.
LEMMA OutStays ==
  ASSUME IInv, expelled' \subseteq expelled,
         \A e \in expelled' : rows'[e[1]][e[2]] = rows[e[1]][e[2]],
         \A e \in expelled', k \in DOMAIN codes' : codes'[k].group = e[1] =>
           /\ k \in DOMAIN codes /\ codes[k].group = e[1]
           /\ codes[k].alive = FALSE => codes'[k].alive = FALSE,
         \A e \in expelled', s \in Slots :
           Harmless(jobs'[s], jobs[s]) \/ ~(jobs'[s].group = e[1] /\ jobs'[s].user = e[2])
  PROVE  OutForGood'
<1> SUFFICES ASSUME NEW e \in expelled'
             PROVE  /\ e \in Groups \X People /\ rows'[e[1]][e[2]] = "none"
                    /\ \A k \in DOMAIN codes' : codes'[k].group = e[1] => codes'[k].alive = FALSE
                    /\ \A s \in Slots : jobs'[s].op \in {"join", "head"} =>
                                          ~(jobs'[s].group = e[1] /\ jobs'[s].user = e[2])
  BY DEF OutForGood
<1>1. /\ e \in Groups \X People /\ rows[e[1]][e[2]] = "none"
      /\ \A k \in DOMAIN codes : codes[k].group = e[1] => codes[k].alive = FALSE
      /\ \A s \in Slots : jobs[s].op \in {"join", "head"} =>
                            ~(jobs[s].group = e[1] /\ jobs[s].user = e[2])
  BY DEF IInv, OutForGood
<1>2. \A k \in DOMAIN codes' : codes'[k].group = e[1] => codes'[k].alive = FALSE
  BY <1>1
<1>3. \A s \in Slots : jobs'[s].op \in {"join", "head"} =>
                        ~(jobs'[s].group = e[1] /\ jobs'[s].user = e[2])
  BY <1>1 DEF Harmless
<1> QED
  BY <1>1, <1>2, <1>3

\* A step that changes requests only, and none for the worse.
LEMMA JobsOnly ==
  ASSUME IInv, UNCHANGED <<rows, codes>>, expelled' \subseteq expelled,
         jobs' \in [Slots -> Job], RemovalsNamed',
         \A e \in expelled', s \in Slots :
           Harmless(jobs'[s], jobs[s]) \/ ~(jobs'[s].group = e[1] /\ jobs'[s].user = e[2])
  PROVE  IInv'
<1>1. TablesOK'
  BY DEF IInv, TablesOK
<1>2. OutForGood'
  BY OutStays
<1> QED
  BY <1>1, <1>2 DEF IInv

\* A slot is freed, whatever else happens to the tables.
LEMMA FreedIsHarmless ==
  ASSUME TablesOK, NEW s \in Slots, jobs' = [jobs EXCEPT ![s] = Idle]
  PROVE  \A r \in Slots : Harmless(jobs'[r], jobs[r])
BY SlotFreed DEF Harmless

-----------------------------------------------------------------------------
(* The arrivals.                                                           *)

\* A request past its first check takes a slot; one that leads in is for somebody who
\* is not out.
LEMMA AskStep ==
  ASSUME IInv, NEW s \in Slots, NEW op \in {"group", "invite", "revoke", "remove", "head", "join"},
         NEW pc \in {"belongs", "write"}, NEW g \in Groups \cup {None},
         NEW u \in People \cup {None}, NEW k \in Nat, Continue(s, op, pc, g, u, k),
         UNCHANGED <<rows, codes>>, expelled' \subseteq expelled,
         op = "remove" => g \in Groups /\ u \in People,
         op \in {"head", "join"} => \A e \in expelled' : ~(g = e[1] /\ u = e[2])
  PROVE  IInv'
<1>1. jobs' = [jobs EXCEPT ![s] = NewJob(op, pc, g, u, k)]
  BY DEF Continue, NewJob
<1>2. /\ NewJob(op, pc, g, u, k) \in Job /\ NewJob(op, pc, g, u, k).op = op
      /\ NewJob(op, pc, g, u, k).group = g /\ NewJob(op, pc, g, u, k).user = u
  BY DEF NewJob, Job
<1>3. /\ jobs' \in [Slots -> Job] /\ jobs'[s] = NewJob(op, pc, g, u, k)
      /\ \A r \in Slots : r # s => jobs'[r] = jobs[r]
      /\ RemovalsNamed'
  BY <1>1, <1>2, SlotTaken DEF IInv
<1>4. ASSUME NEW e \in expelled', NEW r \in Slots
      PROVE  Harmless(jobs'[r], jobs[r]) \/ ~(jobs'[r].group = e[1] /\ jobs'[r].user = e[2])
  BY <1>2, <1>3 DEF Harmless
<1> QED
  BY <1>3, <1>4, JobsOnly

\* The code is usable, so that nobody is out of its group.
LEMMA AskJoinStep ==
  ASSUME IInv, NEW s \in Slots, NEW by \in People, NEW k \in DOMAIN codes, AskJoin(s, by, k)
  PROVE  IInv'
<1>1. UNCHANGED <<rows, codes, expelled>>
  BY DEF AskJoin, orgTables
<1>2. CASE UNCHANGED jobs
  BY <1>1, <1>2, JobsOnly DEF IInv, TablesOK, Harmless, RemovalsNamed
<1>3. CASE CodeUsable(k) /\ Continue(s, "join", "write", codes[k].group, by, k)
  <2>1. codes[k] \in Code /\ k \in Nat
    BY DEF IInv, TablesOK
  <2>2. codes[k].group \in Groups \cup {None}
    BY <2>1 DEF Code
  <2>3. codes[k].alive # FALSE
    BY <1>3 DEF CodeUsable
  <2>4. \A e \in expelled' : codes[k].group # e[1]
    BY <1>1, <2>3 DEF IInv, OutForGood
  <2> QED
    BY <1>1, <1>3, <2>1, <2>2, <2>4, AskStep
<1> QED
  BY <1>2, <1>3 DEF AskJoin

LEMMA ArrivalStep == IInv /\ OrgArrival => IInv'
<1> SUFFICES ASSUME IInv, OrgArrival PROVE IInv'
  OBVIOUS
<1>1. ASSUME NEW by \in People, CreateOrganisation(by) PROVE IInv'
  <2>1. UNCHANGED <<rows, codes, expelled, jobs>>
    BY <1>1 DEF CreateOrganisation
  <2> QED
    BY <2>1, JobsOnly DEF IInv, TablesOK, Harmless, RemovalsNamed
<1>2. ASSUME NEW s \in Slots, NEW by \in People, NEW g \in Groups,
             AskGroup(s, by, g) \/ AskInvite(s, by, g)
      PROVE  IInv'
  <2>1. UNCHANGED <<rows, codes, expelled>>
    BY <1>2 DEF AskGroup, AskInvite, orgTables
  <2>2. CASE AskGroup(s, by, g)
    <3>1. Continue(s, "group", "write", g, None, 0)
      BY <2>2 DEF AskGroup
    <3> QED
      BY <2>1, <3>1, AskStep
  <2>3. CASE AskInvite(s, by, g)
    <3>1. Continue(s, "invite", "write", g, None, 0)
      BY <2>3 DEF AskInvite
    <3> QED
      BY <2>1, <3>1, AskStep
  <2> QED
    BY <1>2, <2>2, <2>3
<1>3. ASSUME NEW s \in Slots, NEW by \in People, NEW u \in People, NEW g \in Groups,
             AskHead(s, by, g, u)
      PROVE  IInv'
  <2>1. /\ UNCHANGED <<rows, codes>> /\ expelled' = expelled \ {<<g, u>>}
        /\ Continue(s, "head", "belongs", g, u, 0)
    BY <1>3 DEF AskHead, orgTables
  <2>2. \A e \in expelled' : e \in Groups \X People /\ e # <<g, u>>
    BY <2>1 DEF IInv, OutForGood
  <2>3. \A e \in expelled' : ~(g = e[1] /\ u = e[2])
    BY <2>2
  <2> QED
    BY <2>1, <2>3, AskStep
<1>4. ASSUME NEW s \in Slots, NEW by \in People, NEW u \in People, NEW g \in Groups,
             AskRemove(s, by, g, u)
      PROVE  IInv'
  <2>1. /\ UNCHANGED <<rows, codes, expelled>>
        /\ Continue(s, "remove", "write", g, u, 0)
    BY <1>4 DEF AskRemove, orgTables
  <2> QED
    BY <2>1, AskStep
<1>5. ASSUME NEW s \in Slots, NEW by \in People, NEW k \in DOMAIN codes, AskRevoke(s, by, k)
      PROVE  IInv'
  <2>1. /\ UNCHANGED <<rows, codes, expelled>>
        /\ Continue(s, "revoke", "write", codes[k].group, None, k)
    BY <1>5 DEF AskRevoke, orgTables
  <2>2. codes[k] \in Code /\ k \in Nat
    BY DEF IInv, TablesOK
  <2>3. codes[k].group \in Groups \cup {None}
    BY <2>2 DEF Code
  <2> QED
    BY <2>1, <2>2, <2>3, AskStep
<1> QED
  BY <1>1, <1>2, <1>3, <1>4, <1>5, AskJoinStep DEF OrgArrival

-----------------------------------------------------------------------------
(* What a request does past its check, and the rest.  Each step keeps the  *)
(* invariant, and keeps every head but the one it removes.                 *)

Removed(g, p) ==
  \E s \in Slots : /\ jobs[s].op = "remove" /\ jobs[s].group = g /\ jobs[s].user = p
                   /\ jobs'[s] = Idle /\ rows'[g][p] = "none"
HeadsKept ==
  \A g \in Groups, p \in People :
    rows[g][p] = "head" /\ rows'[g][p] # "head" => Removed(g, p)

\* AddHead and JoinByCode: a membership is written for the request's own user.
LEMMA EnrolStep ==
  ASSUME IInv, NEW s \in Slots, NEW role \in {"member", "head"}, jobs[s].op \in {"join", "head"},
         AddMembership(jobs[s].group, jobs[s].user, role), Finish(s),
         UNCHANGED <<codes, expelled>>
  PROVE  IInv' /\ HeadsKept
<1> DEFINE g == jobs[s].group
           u == jobs[s].user
<1>1. /\ rows' \in [Groups -> [People -> Roles]]
      /\ \A h \in Groups, p \in People :
           /\ rows[h][p] = "head" => rows'[h][p] = "head"
           /\ rows'[h][p] = rows[h][p] \/ (h = g /\ p = u)
  BY Raised DEF IInv
<1>2. jobs' = [jobs EXCEPT ![s] = Idle]
  BY DEF Finish
<1>3. jobs' \in [Slots -> Job] /\ RemovalsNamed' /\ \A r \in Slots : Harmless(jobs'[r], jobs[r])
  BY <1>2, SlotFreed, FreedIsHarmless DEF IInv
<1>4. TablesOK'
  BY <1>1, <1>3 DEF IInv, TablesOK
<1>5. \A e \in expelled' : e \in Groups \X People /\ ~(e[1] = g /\ e[2] = u)
  BY DEF IInv, OutForGood
<1>6. \A e \in expelled' : rows'[e[1]][e[2]] = rows[e[1]][e[2]]
  BY <1>1, <1>5
<1>7. OutForGood'
  BY <1>3, <1>6, OutStays
<1> QED
  BY <1>1, <1>4, <1>7 DEF IInv, HeadsKept

\* Who is removed is out when there is no way in; everybody else stays what they are.
LEMMA RemoveStep ==
  ASSUME IInv, NEW s \in Slots, RemoveMembership(s)
  PROVE  IInv' /\ HeadsKept
<1> DEFINE g == jobs[s].group
           u == jobs[s].user
<1>1. g \in Groups /\ u \in People
  BY DEF RemoveMembership, At, IInv, TablesOK, RemovalsNamed
<1>2. /\ rows' = [rows EXCEPT ![g][u] = "none"] /\ jobs' = [jobs EXCEPT ![s] = Idle]
      /\ expelled' = IF WayIn(g, u) THEN expelled ELSE expelled \cup {<<g, u>>}
      /\ codes' = codes /\ jobs[s].op = "remove"
  BY DEF RemoveMembership, Finish, At
<1>3. /\ jobs' \in [Slots -> Job] /\ jobs'[s] = Idle /\ RemovalsNamed'
      /\ \A r \in Slots : jobs'[r] = jobs[r] \/ jobs'[r].op = "none"
  BY <1>2, SlotFreed DEF IInv
<1>4. /\ rows' \in [Groups -> [People -> Roles]]
      /\ rows'[g][u] = "none"
      /\ \A h \in Groups, p \in People : rows'[h][p] = rows[h][p] \/ (h = g /\ p = u)
  BY <1>1, <1>2 DEF IInv, TablesOK, Roles
<1>5. TablesOK'
  BY <1>2, <1>3, <1>4 DEF IInv, TablesOK
<1>6. ASSUME NEW e \in expelled
      PROVE  /\ e \in Groups \X People /\ rows'[e[1]][e[2]] = "none"
             /\ \A k \in DOMAIN codes' : codes'[k].group = e[1] => codes'[k].alive = FALSE
             /\ \A r \in Slots : jobs'[r].op \in {"join", "head"} =>
                                   ~(jobs'[r].group = e[1] /\ jobs'[r].user = e[2])
  <2>1. /\ e \in Groups \X People /\ rows[e[1]][e[2]] = "none"
        /\ \A k \in DOMAIN codes : codes[k].group = e[1] => codes[k].alive = FALSE
        /\ \A r \in Slots : jobs[r].op \in {"join", "head"} =>
                              ~(jobs[r].group = e[1] /\ jobs[r].user = e[2])
    BY DEF IInv, OutForGood
  <2>2. rows'[e[1]][e[2]] = "none"
    BY <1>4, <2>1
  <2> QED
    BY <1>2, <1>3, <2>1, <2>2
<1>7. ASSUME ~WayIn(g, u), NEW e, e = <<g, u>>
      PROVE  /\ e \in Groups \X People /\ rows'[e[1]][e[2]] = "none"
             /\ \A k \in DOMAIN codes' : codes'[k].group = e[1] => codes'[k].alive = FALSE
             /\ \A r \in Slots : jobs'[r].op \in {"join", "head"} =>
                                   ~(jobs'[r].group = e[1] /\ jobs'[r].user = e[2])
  <2>1. e \in Groups \X People /\ e[1] = g /\ e[2] = u
    BY <1>1, <1>7
  <2>2. ASSUME NEW k \in DOMAIN codes, codes[k].group = g
        PROVE  codes[k].alive = FALSE
    <3>1. codes[k] \in Code
      BY DEF IInv, TablesOK
    <3>2. codes[k].alive \in BOOLEAN
      BY <3>1 DEF Code
    <3>3. ~codes[k].alive
      BY <1>7, <2>2 DEF WayIn
    <3> QED
      BY <3>2, <3>3
  <2>3. \A r \in Slots : jobs[r].op \in {"join", "head"} => ~(jobs[r].group = g /\ jobs[r].user = u)
    BY <1>7 DEF WayIn
  <2> HIDE DEF g, u
  <2>4. rows'[e[1]][e[2]] = "none"
    BY <1>4, <2>1
  <2>5. \A k \in DOMAIN codes' : codes'[k].group = e[1] => codes'[k].alive = FALSE
    BY <1>2, <2>1, <2>2
  <2>6. \A r \in Slots : jobs'[r].op \in {"join", "head"} =>
                          ~(jobs'[r].group = e[1] /\ jobs'[r].user = e[2])
    BY <1>3, <2>1, <2>3
  <2> QED
    BY <2>1, <2>4, <2>5, <2>6
<1>8. OutForGood'
  BY <1>2, <1>6, <1>7 DEF OutForGood
<1>9. HeadsKept
  BY <1>2, <1>3, <1>4 DEF HeadsKept, Removed
<1> QED
  BY <1>5, <1>8, <1>9 DEF IInv

LEMMA RowsStay == ASSUME UNCHANGED rows PROVE HeadsKept
BY DEF HeadsKept

\* CreateGroup and JobFails.
LEMMA FreeStep ==
  ASSUME IInv, NEW s \in Slots, Finish(s), UNCHANGED <<rows, codes, expelled>>
  PROVE  IInv'
<1>1. jobs' = [jobs EXCEPT ![s] = Idle]
  BY DEF Finish
<1>2. jobs' \in [Slots -> Job] /\ RemovalsNamed' /\ \A r \in Slots : Harmless(jobs'[r], jobs[r])
  BY <1>1, SlotFreed, FreedIsHarmless DEF IInv
<1> QED
  BY <1>2, JobsOnly

\* The appointment goes on, or has been refused.
LEMMA CheckBelongsStep ==
  ASSUME IInv, NEW s \in Slots, CheckBelongs(s)
  PROVE  IInv'
<1> DEFINE j == IF HasOrgMembership(jobs[s].user) THEN [jobs[s] EXCEPT !.pc = "write"] ELSE Idle
<1>1. /\ jobs' = [jobs EXCEPT ![s] = j] /\ jobs[s].op = "head"
      /\ UNCHANGED <<rows, codes, expelled>>
  BY DEF CheckBelongs, At, orgTables
<1>2. jobs[s] \in Job
  BY DEF IInv, TablesOK
<1>3. /\ j \in Job /\ j.op # "remove"
      /\ Harmless(j, jobs[s])
  BY <1>1, <1>2, IdleJob DEF Job, Harmless
<1> HIDE DEF j
<1>4. /\ jobs' \in [Slots -> Job] /\ jobs'[s] = j /\ RemovalsNamed'
      /\ \A r \in Slots : r # s => jobs'[r] = jobs[r]
  BY <1>1, <1>3, SlotTaken DEF IInv
<1>5. \A r \in Slots : Harmless(jobs'[r], jobs[r])
  BY <1>3, <1>4 DEF Harmless
<1> QED
  BY <1>1, <1>4, <1>5, JobsOnly

\* From now on there is a way into the group, and nobody is out of it.
LEMMA InviteStep ==
  ASSUME IInv, NEW s \in Slots, CreateInviteCode(s)
  PROVE  IInv'
<1> DEFINE g == jobs[s].group
<1>1. /\ codes' = Append(codes, [group |-> g, alive |-> TRUE]) /\ rows' = rows
      /\ expelled' = {e \in expelled : e[1] # g} /\ jobs' = [jobs EXCEPT ![s] = Idle]
  BY DEF CreateInviteCode, Finish
<1>2. jobs[s] \in Job
  BY DEF IInv, TablesOK
<1>3. g \in Groups \cup {None}
  BY <1>2 DEF Job
<1>4. /\ codes' \in Seq(Code)
      /\ \A k \in DOMAIN codes' : codes'[k].group # g => k \in DOMAIN codes /\ codes'[k] = codes[k]
  BY <1>1, <1>3, CodeAdded DEF IInv
<1>5. jobs' \in [Slots -> Job] /\ RemovalsNamed' /\ \A r \in Slots : Harmless(jobs'[r], jobs[r])
  BY <1>1, SlotFreed, FreedIsHarmless DEF IInv
<1>6. TablesOK'
  BY <1>1, <1>4, <1>5 DEF IInv, TablesOK
<1>7. expelled' \subseteq expelled /\ \A e \in expelled' : e[1] # g
  BY <1>1
<1> HIDE DEF g
<1>8. OutForGood'
  BY <1>1, <1>4, <1>5, <1>7, OutStays
<1> QED
  BY <1>6, <1>8 DEF IInv

\* RevokeInviteCode and CodeExpires.
LEMMA CodeStep ==
  ASSUME IInv, NEW i, codes' = [codes EXCEPT ![i].alive = FALSE], UNCHANGED <<rows, expelled>>,
         jobs' \in [Slots -> Job], RemovalsNamed', \A r \in Slots : Harmless(jobs'[r], jobs[r])
  PROVE  IInv'
<1>1. /\ codes' \in Seq(Code) /\ DOMAIN codes' = DOMAIN codes
      /\ \A k \in DOMAIN codes :
           codes'[k].group = codes[k].group /\ (codes[k].alive = FALSE => codes'[k].alive = FALSE)
  BY CodeKilled DEF IInv
<1>2. TablesOK'
  BY <1>1 DEF IInv, TablesOK
<1>3. OutForGood'
  BY <1>1, OutStays
<1> QED
  BY <1>2, <1>3 DEF IInv

LEMMA JobsSame ==
  ASSUME IInv, UNCHANGED jobs
  PROVE  jobs' \in [Slots -> Job] /\ RemovalsNamed' /\ \A r \in Slots : Harmless(jobs'[r], jobs[r])
BY DEF IInv, TablesOK, RemovalsNamed, Harmless

LEMMA ServiceStep == IInv /\ OrgStep => IInv' /\ HeadsKept
<1> SUFFICES ASSUME IInv, OrgStep PROVE IInv' /\ HeadsKept
  OBVIOUS
<1>1. ASSUME NEW s \in Slots, CreateGroup(s) \/ JobFails(s) PROVE IInv' /\ HeadsKept
  <2>1. Finish(s) /\ UNCHANGED <<rows, codes, expelled>>
    BY <1>1 DEF CreateGroup, JobFails, orgTables
  <2> QED
    BY <2>1, FreeStep, RowsStay
<1>2. ASSUME NEW s \in Slots, CheckBelongs(s) PROVE IInv' /\ HeadsKept
  BY <1>2, CheckBelongsStep, RowsStay DEF CheckBelongs, orgTables
<1>3. ASSUME NEW s \in Slots, AddHead(s) PROVE IInv' /\ HeadsKept
  <2>1. /\ jobs[s].op = "head" /\ AddMembership(jobs[s].group, jobs[s].user, "head")
        /\ Finish(s) /\ UNCHANGED <<codes, expelled>>
    BY <1>3 DEF AddHead, At
  <2> QED
    BY <2>1, EnrolStep
<1>4. ASSUME NEW s \in Slots, JoinByCode(s) PROVE IInv' /\ HeadsKept
  <2>1. /\ jobs[s].op = "join" /\ AddMembership(jobs[s].group, jobs[s].user, "member")
        /\ Finish(s) /\ UNCHANGED <<codes, expelled>>
    BY <1>4 DEF JoinByCode, At
  <2> QED
    BY <2>1, EnrolStep
<1>5. ASSUME NEW s \in Slots, CreateInviteCode(s) PROVE IInv' /\ HeadsKept
  BY <1>5, InviteStep, RowsStay DEF CreateInviteCode
<1>6. ASSUME NEW s \in Slots, RevokeInviteCode(s) PROVE IInv' /\ HeadsKept
  <2>1. /\ codes' = [codes EXCEPT ![jobs[s].code].alive = FALSE]
        /\ jobs' = [jobs EXCEPT ![s] = Idle] /\ UNCHANGED <<rows, expelled>>
    BY <1>6 DEF RevokeInviteCode, Finish
  <2>2. jobs' \in [Slots -> Job] /\ RemovalsNamed' /\ \A r \in Slots : Harmless(jobs'[r], jobs[r])
    BY <2>1, SlotFreed, FreedIsHarmless DEF IInv
  <2> QED
    BY <2>1, <2>2, CodeStep, RowsStay
<1>7. ASSUME NEW s \in Slots, RemoveMembership(s) PROVE IInv' /\ HeadsKept
  BY <1>7, RemoveStep
<1>8. ASSUME NEW k \in DOMAIN codes, CodeExpires(k) PROVE IInv' /\ HeadsKept
  <2>1. codes' = [codes EXCEPT ![k].alive = FALSE] /\ UNCHANGED <<rows, expelled, jobs>>
    BY <1>8 DEF CodeExpires
  <2> QED
    BY <2>1, JobsSame, CodeStep, RowsStay
<1>9. CASE AuthRestarts
  <2>1. jobs' = [s \in Slots |-> Idle] /\ UNCHANGED <<rows, codes, expelled>>
    BY <1>9 DEF AuthRestarts, orgTables
  <2>2. jobs' \in [Slots -> Job] /\ RemovalsNamed' /\ \A r \in Slots : Harmless(jobs'[r], jobs[r])
    BY <2>1, IdleJob DEF RemovalsNamed, Harmless
  <2> QED
    BY <2>1, <2>2, JobsOnly, RowsStay
<1> QED
  BY <1>1, <1>2, <1>3, <1>4, <1>5, <1>6, <1>7, <1>8, <1>9 DEF OrgStep

\* The page, the cache and the clock touch none of it.
LEMMA ElseStep == IInv /\ UNCHANGED <<rows, codes, jobs, expelled>> => IInv' /\ HeadsKept
BY JobsSame, JobsOnly, RowsStay

LEMMA ArrivalKeepsRows == OrgArrival => UNCHANGED rows
BY DEF OrgArrival, CreateOrganisation, AskGroup, AskInvite, AskHead, AskRemove, AskJoin, AskRevoke,
       orgTables

LEMMA StepInv == IInv /\ [Next]_vars => IInv' /\ HeadsKept
<1> SUFFICES ASSUME IInv, [Next]_vars PROVE IInv' /\ HeadsKept
  OBVIOUS
<1>1. CASE OrganisationMoves
  <2>1. CASE OrgStep
    BY <2>1, ServiceStep
  <2>2. CASE OrgArrival
    BY <2>2, ArrivalStep, ArrivalKeepsRows, RowsStay
  <2> QED
    BY <1>1, <2>1, <2>2 DEF OrganisationMoves
<1>2. CASE PageMoves
  <2>1. UNCHANGED orgVars
    BY <1>2 DEF PageMoves, LoadMemberships, LoadGroups, LoadFails, OpenCoaching, SelectGroup,
                ChangeView, OpenStudent
  <2> QED
    BY <2>1, ElseStep DEF orgVars, orgTables
<1>3. CASE \E a \in Asks : AskMoves(a)
  <2>1. UNCHANGED orgVars
    BY <1>3 DEF AskMoves, Gate, ReadMembers, RosterArrives, AskFails, AnswerArrives
  <2> QED
    BY <2>1, ElseStep DEF orgVars, orgTables
<1>4. CASE ContentRestarts \/ Tick \/ UNCHANGED vars
  <2>1. UNCHANGED <<rows, codes, jobs, expelled>>
    BY <1>4 DEF ContentRestarts, Tick, vars, orgVars, orgTables
  <2> QED
    BY <2>1, ElseStep
<1> QED
  BY <1>1, <1>2, <1>3, <1>4 DEF Next

LEMMA InitInv == Init => IInv
<1> SUFFICES ASSUME OrgInit PROVE IInv
  BY DEF Init
<1>1. /\ codes = <<>> /\ expelled = {} /\ jobs = [s \in Slots |-> Idle]
      /\ rows \in [Groups -> [People -> Roles]]
  BY DEF OrgInit, Roles
<1> QED
  BY <1>1, IdleJob DEF IInv, TablesOK, OutForGood, RemovalsNamed

-----------------------------------------------------------------------------
\* Memberships, codes and requests are well-formed, and nobody who is out has a way
\* in, in every reachable state.
THEOREM Invariance == Spec => []IInv
BY InitInv, StepInv, PTL DEF Spec

\* A head stops being one only by a removal (orgStore.ts, addMembership).
THEOREM HeadsAreKept == Spec => HeadsStay
<1>1. IInv /\ [Next]_vars =>
        [\A g \in Groups, p \in People :
           rows[g][p] = "head" /\ rows'[g][p] # "head" =>
             \E s \in Slots : jobs[s].op = "remove" /\ jobs[s].group = g /\ jobs[s].user = p
                              /\ jobs'[s] = Idle /\ rows'[g][p] = "none"]_orgVars
  BY StepInv DEF HeadsKept, Removed
<1> QED
  BY <1>1, Invariance, PTL DEF Spec, HeadsStay

\* Someone removed while nothing leads them in stays out until something new does
\* (orgStore.ts, inviteStore.ts).
THEOREM ExpelledStayOut == Spec => []ExpulsionHolds
<1>1. IInv => ExpulsionHolds
  BY DEF IInv, OutForGood, ExpulsionHolds
<1> QED
  BY <1>1, Invariance, PTL

-----------------------------------------------------------------------------
(* The rosters.                                                            *)

AnAsk == [what : {"none", "summary", "students", "student", "left"},
          pc : {"idle", "gate", "members", "arriving", "answering", "failed"},
          group : Groups \cup {None}, view : Views,
          student : People \cup {None}, since : Nat, roster : Rosters]
APage == [stage : {"closed", "memberships", "groups", "ready", "student"},
          options : SUBSET Groups, selected : Groups \cup {None}, view : Views,
          summary : Groups \cup {None}, list : (Groups \cup {None}) \X Views,
          listed : SUBSET People, student : People \cup {None}, error : BOOLEAN,
          missed : SUBSET {"summary", "students"}]
Entry == [at : Nat, roster : Rosters, there : BOOLEAN]

\* Groups have been created under their names.
GroupsKnown ==
  groups \subseteq Groups /\ \A s \in Slots : jobs[s].op = "group" => jobs[s].group \in Groups

\* A question is about a group; one that has been answered is still the page's.
Asked(k) ==
  /\ k.pc = "idle" => k = NoAsk
  /\ k.pc # "idle" => /\ k.group \in Groups /\ k.what # "none"
                      /\ k.pc \in {"answering", "failed"} => k.what # "left"

\* The page asks only for groups, and has a summary only of a group it selected.
PageOK ==
  /\ page \in APage /\ asks \in [Asks -> AnAsk]
  /\ \A a \in Asks : Asked(asks[a])
  /\ page.selected = None => /\ page.summary = None
                             /\ \A a \in Asks : asks[a].what # "summary"

ClockOK ==
  now \in Nat /\ changed \in [Groups -> Nat] /\ \A g \in Groups : changed[g] <= now

\* What a fetch has read of a roster is the present one's, or was when it began.
FetchOK(a) ==
  /\ Fetching(a) => asks[a].since <= now /\ now <= asks[a].since + FetchTime
  /\ asks[a].pc = "members" => \/ asks[a].roster.role = Roster(asks[a].group).role
                               \/ changed[asks[a].group] >= asks[a].since
  /\ asks[a].pc = "arriving" => \/ asks[a].roster = Roster(asks[a].group)
                                \/ changed[asks[a].group] >= asks[a].since

\* So is what is cached, with the time of its fetch.
CacheOK ==
  /\ cache \in [Groups -> Entry]
  /\ \A g \in Groups : cache[g].there = TRUE =>
       /\ cache[g].at <= now
       /\ cache[g].roster = Roster(g) \/ changed[g] + FetchTime >= cache[g].at

FetchesOK == \A a \in Asks : FetchOK(a)
RInv == GroupsKnown /\ PageOK /\ ClockOK /\ FetchesOK /\ CacheOK

-----------------------------------------------------------------------------
(* Rosters, and requests.                                                  *)

LEMMA Bounds ==
  /\ Ttl \in Nat /\ Ttl > 0 /\ FetchTime \in Nat /\ None \notin Groups /\ FirstView \in Views
  /\ Coach \in People
BY CoachingAssumption, OrganisationAssumption

LEMMA RosterType == \A g : Roster(g) \in Rosters
BY DEF Roster, Rosters, MayManage, GroupMembers

LEMMA RosterFields ==
  \A g : Roster(g).role = MayManage(g, Coach) /\ Roster(g).members = GroupMembers(g)
BY Zenon DEF Roster

LEMMA RosterEqual ==
  ASSUME NEW r \in Rosters, NEW q \in Rosters, r.role = q.role, r.members = q.members
  PROVE  r = q
<1>1. r = [role |-> r.role, members |-> r.members] /\ q = [role |-> q.role, members |-> q.members]
  BY DEF Rosters
<1> QED
  BY <1>1, Zenon

LEMMA NoRosterType == NoRoster \in Rosters
BY DEF NoRoster, Rosters

LEMMA NoAskShape ==
  NoAsk \in AnAsk /\ NoAsk.pc = "idle" /\ NoAsk.what = "none"
BY Bounds, NoRosterType DEF NoAsk, AnAsk

LEMMA AskShape ==
  ASSUME NEW what \in {"summary", "students", "student"}, NEW g \in Groups, NEW v \in Views
  PROVE  /\ Ask(what, g, v) \in AnAsk /\ Ask(what, g, v).pc = "gate"
         /\ Ask(what, g, v).group = g /\ Ask(what, g, v).what = what
BY NoAskShape DEF Ask, AnAsk

LEMMA AskedIsNew ==
  \A what, g, v : Ask(what, g, v).pc = "gate"
BY DEF Ask, NoAsk

LEMMA ClosedShape ==
  ClosedPage \in APage /\ ClosedPage.selected = None /\ ClosedPage.summary = None
BY Bounds DEF ClosedPage, APage

-----------------------------------------------------------------------------
(* The organisation's steps.                                               *)

LEMMA FreedGroups ==
  ASSUME IInv, GroupsKnown, NEW s \in Slots, Finish(s), groups' \subseteq Groups
  PROVE  GroupsKnown'
<1>1. jobs' = [jobs EXCEPT ![s] = Idle]
  BY DEF Finish
<1>2. \A r \in Slots : jobs'[r] = jobs[r] \/ jobs'[r].op = "none"
  BY <1>1, SlotFreed DEF IInv
<1> QED
  BY <1>2 DEF GroupsKnown

LEMMA TakenGroups ==
  ASSUME IInv, GroupsKnown, NEW s \in Slots, NEW op, NEW pc, NEW g, NEW u, NEW k,
         Continue(s, op, pc, g, u, k), op = "group" => g \in Groups, UNCHANGED groups
  PROVE  GroupsKnown'
<1>1. jobs' = [jobs EXCEPT ![s] = NewJob(op, pc, g, u, k)]
  BY DEF Continue, NewJob
<1>2. NewJob(op, pc, g, u, k).op = op /\ NewJob(op, pc, g, u, k).group = g
  BY DEF NewJob
<1>3. \A r \in Slots : jobs'[r] = IF r = s THEN NewJob(op, pc, g, u, k) ELSE jobs[r]
  BY <1>1 DEF IInv, TablesOK
<1> QED
  BY <1>2, <1>3 DEF GroupsKnown

LEMMA GroupsArrive ==
  ASSUME IInv, GroupsKnown, OrgArrival
  PROVE  GroupsKnown' /\ now' = now
<1>1. ASSUME NEW by \in People, CreateOrganisation(by)
      PROVE  GroupsKnown' /\ now' = now
  BY <1>1 DEF CreateOrganisation, GroupsKnown
<1>2. ASSUME NEW s \in Slots, NEW by \in People, NEW g \in Groups, AskGroup(s, by, g)
      PROVE  GroupsKnown' /\ now' = now
  BY <1>2, TakenGroups DEF AskGroup, orgTables
<1>3. ASSUME NEW s \in Slots, NEW by \in People, NEW g \in Groups, AskInvite(s, by, g)
      PROVE  GroupsKnown' /\ now' = now
  BY <1>3, TakenGroups DEF AskInvite, orgTables
<1>4. ASSUME NEW s \in Slots, NEW by \in People, NEW u \in People, NEW g \in Groups,
             AskHead(s, by, g, u)
      PROVE  GroupsKnown' /\ now' = now
  BY <1>4, TakenGroups DEF AskHead, orgTables
<1>5. ASSUME NEW s \in Slots, NEW by \in People, NEW u \in People, NEW g \in Groups,
             AskRemove(s, by, g, u)
      PROVE  GroupsKnown' /\ now' = now
  BY <1>5, TakenGroups DEF AskRemove, orgTables
<1>6. ASSUME NEW s \in Slots, NEW by \in People, NEW k \in DOMAIN codes, AskRevoke(s, by, k)
      PROVE  GroupsKnown' /\ now' = now
  BY <1>6, TakenGroups DEF AskRevoke, orgTables
<1>7. ASSUME NEW s \in Slots, NEW by \in People, NEW k \in DOMAIN codes, AskJoin(s, by, k)
      PROVE  GroupsKnown' /\ now' = now
  <2>1. now' = now /\ groups' = groups
    BY <1>7 DEF AskJoin, orgTables
  <2>2. CASE UNCHANGED jobs
    BY <2>1, <2>2 DEF GroupsKnown
  <2>3. CASE Continue(s, "join", "write", codes[k].group, by, k)
    BY <2>1, <2>3, TakenGroups
  <2> QED
    BY <1>7, <2>1, <2>2, <2>3 DEF AskJoin
<1> QED
  BY <1>1, <1>2, <1>3, <1>4, <1>5, <1>6, <1>7 DEF OrgArrival

LEMMA GroupsStep ==
  ASSUME IInv, GroupsKnown, OrgStep
  PROVE  GroupsKnown' /\ now' = now
<1>1. ASSUME NEW s \in Slots, CreateGroup(s)
      PROVE  GroupsKnown' /\ now' = now
  <2>1. Finish(s) /\ groups' \subseteq Groups /\ now' = now
    BY <1>1 DEF CreateGroup, At, GroupsKnown
  <2> QED
    BY <2>1, FreedGroups
<1>2. ASSUME NEW s \in Slots,
             \/ AddHead(s) \/ CreateInviteCode(s) \/ RevokeInviteCode(s) \/ JoinByCode(s)
             \/ RemoveMembership(s) \/ JobFails(s)
      PROVE  GroupsKnown' /\ now' = now
  <2>1. Finish(s) /\ groups' = groups /\ now' = now
    BY <1>2 DEF AddHead, CreateInviteCode, RevokeInviteCode, JoinByCode, RemoveMembership,
                JobFails, orgTables
  <2>2. groups' \subseteq Groups
    BY <2>1 DEF GroupsKnown
  <2> QED
    BY <2>1, <2>2, FreedGroups
<1>3. ASSUME NEW s \in Slots, CheckBelongs(s)
      PROVE  GroupsKnown' /\ now' = now
  <2> DEFINE j == IF HasOrgMembership(jobs[s].user) THEN [jobs[s] EXCEPT !.pc = "write"] ELSE Idle
  <2>1. /\ jobs' = [jobs EXCEPT ![s] = j] /\ jobs[s].op = "head" /\ groups' = groups /\ now' = now
    BY <1>3 DEF CheckBelongs, At, orgTables
  <2>2. j.op # "group"
    <3>1. jobs[s] \in Job
      BY DEF IInv, TablesOK
    <3> QED
      BY <2>1, <3>1, IdleJob DEF Job
  <2> HIDE DEF j
  <2>3. \A r \in Slots : jobs'[r] = IF r = s THEN j ELSE jobs[r]
    BY <2>1 DEF IInv, TablesOK
  <2> QED
    BY <2>1, <2>2, <2>3 DEF GroupsKnown
<1>4. ASSUME NEW k \in DOMAIN codes, CodeExpires(k)
      PROVE  GroupsKnown' /\ now' = now
  BY <1>4 DEF CodeExpires, GroupsKnown
<1>5. CASE AuthRestarts
  <2>1. jobs' = [s \in Slots |-> Idle] /\ groups' = groups /\ now' = now
    BY <1>5 DEF AuthRestarts, orgTables
  <2> QED
    BY <2>1, IdleJob DEF GroupsKnown
<1> QED
  BY <1>1, <1>2, <1>3, <1>4, <1>5 DEF OrgStep

\* Whatever changes a roster dates the change.
LEMMA OrganisationKeeps ==
  ASSUME IInv, RInv, OrganisationMoves
  PROVE  RInv'
<1>1. GroupsKnown' /\ now' = now
  BY GroupsArrive, GroupsStep DEF OrganisationMoves, RInv
<1>2. /\ UNCHANGED <<cache, asks, page, clicks>>
      /\ changed' = [g \in Groups |-> IF Roster(g)' # Roster(g) THEN now ELSE changed[g]]
  BY DEF OrganisationMoves
<1>3. \A g \in Groups : changed'[g] = now \/ (changed'[g] = changed[g] /\ Roster(g)' = Roster(g))
  BY <1>2
<1>4. PageOK'
  BY <1>2 DEF RInv, PageOK, Asked
<1>5. ClockOK'
  BY <1>1, <1>2 DEF RInv, ClockOK
<1>6. ASSUME NEW a \in Asks
      PROVE  FetchOK(a)'
  <2>1. FetchOK(a) /\ asks[a] \in AnAsk /\ now \in Nat
    BY DEF RInv, FetchesOK, PageOK, Asked, ClockOK
  <2>2. asks'[a] = asks[a] /\ asks[a].since \in Nat
    BY <1>2, <2>1 DEF AnAsk
  <2>3. CASE Fetching(a)
    <3>1. PICK g \in Groups : g = asks[a].group
      BY <2>3 DEF Fetching, RInv, PageOK, Asked
    <3>2. changed'[g] = now \/ (changed'[g] = changed[g] /\ Roster(g)' = Roster(g))
      BY <1>3
    <3>3. asks[a].since <= now
      BY <2>1, <2>3 DEF FetchOK
    <3> QED
      BY <1>1, <2>1, <2>2, <2>3, <3>1, <3>2, <3>3 DEF FetchOK, Fetching
  <2>4. CASE ~Fetching(a)
    BY <2>2, <2>4 DEF FetchOK, Fetching
  <2> QED
    BY <2>3, <2>4
<1>7. CacheOK'
  <2>1. ASSUME NEW g \in Groups, cache[g].there = TRUE
        PROVE  cache[g].at <= now' /\ (cache[g].roster = Roster(g)'
                                        \/ changed'[g] + FetchTime >= cache[g].at)
    <3>1. /\ cache[g].at <= now
          /\ cache[g].roster = Roster(g) \/ changed[g] + FetchTime >= cache[g].at
          /\ cache[g].at \in Nat /\ now \in Nat
      BY <2>1 DEF RInv, CacheOK, Entry, ClockOK
    <3> QED
      BY <1>1, <1>3, <3>1, Bounds
  <2> QED
    BY <1>2, <2>1 DEF RInv, CacheOK
<1> QED
  BY <1>1, <1>4, <1>5, <1>6, <1>7 DEF RInv, FetchesOK

-----------------------------------------------------------------------------
(* The page.                                                               *)

SameFetch(k, old) ==
  k.pc = old.pc /\ k.group = old.group /\ k.since = old.since /\ k.roster = old.roster
Unfetched(k) == k.pc \notin {"members", "arriving"}

\* Rosters stay what they are; GroupsKnown and the clock go with them.
LEMMA StillRosters ==
  ASSUME UNCHANGED orgVars
  PROVE  (\A g : Roster(g)' = Roster(g)) /\ now' = now /\ UNCHANGED <<groups, jobs>>
BY DEF orgVars, orgTables, Roster, MayManage, GroupMembers, GroupRole

\* A step of the page, or of one request, that reads no roster.
LEMMA AsksOnly ==
  ASSUME RInv, UNCHANGED <<orgVars, cache, changed>>, PageOK',
         \A a \in Asks : Unfetched(asks'[a]) \/ SameFetch(asks'[a], asks[a])
  PROVE  RInv'
<1>1. (\A g : Roster(g)' = Roster(g)) /\ now' = now /\ UNCHANGED <<groups, jobs>>
  BY StillRosters
<1>2. GroupsKnown' /\ ClockOK'
  BY <1>1 DEF RInv, GroupsKnown, ClockOK
<1>3. ASSUME NEW a \in Asks
      PROVE  FetchOK(a)'
  <2>1. FetchOK(a)
    BY DEF RInv, FetchesOK
  <2>2. CASE Unfetched(asks'[a])
    BY <2>2 DEF FetchOK, Fetching, Unfetched, Asked
  <2>3. CASE SameFetch(asks'[a], asks[a])
    BY <1>1, <2>1, <2>3 DEF FetchOK, Fetching, SameFetch
  <2> QED
    BY <2>2, <2>3
<1>4. CacheOK'
  BY <1>1 DEF RInv, CacheOK
<1> QED
  BY <1>2, <1>3, <1>4 DEF RInv, FetchesOK

\* One or two free slots take new questions about a group.
LEMMA AskedBoth ==
  ASSUME PageOK, NEW g \in Groups, NEW v \in Views, AskBoth(g, v)
  PROVE  /\ asks' \in [Asks -> AnAsk]
         /\ \A a \in Asks : Asked(asks'[a])
         /\ \A a \in Asks : Unfetched(asks'[a]) \/ SameFetch(asks'[a], asks[a])
<1>1. PICK a, b \in Free :
        asks' = [asks EXCEPT ![a] = Ask("summary", g, v), ![b] = Ask("students", g, v)]
  BY DEF AskBoth
<1>2. PICK p, q : p = Ask("summary", g, v) /\ q = Ask("students", g, v)
  OBVIOUS
<1>3. p \in AnAsk /\ q \in AnAsk /\ p.pc = "gate" /\ q.pc = "gate" /\ p.group = g /\ q.group = g
      /\ p.what = "summary" /\ q.what = "students"
  BY <1>2, AskShape
<1>4. asks' = [asks EXCEPT ![a] = p, ![b] = q]
  BY <1>1, <1>2
<1>5. a \in Asks /\ b \in Asks /\ asks \in [Asks -> AnAsk]
  BY DEF Free, PageOK, Asked
<1>6. \A c \in Asks : asks'[c] \in {p, q, asks[c]}
  BY <1>4, <1>5
<1>7. asks' \in [Asks -> AnAsk]
  BY <1>3, <1>4, <1>5
<1> QED
  BY <1>3, <1>6, <1>7 DEF PageOK, Asked, Unfetched, SameFetch

\* The page has its options: nothing is asked, or the first of them is selected.
LEMMA ReadyStep ==
  ASSUME PageOK, NEW options \in SUBSET Groups, Ready(options)
  PROVE  PageOK' /\ \A a \in Asks : Unfetched(asks'[a]) \/ SameFetch(asks'[a], asks[a])
<1>1. CASE options = {}
  <2>1. page' = [page EXCEPT !.stage = "ready"] /\ UNCHANGED asks
    BY <1>1 DEF Ready
  <2> QED
    BY <2>1 DEF PageOK, Asked, APage, SameFetch
<1>2. CASE options # {}
  <2>1. PICK g \in options :
          /\ page' = [page EXCEPT !.stage = "ready", !.options = options, !.selected = g]
          /\ AskBoth(g, FirstView)
    BY <1>2 DEF Ready
  <2>2. g \in Groups /\ g # None
    BY Bounds
  <2>3. /\ asks' \in [Asks -> AnAsk]
        /\ \A a \in Asks : Asked(asks'[a])
        /\ \A a \in Asks : Unfetched(asks'[a]) \/ SameFetch(asks'[a], asks[a])
    BY <2>1, <2>2, AskedBoth, Bounds
  <2>4. page' \in APage /\ page'.selected = g
    BY <2>1, <2>2 DEF PageOK, Asked, APage
  <2> QED
    BY <2>2, <2>3, <2>4 DEF PageOK, Asked
<1> QED
  BY <1>1, <1>2

\* What is left of the questions when the page is left.
LEMMA LeavingShape ==
  ASSUME PageOK
  PROVE  /\ Leaving \in [Asks -> AnAsk]
         /\ \A a \in Asks : /\ Asked(Leaving[a])
                            /\ Leaving[a].what # "summary"
                            /\ Unfetched(Leaving[a]) \/ SameFetch(Leaving[a], asks[a])
<1>1. ASSUME NEW a \in Asks
      PROVE  /\ Leaving[a] \in AnAsk
             /\ Asked(Leaving[a])
             /\ Leaving[a].what # "summary"
             /\ Unfetched(Leaving[a]) \/ SameFetch(Leaving[a], asks[a])
  <2>1. asks[a] \in AnAsk /\ Asked(asks[a])
    BY DEF PageOK, Asked
  <2>2. CASE asks[a].pc \in {"idle", "answering", "failed"}
    <3>1. Leaving[a] = NoAsk
      BY <2>2 DEF Leaving
    <3> QED
      BY <3>1, NoAskShape DEF Unfetched, Asked
  <2>3. CASE asks[a].pc \notin {"idle", "answering", "failed"}
    <3>1. Leaving[a] = [asks[a] EXCEPT !.what = "left", !.view = FirstView, !.student = None]
      BY <2>3 DEF Leaving
    <3>2. /\ Leaving[a] \in AnAsk /\ Leaving[a].what = "left"
          /\ SameFetch(Leaving[a], asks[a])
      BY <2>1, <3>1, Bounds DEF AnAsk, SameFetch
    <3> QED
      BY <2>1, <2>3, <3>2 DEF SameFetch, Asked
  <2> QED
    BY <2>2, <2>3
<1>2. Leaving = [a \in Asks |-> Leaving[a]]
  BY DEF Leaving
<1> QED
  BY <1>1, <1>2

LEMMA InteractiveSelects ==
  ASSUME PageOK, Interactive
  PROVE  page.selected \in Groups
BY DEF PageOK, Asked, APage, Interactive

\* The page asks and forgets; it answers nothing.
LEMMA PageAnswersNothing ==
  ASSUME RInv, PageMoves, NEW a \in Asks
  PROVE  asks'[a].pc = "answering" => asks[a].pc = "answering"
<1>0. asks \in [Asks -> AnAsk] /\ PageOK
  BY DEF RInv, PageOK
<1>1. CASE UNCHANGED asks
  BY <1>1
<1>2. ASSUME NEW g, NEW v, AskBoth(g, v)
      PROVE  asks'[a].pc = "answering" => asks[a].pc = "answering"
  <2>1. \A b \in Asks : asks'[b] \in {Ask("summary", g, v), Ask("students", g, v), asks[b]}
    BY <1>0, <1>2 DEF AskBoth
  <2> QED
    BY <2>1, AskedIsNew
<1>3. ASSUME NEW g, NEW v, AskStudents(g, v)
      PROVE  asks'[a].pc = "answering" => asks[a].pc = "answering"
  <2>1. \A b \in Asks : asks'[b] \in {Ask("students", g, v), asks[b]}
    BY <1>0, <1>3 DEF AskStudents
  <2> QED
    BY <2>1, AskedIsNew
<1>4. Leaving[a].pc # "answering"
  BY NoAskShape DEF Leaving
<1>5. ASSUME NEW options, Ready(options)
      PROVE  asks'[a].pc = "answering" => asks[a].pc = "answering"
  BY <1>1, <1>2, <1>5 DEF Ready
<1>6. ASSUME NEW p \in People, OpenStudent(p)
      PROVE  asks'[a].pc = "answering" => asks[a].pc = "answering"
  <2>1. PICK k : k = [Ask("student", page.selected, FirstView) EXCEPT !.student = p]
    OBVIOUS
  <2>2. k.pc = "gate"
    BY <2>1 DEF Ask, NoAsk
  <2>3. asks'[a] \in {k, Leaving[a]}
    BY <1>6, <2>1 DEF OpenStudent, Leaving
  <2> QED
    BY <1>4, <2>2, <2>3
<1> QED
  BY <1>1, <1>2, <1>3, <1>4, <1>5, <1>6
     DEF PageMoves, LoadMemberships, LoadGroups, LoadFails, OpenCoaching, SelectGroup, ChangeView

LEMMA PageStep ==
  ASSUME RInv, PageMoves
  PROVE  RInv'
<1> USE DEF RInv
<1>1. UNCHANGED <<orgVars, cache, changed>>
  BY DEF PageMoves, LoadMemberships, LoadGroups, LoadFails, OpenCoaching, SelectGroup,
         ChangeView, OpenStudent
<1>2. CASE LoadMemberships
  <2>1. CASE OrgRole(Coach) = "admin"
    <3>1. UNCHANGED asks
      BY <1>2, <2>1 DEF LoadMemberships
    <3>2. PICK options \in SUBSET Groups :
            page' = [page EXCEPT !.stage = "groups", !.options = options]
      <4>1. {g \in groups : rows[g][Coach] = "head"} \in SUBSET Groups
        BY DEF GroupsKnown
      <4> QED
        BY <1>2, <2>1, <4>1 DEF LoadMemberships
    <3>3. PageOK'
      BY <3>1, <3>2 DEF PageOK, Asked, APage
    <3> QED
      BY <1>1, <3>1, <3>3, AsksOnly DEF SameFetch
  <2>2. CASE OrgRole(Coach) # "admin"
    <3>1. Ready({g \in groups : rows[g][Coach] = "head"})
      BY <1>2, <2>2 DEF LoadMemberships
    <3>2. {g \in groups : rows[g][Coach] = "head"} \in SUBSET Groups
      BY DEF GroupsKnown
    <3> QED
      BY <1>1, <3>1, <3>2, ReadyStep, AsksOnly
  <2> QED
    BY <2>1, <2>2
<1>3. CASE LoadGroups
  <2>1. page.options \cup groups \in SUBSET Groups
    BY DEF GroupsKnown, PageOK, Asked, APage
  <2>2. Ready(page.options \cup groups)
    BY <1>3 DEF LoadGroups
  <2> QED
    BY <1>1, <2>1, <2>2, ReadyStep, AsksOnly
<1>4. CASE LoadFails
  <2>1. page.options \in SUBSET Groups
    BY DEF PageOK, Asked, APage
  <2>2. Ready(page.options)
    BY <1>4 DEF LoadFails
  <2> QED
    BY <1>1, <2>1, <2>2, ReadyStep, AsksOnly
<1>5. CASE OpenCoaching
  <2>1. page' = [ClosedPage EXCEPT !.stage = "memberships"] /\ asks' = Leaving
    BY <1>5 DEF OpenCoaching
  <2>2. page' \in APage
    BY <2>1, ClosedShape DEF APage
  <2>3. PageOK'
    BY <2>1, <2>2, LeavingShape, ClosedShape DEF PageOK, Asked, APage
  <2> QED
    BY <1>1, <2>1, <2>3, LeavingShape, AsksOnly
<1>6. ASSUME NEW g \in Groups, SelectGroup(g)
      PROVE  RInv'
  <2>1. /\ page' = [page EXCEPT !.selected = g, !.view = FirstView, !.error = FALSE, !.missed = {}]
        /\ AskBoth(g, FirstView)
    BY <1>6 DEF SelectGroup
  <2>2. /\ asks' \in [Asks -> AnAsk]
        /\ \A a \in Asks : Asked(asks'[a])
        /\ \A a \in Asks : Unfetched(asks'[a]) \/ SameFetch(asks'[a], asks[a])
    BY <2>1, AskedBoth, Bounds
  <2>3. page' \in APage /\ page'.selected = g
    BY <2>1, Bounds DEF PageOK, Asked, APage
  <2>4. PageOK'
    BY <2>2, <2>3, Bounds DEF PageOK, Asked
  <2> QED
    BY <1>1, <2>2, <2>4, AsksOnly
<1>7. ASSUME NEW v \in Views, ChangeView(v)
      PROVE  RInv'
  <2>1. /\ page' = [page EXCEPT !.view = v, !.missed = @ \ {"students"}]
        /\ AskStudents(page.selected, v)
    BY <1>7 DEF ChangeView
  <2>2. page.selected \in Groups /\ page.selected # None
    BY <1>7, InteractiveSelects, Bounds DEF ChangeView
  <2>3. PICK a \in Free : asks' = [asks EXCEPT ![a] = Ask("students", page.selected, v)]
    BY <2>1 DEF AskStudents
  <2>4. PICK k : k = Ask("students", page.selected, v)
    OBVIOUS
  <2>5. k \in AnAsk /\ k.pc = "gate" /\ k.group \in Groups /\ k.what = "students"
    BY <2>2, <2>4, AskShape
  <2>6. a \in Asks /\ asks \in [Asks -> AnAsk] /\ asks' = [asks EXCEPT ![a] = k]
    BY <2>3, <2>4 DEF Free, PageOK, Asked
  <2>7. page' \in APage /\ page'.selected = page.selected
    BY <2>1 DEF PageOK, Asked, APage
  <2>8. PageOK'
    BY <2>2, <2>5, <2>6, <2>7 DEF PageOK, Asked
  <2> QED
    BY <1>1, <2>5, <2>6, <2>8, AsksOnly DEF Unfetched, SameFetch, Asked
<1>8. ASSUME NEW p \in People, OpenStudent(p)
      PROVE  RInv'
  <2>1. page.selected \in Groups
    BY <1>8, InteractiveSelects DEF OpenStudent
  <2>2. PICK k : k = [Ask("student", page.selected, FirstView) EXCEPT !.student = p]
    OBVIOUS
  <2>3. k \in AnAsk /\ k.pc = "gate" /\ k.group \in Groups /\ k.what = "student"
    BY <2>1, <2>2, AskShape, Bounds DEF AnAsk
  <2>4. PICK a \in Free : asks' = [Leaving EXCEPT ![a] = k]
    BY <1>8, <2>2 DEF OpenStudent
  <2>5. page' = [ClosedPage EXCEPT !.stage = "student"]
    BY <1>8 DEF OpenStudent
  <2>6. page' \in APage /\ page'.summary = None
    BY <2>5, ClosedShape DEF APage
  <2>7. a \in Asks /\ \A c \in Asks : asks'[c] = IF c = a THEN k ELSE Leaving[c]
    BY <2>4, LeavingShape DEF Free
  <2>8. asks' \in [Asks -> AnAsk]
    BY <2>3, <2>4, <2>7, LeavingShape
  <2>9. PageOK'
    BY <2>3, <2>6, <2>7, <2>8, LeavingShape DEF PageOK, Asked
  <2>10. \A c \in Asks : Unfetched(asks'[c]) \/ SameFetch(asks'[c], asks[c])
    BY <2>3, <2>7, LeavingShape DEF Unfetched, Asked
  <2> QED
    BY <1>1, <2>9, <2>10, AsksOnly
<1> QED
  BY <1>2, <1>3, <1>4, <1>5, <1>6, <1>7, <1>8 DEF PageMoves

-----------------------------------------------------------------------------
(* The gate, and the roster behind it.                                     *)

\* Of one request, that becomes k; the page is told of it or not.
LEMMA AskMoved ==
  ASSUME PageOK, NEW a \in Asks, NEW k \in AnAsk, asks' = [asks EXCEPT ![a] = k],
         Asked(k), k.what = "summary" => asks[a].what = "summary",
         page' = page
  PROVE  PageOK' /\ asks'[a] = k /\ \A b \in Asks : b # a => asks'[b] = asks[b]
BY DEF PageOK, Asked

LEMMA AnsweredShape ==
  ASSUME NEW k \in AnAsk, NEW pc \in {"answering", "failed"}, NEW r \in Rosters,
         Asked(k), k.pc # "idle"
  PROVE  /\ Answered(k, pc, r) \in AnAsk /\ Unfetched(Answered(k, pc, r))
         /\ Asked(Answered(k, pc, r))
         /\ Answered(k, pc, r).what = "summary" => k.what = "summary"
         /\ Answered(k, pc, r).pc = "answering" => Answered(k, pc, r).roster = r
<1>1. CASE k.what = "left"
  <2>1. Answered(k, pc, r) = NoAsk
    BY <1>1 DEF Answered
  <2> QED
    BY <2>1, NoAskShape DEF Unfetched, Asked
<1>2. CASE k.what # "left"
  <2>1. PICK m : m = [k EXCEPT !.pc = pc, !.roster = r, !.since = 0]
    OBVIOUS
  <2>2. m \in AnAsk /\ m.pc = pc /\ m.group = k.group /\ m.what = k.what /\ m.roster = r
    BY <2>1 DEF AnAsk
  <2>3. Answered(k, pc, r) = m
    BY <1>2, <2>1 DEF Answered
  <2> QED
    BY <1>2, <2>2, <2>3 DEF Unfetched, Asked
<1> QED
  BY <1>1, <1>2

\* What an answer is made from is the roster there is, or one that was in the time
\* of the cache and of a fetch.
Recent(a) ==
  \/ asks'[a].roster = Roster(asks[a].group)
  \/ now - changed[asks[a].group] < Ttl + FetchTime
AnswersRecent ==
  \A a \in Asks : asks'[a].pc = "answering" /\ asks[a].pc # "answering" => Recent(a)

\* From the cache, whose entry has not come to its end.
LEMMA GateStep ==
  ASSUME RInv, NEW a \in Asks, Gate(a)
  PROVE  RInv' /\ AnswersRecent
<1>1. /\ asks[a].pc = "gate" /\ asks[a] \in AnAsk /\ asks[a].group \in Groups
      /\ Asked(asks[a]) /\ UNCHANGED <<orgVars, cache, page, changed>> /\ asks \in [Asks -> AnAsk]
  BY DEF Gate, Waiting, RInv, PageOK, Asked
<1>2. PICK g \in Groups : g = asks[a].group
  BY <1>1
<1>3. /\ now \in Nat /\ changed[g] \in Nat /\ changed[g] <= now /\ cache[g] \in Entry
  BY DEF RInv, ClockOK, CacheOK
<1>4. CASE Fresh(cache[g])
  <2>1. PICK k : k = Answered(asks[a], "answering", cache[g].roster)
    OBVIOUS
  <2>2. cache[g].roster \in Rosters /\ cache[g].at \in Nat
    BY <1>3 DEF Entry
  <2>3. /\ k \in AnAsk /\ Unfetched(k) /\ Asked(k)
        /\ k.what = "summary" => asks[a].what = "summary"
        /\ k.pc = "answering" => k.roster = cache[g].roster
    BY <1>1, <2>1, <2>2, AnsweredShape
  <2>4. asks' = [asks EXCEPT ![a] = k]
    BY <1>2, <1>4, <2>1 DEF Gate, AnswerFrom
  <2>5. PageOK' /\ asks'[a] = k /\ \A b \in Asks : b # a => asks'[b] = asks[b]
    BY <1>1, <2>3, <2>4, AskMoved DEF RInv, Asked
  <2>6. RInv'
    BY <1>1, <2>3, <2>5, AsksOnly DEF SameFetch
  <2>7. cache[g].roster = Roster(g) \/ now - changed[g] < Ttl + FetchTime
    <3>1. cache[g].there = TRUE
      BY <1>3, <1>4 DEF Fresh, Entry
    <3>2. now - cache[g].at < Ttl
      BY <1>4 DEF Fresh
    <3>3. cache[g].roster = Roster(g) \/ changed[g] + FetchTime >= cache[g].at
      BY <3>1 DEF RInv, CacheOK
    <3> QED
      BY <1>3, <2>2, <3>2, <3>3, Bounds
  <2>8. AnswersRecent
    BY <1>2, <2>3, <2>5, <2>7 DEF AnswersRecent, Recent
  <2> QED
    BY <2>6, <2>8
<1>5. CASE ~Fresh(cache[g])
  <2>1. PICK role \in BOOLEAN : role = Roster(g).role
    BY RosterType DEF Rosters
  <2>2. PICK k : k = [asks[a] EXCEPT !.pc = "members", !.since = now, !.roster.role = role]
    OBVIOUS
  <2>3. asks' = [asks EXCEPT ![a] = k]
    BY <1>1, <1>2, <1>5, <2>1, <2>2, RosterFields DEF Gate
  <2>4. /\ k \in AnAsk /\ k.pc = "members" /\ k.since = now /\ k.group = g
        /\ k.what = asks[a].what /\ k.roster.role = role
    BY <1>1, <1>2, <1>3, <2>2 DEF AnAsk, Rosters
  <2>5. PageOK' /\ asks'[a] = k /\ \A b \in Asks : b # a => asks'[b] = asks[b]
    BY <1>1, <2>3, <2>4, AskMoved DEF RInv, Asked
  <2>6. (\A h : Roster(h)' = Roster(h)) /\ now' = now /\ UNCHANGED <<groups, jobs>>
    BY <1>1, StillRosters
  <2>7. GroupsKnown' /\ ClockOK' /\ CacheOK'
    BY <1>1, <2>6 DEF RInv, GroupsKnown, ClockOK, CacheOK
  <2>8. ASSUME NEW b \in Asks
        PROVE  FetchOK(b)'
    <3>1. CASE b # a
      <4>1. FetchOK(b) /\ asks'[b] = asks[b]
        BY <2>5, <3>1 DEF RInv, FetchesOK
      <4> QED
        BY <1>1, <2>6, <4>1 DEF FetchOK, Fetching
    <3>2. CASE b = a
      <4>1. asks'[b] = k /\ role = Roster(g).role
        BY <2>1, <2>5, <3>2
      <4>2. Roster(g)' = Roster(g)
        BY <2>6
      <4> QED
        BY <1>3, <2>4, <2>6, <4>1, <4>2, Bounds DEF FetchOK, Fetching
    <3> QED
      BY <3>1, <3>2
  <2>9. AnswersRecent
    BY <2>4, <2>5 DEF AnswersRecent
  <2> QED
    BY <2>5, <2>7, <2>8, <2>9 DEF RInv, FetchesOK
<1> QED
  BY <1>4, <1>5

LEMMA ReadMembersStep ==
  ASSUME RInv, NEW a \in Asks, ReadMembers(a)
  PROVE  RInv' /\ AnswersRecent
<1>1. /\ asks[a].pc = "members" /\ asks[a] \in AnAsk /\ asks[a].group \in Groups
      /\ Asked(asks[a]) /\ UNCHANGED <<orgVars, cache, page, changed>> /\ asks \in [Asks -> AnAsk]
  BY DEF ReadMembers, Waiting, RInv, PageOK, Asked
<1>2. PICK g \in Groups : g = asks[a].group
  BY <1>1
<1>3. PICK members \in SUBSET People : members = GroupMembers(g)
  BY DEF GroupMembers
<1>4. PICK k : k = [asks[a] EXCEPT !.pc = "arriving", !.roster.members = members]
  OBVIOUS
<1>5. asks' = [asks EXCEPT ![a] = k]
  BY <1>1, <1>2, <1>3, <1>4 DEF ReadMembers
<1>6. /\ k \in AnAsk /\ k.pc = "arriving" /\ k.since = asks[a].since /\ k.group = g
      /\ k.what = asks[a].what /\ k.roster \in Rosters
      /\ k.roster.role = asks[a].roster.role /\ k.roster.members = members
  BY <1>1, <1>2, <1>4 DEF AnAsk, Rosters
<1>7. PageOK' /\ asks'[a] = k /\ \A b \in Asks : b # a => asks'[b] = asks[b]
  BY <1>1, <1>5, <1>6, AskMoved DEF RInv, Asked
<1>8. (\A h : Roster(h)' = Roster(h)) /\ now' = now /\ UNCHANGED <<groups, jobs>>
  BY <1>1, StillRosters
<1>9. GroupsKnown' /\ ClockOK' /\ CacheOK'
  BY <1>1, <1>8 DEF RInv, GroupsKnown, ClockOK, CacheOK
<1>10. ASSUME NEW b \in Asks
       PROVE  FetchOK(b)'
  <2>1. CASE b # a
    <3>1. FetchOK(b) /\ asks'[b] = asks[b]
      BY <1>7, <2>1 DEF RInv, FetchesOK
    <3> QED
      BY <1>1, <1>8, <3>1 DEF FetchOK, Fetching
  <2>2. CASE b = a
    <3>1. asks'[b] = k /\ FetchOK(a)
      BY <1>7, <2>2 DEF RInv, FetchesOK
    <3>2. k.roster.role = Roster(g).role => k.roster = Roster(g)
      BY <1>3, <1>6, RosterFields, RosterType, RosterEqual
    <3>3. k.roster = Roster(g) \/ changed[g] >= asks[a].since
      BY <1>1, <1>2, <1>6, <3>1, <3>2 DEF FetchOK
    <3>4. Roster(g)' = Roster(g)
      BY <1>8
    <3> QED
      BY <1>1, <1>2, <1>6, <1>8, <3>1, <3>3, <3>4 DEF FetchOK, Fetching
  <2> QED
    BY <2>1, <2>2
<1>11. AnswersRecent
  BY <1>6, <1>7 DEF AnswersRecent
<1> QED
  BY <1>7, <1>9, <1>10, <1>11 DEF RInv, FetchesOK

\* The entry is as old as its arrival, its roster at most a fetch older.
LEMMA RosterArrivesStep ==
  ASSUME RInv, NEW a \in Asks, RosterArrives(a)
  PROVE  RInv' /\ AnswersRecent
<1>1. /\ asks[a].pc = "arriving" /\ asks[a] \in AnAsk /\ asks[a].group \in Groups
      /\ Asked(asks[a]) /\ UNCHANGED <<orgVars, page, changed>> /\ asks \in [Asks -> AnAsk]
  BY DEF RosterArrives, Waiting, RInv, PageOK, Asked
<1>2. PICK g \in Groups : g = asks[a].group
  BY <1>1
<1>3. PICK r \in Rosters : r = asks[a].roster
  BY <1>1 DEF AnAsk
<1>4. PICK k : k = Answered(asks[a], "answering", r)
  OBVIOUS
<1>5. /\ k \in AnAsk /\ Unfetched(k) /\ Asked(k)
      /\ k.what = "summary" => asks[a].what = "summary"
      /\ k.pc = "answering" => k.roster = r
  BY <1>1, <1>4, AnsweredShape
<1>6. asks' = [asks EXCEPT ![a] = k]
  BY <1>3, <1>4 DEF RosterArrives, AnswerFrom
<1>7. PageOK' /\ asks'[a] = k /\ \A b \in Asks : b # a => asks'[b] = asks[b]
  BY <1>1, <1>5, <1>6, AskMoved DEF RInv, Asked
<1>8. (\A h : Roster(h)' = Roster(h)) /\ now' = now /\ UNCHANGED <<groups, jobs>>
  BY <1>1, StillRosters
<1>9. GroupsKnown' /\ ClockOK'
  BY <1>1, <1>8 DEF RInv, GroupsKnown, ClockOK
<1>10. /\ now \in Nat /\ changed[g] \in Nat /\ asks[a].since \in Nat
       /\ r = Roster(g) \/ changed[g] >= asks[a].since
       /\ now <= asks[a].since + FetchTime
  BY <1>1, <1>2, <1>3 DEF RInv, ClockOK, AnAsk, FetchesOK, FetchOK, Fetching
<1>11. CacheOK'
  <2>1. PICK e : e = [at |-> now, roster |-> r, there |-> TRUE]
    OBVIOUS
  <2>2. e \in Entry /\ e.at = now /\ e.roster = r
    BY <1>10, <2>1 DEF Entry
  <2>3. cache' = [cache EXCEPT ![g] = e] /\ cache \in [Groups -> Entry]
    BY <1>2, <1>3, <2>1 DEF RosterArrives, RInv, CacheOK
  <2>4. cache' \in [Groups -> Entry] /\ \A h \in Groups : cache'[h] = IF h = g THEN e ELSE cache[h]
    BY <2>2, <2>3
  <2>5. ASSUME NEW h \in Groups, cache'[h].there = TRUE
        PROVE  /\ cache'[h].at <= now
               /\ cache'[h].roster = Roster(h) \/ changed[h] + FetchTime >= cache'[h].at
    <3>1. CASE h = g
      BY <1>10, <2>2, <2>4, <3>1, Bounds
    <3>2. CASE h # g
      BY <2>4, <2>5, <3>2 DEF RInv, CacheOK
    <3> QED
      BY <3>1, <3>2
  <2> QED
    BY <1>1, <1>8, <2>4, <2>5 DEF CacheOK
<1>12. ASSUME NEW b \in Asks
       PROVE  FetchOK(b)'
  <2>1. CASE b # a
    <3>1. FetchOK(b) /\ asks'[b] = asks[b]
      BY <1>7, <2>1 DEF RInv, FetchesOK
    <3> QED
      BY <1>1, <1>8, <3>1 DEF FetchOK, Fetching
  <2>2. CASE b = a
    BY <1>5, <1>7, <2>2 DEF FetchOK, Fetching, Unfetched, Asked
  <2> QED
    BY <2>1, <2>2
<1>13. AnswersRecent
  BY <1>2, <1>5, <1>7, <1>10, Bounds DEF AnswersRecent, Recent
<1> QED
  BY <1>7, <1>9, <1>11, <1>12, <1>13 DEF RInv, FetchesOK

-----------------------------------------------------------------------------
(* Failures, answers, and the clock.                                       *)

LEMMA AskFailsStep ==
  ASSUME RInv, NEW a \in Asks, AskFails(a)
  PROVE  RInv' /\ AnswersRecent
<1>1. /\ asks[a].pc \notin {"idle", "failed"} /\ asks[a] \in AnAsk /\ asks[a].group \in Groups
      /\ Asked(asks[a]) /\ UNCHANGED <<orgVars, cache, page, changed>> /\ asks \in [Asks -> AnAsk]
  BY DEF AskFails, RInv, PageOK, Asked
<1>2. PICK k : k = Answered(asks[a], "failed", NoRoster)
  OBVIOUS
<1>3. /\ k \in AnAsk /\ Unfetched(k) /\ Asked(k)
      /\ k.what = "summary" => asks[a].what = "summary"
  BY <1>1, <1>2, NoRosterType, AnsweredShape
<1>4. k.pc # "answering"
  BY <1>1, <1>2, NoAskShape DEF Answered, AnAsk
<1>5. asks' = [asks EXCEPT ![a] = k]
  BY <1>2 DEF AskFails
<1>6. PageOK' /\ asks'[a] = k /\ \A b \in Asks : b # a => asks'[b] = asks[b]
  BY <1>1, <1>3, <1>5, AskMoved DEF RInv
<1>7. RInv'
  BY <1>1, <1>3, <1>6, AsksOnly DEF SameFetch
<1> QED
  BY <1>4, <1>6, <1>7 DEF AnswersRecent

\* What the page makes of an answer: a summary it has asked for at most.
LEMMA ShownShape ==
  ASSUME PageOK, NEW a \in Asks, asks[a].pc \in {"answering", "failed"}
  PROVE  LET seen == [Shown(asks[a]) EXCEPT !.missed = Missed(asks[a])]
         IN  /\ seen \in APage /\ seen.selected = page.selected
             /\ seen.summary = page.summary \/ asks[a].what = "summary"
<1>1. /\ asks[a] \in AnAsk /\ asks[a].group \in Groups /\ asks[a].view \in Views
      /\ asks[a].student \in People \cup {None} /\ asks[a].roster.members \in SUBSET People
      /\ page \in APage /\ asks[a].what \in {"summary", "students", "student"}
  BY DEF PageOK, Asked, AnAsk, Rosters
<1>2. /\ Shown(asks[a]) \in APage /\ Shown(asks[a]).selected = page.selected
      /\ Shown(asks[a]).summary = page.summary \/ asks[a].what = "summary"
  <2>1. CASE asks[a].what = "summary"
    <3>1. Shown(asks[a]) \in {[page EXCEPT !.summary = asks[a].group], [page EXCEPT !.error = TRUE]}
      BY <2>1 DEF Shown
    <3>2. PICK seen \in APage : seen = Shown(asks[a]) /\ seen.selected = page.selected
      <4>1. /\ [page EXCEPT !.summary = asks[a].group] \in APage
            /\ [page EXCEPT !.summary = asks[a].group].selected = page.selected
        BY <1>1 DEF APage
      <4>2. /\ [page EXCEPT !.error = TRUE] \in APage
            /\ [page EXCEPT !.error = TRUE].selected = page.selected
        BY <1>1 DEF APage
      <4> QED
        BY <3>1, <4>1, <4>2
    <3> QED
      BY <2>1, <3>2
  <2>2. CASE asks[a].what = "students"
    <3>1. \/ Shown(asks[a]) = [page EXCEPT !.list = <<asks[a].group, asks[a].view>>,
                                           !.listed = asks[a].roster.members]
          \/ Shown(asks[a]) = page
      BY <2>2 DEF Shown
    <3>2. PICK pair : pair = <<asks[a].group, asks[a].view>>
      OBVIOUS
    <3>3. pair \in (Groups \cup {None}) \X Views
      BY <1>1, <3>2
    <3>4. PICK seen : seen = [page EXCEPT !.list = pair, !.listed = asks[a].roster.members]
      OBVIOUS
    <3>5. seen \in APage /\ seen.selected = page.selected /\ seen.summary = page.summary
      BY <1>1, <3>3, <3>4 DEF APage
    <3> QED
      BY <1>1, <3>1, <3>2, <3>4, <3>5
  <2>3. CASE asks[a].what = "student"
    <3>1. Shown(asks[a]) \in {[page EXCEPT !.student = asks[a].student], [page EXCEPT !.error = TRUE]}
      BY <2>3 DEF Shown
    <3>2. PICK p, q : p = [page EXCEPT !.student = asks[a].student] /\ q = [page EXCEPT !.error = TRUE]
      OBVIOUS
    <3>3. /\ p \in APage /\ p.selected = page.selected /\ p.summary = page.summary
          /\ q \in APage /\ q.selected = page.selected /\ q.summary = page.summary
      BY <1>1, <3>2 DEF APage
    <3> QED
      BY <3>1, <3>2, <3>3
  <2> QED
    BY <1>1, <2>1, <2>2, <2>3
<1>3. Missed(asks[a]) \in SUBSET {"summary", "students"}
  <2>1. page.missed \in SUBSET {"summary", "students"}
    BY <1>1 DEF APage
  <2> QED
    BY <2>1 DEF Missed
<1>4. PICK old \in APage : old = Shown(asks[a])
  BY <1>2
<1>5. PICK missed \in SUBSET {"summary", "students"} : missed = Missed(asks[a])
  BY <1>3
<1>6. PICK seen : seen = [old EXCEPT !.missed = missed]
  OBVIOUS
<1>7. seen \in APage /\ seen.selected = old.selected /\ seen.summary = old.summary
  BY <1>6 DEF APage
<1> QED
  BY <1>2, <1>4, <1>5, <1>6, <1>7

LEMMA AnswerArrivesStep ==
  ASSUME RInv, NEW a \in Asks, AnswerArrives(a)
  PROVE  RInv' /\ AnswersRecent
<1>1. /\ asks[a].pc \in {"answering", "failed"} /\ UNCHANGED <<orgVars, cache, changed>>
      /\ page' = [Shown(asks[a]) EXCEPT !.missed = Missed(asks[a])]
      /\ asks' = [asks EXCEPT ![a] = NoAsk] /\ asks \in [Asks -> AnAsk]
  BY DEF AnswerArrives, RInv, PageOK
<1>2. /\ page' \in APage /\ page'.selected = page.selected
      /\ page'.summary = page.summary \/ asks[a].what = "summary"
  BY <1>1, ShownShape DEF RInv
<1>3. /\ asks' \in [Asks -> AnAsk]
      /\ \A b \in Asks : asks'[b] = IF b = a THEN NoAsk ELSE asks[b]
  BY <1>1, NoAskShape
<1>4. PageOK'
  BY <1>2, <1>3, NoAskShape DEF RInv, PageOK, Asked
<1>5. RInv'
  BY <1>1, <1>3, <1>4, NoAskShape, AsksOnly DEF Unfetched, SameFetch
<1>6. AnswersRecent
  BY <1>3, NoAskShape DEF AnswersRecent
<1> QED
  BY <1>5, <1>6

\* The content service forgets its cache, and what was asked of it has failed.
LEMMA ContentRestartsStep ==
  ASSUME RInv, ContentRestarts
  PROVE  RInv' /\ AnswersRecent
<1>1. /\ cache' = [g \in Groups |-> NoEntry] /\ UNCHANGED <<orgVars, page, changed>>
      /\ asks' = [a \in Asks |-> IF asks[a] = NoAsk THEN NoAsk
                                 ELSE Answered(asks[a], "failed", NoRoster)]
  BY DEF ContentRestarts
<1>2. ASSUME NEW a \in Asks
      PROVE  /\ asks'[a] \in AnAsk /\ Unfetched(asks'[a]) /\ Asked(asks'[a])
             /\ asks'[a].what = "summary" => asks[a].what = "summary"
             /\ asks'[a].pc # "answering"
  <2>1. CASE asks[a] = NoAsk
    BY <1>1, <2>1, NoAskShape DEF Unfetched, Asked
  <2>2. CASE asks[a] # NoAsk /\ asks[a].pc # "idle"
    <3>1. asks[a] \in AnAsk /\ Asked(asks[a])
      BY DEF RInv, PageOK
    <3>2. asks'[a] = Answered(asks[a], "failed", NoRoster)
      BY <1>1, <2>2
    <3>3. Answered(asks[a], "failed", NoRoster).pc # "answering"
      BY <3>1, NoAskShape DEF Answered, AnAsk
    <3> QED
      BY <2>2, <3>1, <3>2, <3>3, NoRosterType, AnsweredShape
  <2>3. CASE asks[a].pc = "idle"
    <3>1. asks[a] = NoAsk
      BY <2>3 DEF RInv, PageOK, Asked
    <3> QED
      BY <2>1, <3>1
  <2> QED
    BY <2>1, <2>2, <2>3
<1>3. asks' \in [Asks -> AnAsk]
  BY <1>1, <1>2
<1>4. PageOK'
  BY <1>1, <1>2, <1>3 DEF RInv, PageOK
<1>5. now' = now /\ UNCHANGED <<groups, jobs>>
  BY <1>1, StillRosters
<1>6. GroupsKnown' /\ ClockOK'
  BY <1>1, <1>5 DEF RInv, GroupsKnown, ClockOK
<1>7. FetchesOK'
  BY <1>2 DEF FetchesOK, FetchOK, Fetching, Unfetched
<1>8. CacheOK'
  <2>1. NoEntry \in Entry /\ NoEntry.there # TRUE
    BY NoRosterType DEF NoEntry, Entry
  <2> QED
    BY <1>1, <2>1 DEF CacheOK
<1> QED
  BY <1>2, <1>4, <1>6, <1>7, <1>8 DEF RInv, AnswersRecent

\* The clock waits for a fetch that has taken its time.
LEMMA TickStep ==
  ASSUME RInv, Tick
  PROVE  RInv' /\ AnswersRecent
<1>1. /\ now' = now + 1 /\ UNCHANGED <<orgTables, jobs, cache, asks, page, changed>>
      /\ \A a \in Asks : Fetching(a) => now - asks[a].since < FetchTime
      /\ now \in Nat
  BY DEF Tick, RInv, ClockOK
<1>2. \A g : Roster(g)' = Roster(g)
  BY <1>1 DEF orgTables, Roster, MayManage, GroupMembers, GroupRole
<1>3. GroupsKnown' /\ PageOK'
  BY <1>1 DEF orgTables, RInv, GroupsKnown, PageOK
<1>4. ClockOK'
  BY <1>1 DEF RInv, ClockOK
<1>5. ASSUME NEW a \in Asks
      PROVE  FetchOK(a)'
  <2>1. FetchOK(a) /\ asks[a].since \in Nat /\ asks'[a] = asks[a]
    BY <1>1 DEF RInv, FetchesOK, PageOK, AnAsk
  <2>2. Fetching(a) => asks[a].since <= now + 1 /\ now + 1 <= asks[a].since + FetchTime
    BY <1>1, <2>1, Bounds DEF FetchOK
  <2> QED
    BY <1>1, <1>2, <2>1, <2>2 DEF FetchOK, Fetching
<1>6. CacheOK'
  <2>1. \A g \in Groups : cache[g].there = TRUE => cache[g].at \in Nat
    BY DEF RInv, CacheOK, Entry
  <2> QED
    BY <1>1, <1>2, <2>1 DEF RInv, CacheOK
<1>7. AnswersRecent
  BY <1>1 DEF AnswersRecent
<1> QED
  BY <1>3, <1>4, <1>5, <1>6, <1>7 DEF RInv, FetchesOK

-----------------------------------------------------------------------------
(* The invariant.                                                          *)

LEMMA RInitial == Init => RInv
<1> SUFFICES ASSUME Init PROVE RInv
  OBVIOUS
<1>1. /\ groups \in {{}, Groups} /\ jobs = [s \in Slots |-> Idle] /\ now = 0
      /\ cache = [g \in Groups |-> NoEntry] /\ asks = [a \in Asks |-> NoAsk]
      /\ page = ClosedPage /\ changed = [g \in Groups |-> 0]
  BY DEF Init, OrgInit
<1>2. GroupsKnown
  BY <1>1, IdleJob DEF GroupsKnown
<1>3. PageOK
  BY <1>1, NoAskShape, ClosedShape DEF PageOK, Asked
<1>4. ClockOK /\ FetchesOK
  BY <1>1, NoAskShape DEF ClockOK, FetchesOK, FetchOK, Fetching
<1>5. CacheOK
  <2>1. NoEntry \in Entry /\ NoEntry.there # TRUE
    BY NoRosterType DEF NoEntry, Entry
  <2> QED
    BY <1>1, <2>1 DEF CacheOK
<1> QED
  BY <1>2, <1>3, <1>4, <1>5 DEF RInv

LEMMA Idling ==
  ASSUME UNCHANGED asks
  PROVE  AnswersRecent
BY DEF AnswersRecent

LEMMA RStep == IInv /\ RInv /\ [Next]_vars => RInv' /\ AnswersRecent
<1> SUFFICES ASSUME IInv, RInv, [Next]_vars PROVE RInv' /\ AnswersRecent
  OBVIOUS
<1>1. CASE OrganisationMoves
  BY <1>1, OrganisationKeeps, Idling DEF OrganisationMoves
<1>2. CASE PageMoves
  <2>1. ASSUME NEW a \in Asks
        PROVE  asks'[a].pc = "answering" => asks[a].pc = "answering"
    BY <1>2, PageAnswersNothing
  <2> QED
    BY <1>2, <2>1, PageStep DEF AnswersRecent
<1>3. ASSUME NEW a \in Asks, AskMoves(a)
      PROVE  RInv' /\ AnswersRecent
  BY <1>3, GateStep, ReadMembersStep, RosterArrivesStep, AskFailsStep, AnswerArrivesStep
     DEF AskMoves
<1>4. CASE ContentRestarts
  BY <1>4, ContentRestartsStep
<1>5. CASE Tick
  BY <1>5, TickStep
<1>6. CASE UNCHANGED vars
  <2>1. UNCHANGED <<orgVars, cache, changed, asks, page>>
    BY <1>6 DEF vars
  <2>2. PageOK'
    BY <2>1 DEF RInv, PageOK
  <2> QED
    BY <2>1, <2>2, AsksOnly, Idling DEF SameFetch
<1> QED
  BY <1>1, <1>2, <1>3, <1>4, <1>5, <1>6 DEF Next

\* Page, questions, cache and rosters fit together in every reachable state.
THEOREM RosterInvariance == Spec => []RInv
BY RInitial, RStep, Invariance, PTL DEF Spec

\* Whoever was removed is honoured for the cache's time and one fetch at most,
\* although the cache is dated from the answer's arrival and the roster read by two
\* statements (authClient.ts, internalRoutes.ts).
THEOREM RostersAreRecent == Spec => AnswersAreRecent
<1>1. ASSUME IInv, RInv, [Next]_vars
      PROVE  [\A a \in Asks :
                asks'[a].pc = "answering" /\ asks[a].pc # "answering" =>
                  \/ asks'[a].roster = Roster(asks[a].group)
                  \/ now - changed[asks[a].group] < Ttl + FetchTime]_vars
  BY <1>1, RStep DEF AnswersRecent, Recent
<1> QED
  BY <1>1, Invariance, RosterInvariance, PTL DEF Spec, AnswersAreRecent
-----------------------------------------------------------------------------
(* What the page shows.                                                    *)

\* A page that is not ready has selected nothing, and starts with the first view.
SInv == /\ ShownIsSelected
        /\ page.stage # "ready" => page.selected = None /\ page.view = FirstView

SameQuestion(k, old) == k.what = old.what /\ k.group = old.group /\ k.view = old.view
StillAsked ==
  \A a \in Asks : asks[a].what \in {"summary", "students"} => SameQuestion(asks'[a], asks[a])

\* As long as the questions are kept, the page that does not change owes its answers
\* to the same questions.
LEMMA StillShown ==
  ASSUME SInv, UNCHANGED page, StillAsked
  PROVE  SInv'
<1>1. ASSUME NEW a \in Asks, asks[a].what \in {"summary", "students"}, Wanted(asks[a])
      PROVE  asks'[a].what = asks[a].what /\ Wanted(asks[a])'
  BY <1>1 DEF StillAsked, SameQuestion, Wanted
<1>2. ASSUME NEW what \in {"summary", "students"},
             \E a \in Asks : asks[a].what = what /\ Wanted(asks[a])
      PROVE  \E a \in Asks : asks'[a].what = what /\ Wanted(asks[a])'
  BY <1>1, <1>2
<1> QED
  BY <1>2 DEF SInv, ShownIsSelected

LEMMA AnsweredQuestion ==
  ASSUME NEW k \in AnAsk, NEW pc, NEW r, k.what # "left"
  PROVE  SameQuestion(Answered(k, pc, r), k)
BY DEF Answered, SameQuestion, AnAsk

LEMMA OneAskMoved ==
  ASSUME RInv, NEW a \in Asks, NEW k, asks' = [asks EXCEPT ![a] = k],
         asks[a].what \in {"summary", "students"} => SameQuestion(k, asks[a])
  PROVE  StillAsked
<1>1. asks \in [Asks -> AnAsk]
  BY DEF RInv, PageOK
<1>2. \A b \in Asks : asks'[b] = IF b = a THEN k ELSE asks[b]
  BY <1>1
<1> QED
  BY <1>2 DEF StillAsked, SameQuestion

\* The content service keeps the questions until it answers them.
LEMMA AnsweringKeepsQuestions ==
  ASSUME RInv, NEW a \in Asks,
         Gate(a) \/ ReadMembers(a) \/ RosterArrives(a) \/ AskFails(a)
  PROVE  UNCHANGED page /\ StillAsked
<1>1. UNCHANGED page
  BY DEF Gate, ReadMembers, RosterArrives, AskFails
<1>2. asks \in [Asks -> AnAsk] /\ asks[a] \in AnAsk
  BY DEF RInv, PageOK
<1>3. PICK old \in AnAsk : old = asks[a]
  BY <1>2
<1>4. ASSUME NEW pc, NEW r, asks' = [asks EXCEPT ![a] = Answered(old, pc, r)]
      PROVE  StillAsked
  <2>1. PICK k : k = Answered(old, pc, r)
    OBVIOUS
  <2>2. old.what \in {"summary", "students"} => SameQuestion(k, old)
    BY <2>1, AnsweredQuestion
  <2> QED
    BY <1>3, <1>4, <2>1, <2>2, OneAskMoved
<1>5. CASE Gate(a)
  <2>1. CASE Fresh(cache[asks[a].group])
    BY <1>3, <1>4, <1>5, <2>1 DEF Gate, AnswerFrom
  <2>2. CASE ~Fresh(cache[asks[a].group])
    <3>1. PICK role : role = MayManage(asks[a].group, Coach)
      OBVIOUS
    <3>2. PICK k : k = [old EXCEPT !.pc = "members", !.since = now, !.roster.role = role]
      OBVIOUS
    <3>3. asks' = [asks EXCEPT ![a] = k]
      BY <1>2, <1>3, <1>5, <2>2, <3>1, <3>2 DEF Gate
    <3>4. SameQuestion(k, old)
      BY <3>2 DEF AnAsk, SameQuestion
    <3> QED
      BY <1>1, <1>3, <3>3, <3>4, OneAskMoved
  <2> QED
    BY <2>1, <2>2
<1>6. CASE ReadMembers(a)
  <2>1. PICK members : members = GroupMembers(asks[a].group)
    OBVIOUS
  <2>2. PICK k : k = [old EXCEPT !.pc = "arriving", !.roster.members = members]
    OBVIOUS
  <2>3. asks' = [asks EXCEPT ![a] = k]
    BY <1>2, <1>3, <1>6, <2>1, <2>2 DEF ReadMembers
  <2>4. SameQuestion(k, old)
    BY <2>2 DEF AnAsk, SameQuestion
  <2> QED
    BY <1>1, <1>3, <2>3, <2>4, OneAskMoved
<1>7. CASE RosterArrives(a)
  BY <1>3, <1>4, <1>7 DEF RosterArrives, AnswerFrom
<1>8. CASE AskFails(a)
  BY <1>3, <1>4, <1>8 DEF AskFails
<1> QED
  BY <1>1, <1>5, <1>6, <1>7, <1>8

LEMMA RestartKeepsQuestions ==
  ASSUME RInv, ContentRestarts
  PROVE  UNCHANGED page /\ StillAsked
<1>1. \A a \in Asks : asks'[a] = IF asks[a] = NoAsk THEN NoAsk
                                 ELSE Answered(asks[a], "failed", NoRoster)
  BY DEF ContentRestarts
<1>2. ASSUME NEW a \in Asks, asks[a].what \in {"summary", "students"}
      PROVE  SameQuestion(asks'[a], asks[a])
  <2>1. asks[a] \in AnAsk /\ asks[a] # NoAsk
    BY <1>2, NoAskShape DEF RInv, PageOK
  <2> QED
    BY <1>1, <1>2, <2>1, AnsweredQuestion
<1> QED
  BY <1>2 DEF ContentRestarts, StillAsked

-----------------------------------------------------------------------------
(* The page asks for what it selects.                                      *)

\* Both questions are asked in slots of their own, and no other is given up.
LEMMA BothAsked ==
  ASSUME PageOK, NEW g \in Groups, NEW v \in Views, AskBoth(g, v)
  PROVE  \A what \in {"summary", "students"} : \E a \in Asks :
           asks'[a].what = what /\ asks'[a].group = g /\ asks'[a].view = v
<1>1. PICK p, q : p = Ask("summary", g, v) /\ q = Ask("students", g, v)
  OBVIOUS
<1>2. PICK a, b \in Free : a # b /\ asks' = [asks EXCEPT ![a] = p, ![b] = q]
  BY <1>1 DEF AskBoth
<1>3. a \in Asks /\ b \in Asks /\ asks \in [Asks -> AnAsk]
  BY DEF Free, PageOK
<1>4. asks'[a] = p /\ asks'[b] = q
  BY <1>2, <1>3
<1>5. p.what = "summary" /\ p.group = g /\ p.view = v /\ q.what = "students" /\ q.group = g /\ q.view = v
  BY <1>1 DEF Ask, NoAsk
<1> QED
  BY <1>3, <1>4, <1>5

LEMMA ReadyShows ==
  ASSUME PageOK, SInv, page.stage # "ready", NEW options \in SUBSET Groups, Ready(options)
  PROVE  SInv'
<1>1. page \in APage /\ page.selected = None /\ page.view = FirstView
  BY DEF PageOK, SInv
<1>2. CASE options = {}
  <2>1. page'.stage = "ready" /\ page'.selected = None
    BY <1>1, <1>2 DEF Ready, APage
  <2> QED
    BY <2>1 DEF SInv, ShownIsSelected
<1>3. CASE options # {}
  <2>1. PICK g \in options :
          /\ page' = [page EXCEPT !.stage = "ready", !.options = options, !.selected = g]
          /\ AskBoth(g, FirstView)
    BY <1>3 DEF Ready
  <2>2. \A what \in {"summary", "students"} : \E a \in Asks :
          asks'[a].what = what /\ asks'[a].group = g /\ asks'[a].view = FirstView
    BY <2>1, BothAsked, Bounds
  <2>3. page'.stage = "ready" /\ page'.selected = g /\ page'.view = FirstView
    BY <1>1, <2>1 DEF APage
  <2> QED
    BY <2>2, <2>3 DEF SInv, ShownIsSelected, Wanted
<1> QED
  BY <1>2, <1>3

LEMMA PageShows ==
  ASSUME RInv, SInv, PageMoves
  PROVE  SInv'
<1>0. PageOK /\ page \in APage /\ asks \in [Asks -> AnAsk]
  BY DEF RInv, PageOK
<1>1. ASSUME NEW stage \in {"memberships", "student"}, page' = [ClosedPage EXCEPT !.stage = stage]
      PROVE  SInv'
  BY <1>1 DEF ClosedPage, SInv, ShownIsSelected
<1>2. CASE LoadMemberships
  <2>1. page.stage = "memberships"
    BY <1>2 DEF LoadMemberships
  <2>2. CASE OrgRole(Coach) = "admin"
    <3>1. page'.stage = "groups" /\ page'.selected = page.selected /\ page'.view = page.view
      BY <1>0, <1>2, <2>2 DEF LoadMemberships, APage
    <3> QED
      BY <2>1, <3>1 DEF SInv, ShownIsSelected
  <2>3. CASE OrgRole(Coach) # "admin"
    <3>1. Ready({g \in groups : rows[g][Coach] = "head"})
      BY <1>2, <2>3 DEF LoadMemberships
    <3>2. {g \in groups : rows[g][Coach] = "head"} \in SUBSET Groups
      BY DEF RInv, GroupsKnown
    <3> QED
      BY <1>0, <2>1, <3>1, <3>2, ReadyShows
  <2> QED
    BY <2>2, <2>3
<1>3. CASE LoadGroups
  <2>1. page.options \cup groups \in SUBSET Groups
    BY <1>0 DEF RInv, GroupsKnown, APage
  <2>2. page.stage # "ready" /\ Ready(page.options \cup groups)
    BY <1>3 DEF LoadGroups
  <2> QED
    BY <1>0, <2>1, <2>2, ReadyShows
<1>4. CASE LoadFails
  <2>1. page.options \in SUBSET Groups
    BY <1>0 DEF APage
  <2>2. page.stage # "ready" /\ Ready(page.options)
    BY <1>4 DEF LoadFails
  <2> QED
    BY <1>0, <2>1, <2>2, ReadyShows
<1>5. CASE OpenCoaching
  BY <1>1, <1>5 DEF OpenCoaching
<1>6. ASSUME NEW g \in Groups, SelectGroup(g)
      PROVE  SInv'
  <2>1. \A what \in {"summary", "students"} : \E a \in Asks :
          asks'[a].what = what /\ asks'[a].group = g /\ asks'[a].view = FirstView
    BY <1>0, <1>6, BothAsked, Bounds DEF SelectGroup
  <2>2. page'.stage = "ready" /\ page'.selected = g /\ page'.view = FirstView
    BY <1>0, <1>6 DEF SelectGroup, Interactive, APage
  <2> QED
    BY <2>1, <2>2 DEF SInv, ShownIsSelected, Wanted
<1>7. ASSUME NEW v \in Views, ChangeView(v)
      PROVE  SInv'
  <2>1. PICK k : k = Ask("students", page.selected, v)
    OBVIOUS
  <2>2. k.what = "students" /\ k.group = page.selected /\ k.view = v
    BY <2>1 DEF Ask, NoAsk
  <2>3. PICK b \in Free : asks' = [asks EXCEPT ![b] = k]
    BY <1>7, <2>1 DEF ChangeView, AskStudents
  <2>4. b \in Asks /\ \A a \in Asks : asks'[a] = IF a = b THEN k ELSE asks[a]
    BY <1>0, <2>3 DEF Free
  <2>5. asks[b].what = "none"
    BY <2>3, NoAskShape DEF Free
  <2>6. /\ page'.stage = "ready" /\ page'.selected = page.selected /\ page'.view = v
        /\ page'.summary = page.summary /\ page'.missed = page.missed \ {"students"}
        /\ page.stage = "ready"
    BY <1>0, <1>7 DEF ChangeView, Interactive, APage
  <2>7. \E a \in Asks : asks'[a].what = "students" /\ Wanted(asks[a])'
    BY <2>2, <2>4, <2>6 DEF Wanted
  <2>8. ASSUME page.selected # None
        PROVE  \/ page'.summary = page'.selected \/ "summary" \in page'.missed
               \/ \E a \in Asks : asks'[a].what = "summary" /\ Wanted(asks[a])'
    <3>1. ASSUME NEW a \in Asks, asks[a].what = "summary", Wanted(asks[a])
          PROVE  asks'[a].what = "summary" /\ Wanted(asks[a])'
      BY <2>4, <2>5, <2>6, <3>1 DEF Wanted
    <3> QED
      BY <2>6, <2>8, <3>1 DEF SInv, ShownIsSelected
  <2> QED
    BY <2>6, <2>7, <2>8 DEF SInv, ShownIsSelected
<1>8. ASSUME NEW p \in People, OpenStudent(p)
      PROVE  SInv'
  BY <1>1, <1>8 DEF OpenStudent
<1> QED
  BY <1>2, <1>3, <1>4, <1>5, <1>6, <1>7, <1>8 DEF PageMoves

\* What an answer does to the page: a wanted one is shown, or the page has missed
\* it; one that is not wanted is missed, or changes neither summary nor list.
LEMMA AnswerIsShownOrMissed ==
  ASSUME page \in APage, NEW k \in AnAsk, k.what \in {"summary", "students", "student"},
         NEW seen, seen = [Shown(k) EXCEPT !.missed = Missed(k)]
  PROVE  /\ seen.stage = page.stage /\ seen.selected = page.selected /\ seen.view = page.view
         /\ k.what # "summary" => seen.summary = page.summary
         /\ k.what # "students" => seen.list = page.list
         /\ \A what \in {"summary", "students"} :
              what # k.what /\ what \in page.missed => what \in seen.missed
         /\ k.what = "summary" =>
              \/ seen.summary = seen.selected \/ "summary" \in seen.missed
              \/ ~Wanted(k) /\ seen.summary = page.summary /\ seen.missed = page.missed
         /\ k.what = "students" =>
              \/ seen.list = <<seen.selected, seen.view>> \/ "students" \in seen.missed
              \/ ~Wanted(k) /\ seen.list = page.list /\ seen.missed = page.missed
<1>1. PICK shown, missed : shown = Shown(k) /\ missed = Missed(k)
  OBVIOUS
<1>2. PICK pair : pair = <<k.group, k.view>>
  OBVIOUS
<1>3. PICK members : members = k.roster.members
  OBVIOUS
<1>5. CASE k.what = "summary"
  <2>1. shown = IF Granted(k) THEN [page EXCEPT !.summary = k.group] ELSE [page EXCEPT !.error = TRUE]
    BY <1>1, <1>5 DEF Shown
  <2>2. missed = IF ~(Wanted(k) \/ Granted(k)) THEN page.missed
                 ELSE IF Wanted(k) /\ Granted(k) THEN page.missed \ {"summary"}
                                                 ELSE page.missed \cup {"summary"}
    BY <1>1, <1>5 DEF Missed
  <2>3. /\ seen.stage = page.stage /\ seen.selected = page.selected /\ seen.view = page.view
        /\ seen.summary = IF Granted(k) THEN k.group ELSE page.summary
        /\ seen.list = page.list /\ seen.missed = missed
    BY <1>1, <2>1 DEF APage
  <2> QED
    BY <1>5, <2>2, <2>3 DEF Wanted
<1>6. CASE k.what = "students"
  <2>1. shown = IF Granted(k) THEN [page EXCEPT !.list = pair, !.listed = members] ELSE page
    BY <1>1, <1>2, <1>3, <1>6 DEF Shown
  <2>2. missed = IF ~(Wanted(k) \/ Granted(k)) THEN page.missed
                 ELSE IF Wanted(k) /\ Granted(k) THEN page.missed \ {"students"}
                                                 ELSE page.missed \cup {"students"}
    BY <1>1, <1>6 DEF Missed
  <2>3. /\ seen.stage = page.stage /\ seen.selected = page.selected /\ seen.view = page.view
        /\ seen.summary = page.summary
        /\ seen.list = IF Granted(k) THEN pair ELSE page.list
        /\ seen.missed = missed
    BY <1>1, <2>1 DEF APage
  <2>4. Wanted(k) => pair = <<page.selected, page.view>>
    BY <1>2, <1>6 DEF Wanted
  <2> QED
    BY <1>6, <2>2, <2>3, <2>4
<1>7. CASE k.what = "student"
  <2>1. shown = IF Granted(k) THEN [page EXCEPT !.student = k.student] ELSE [page EXCEPT !.error = TRUE]
    BY <1>1, <1>7 DEF Shown
  <2>2. missed = page.missed
    BY <1>1, <1>7 DEF Missed
  <2>3. /\ seen.stage = page.stage /\ seen.selected = page.selected /\ seen.view = page.view
        /\ seen.summary = page.summary /\ seen.list = page.list /\ seen.missed = missed
    BY <1>1, <2>1 DEF APage
  <2> QED
    BY <1>7, <2>2, <2>3
<1> QED
  BY <1>5, <1>6, <1>7

LEMMA AnswerShows ==
  ASSUME RInv, SInv, NEW a \in Asks, AnswerArrives(a)
  PROVE  SInv'
<1>1. page \in APage /\ asks \in [Asks -> AnAsk] /\ asks[a] \in AnAsk /\ Asked(asks[a])
  BY DEF RInv, PageOK
<1>2. PICK k \in AnAsk : k = asks[a]
  BY <1>1
<1>3. k.what \in {"summary", "students", "student"}
  BY <1>1, <1>2 DEF AnswerArrives, Asked, AnAsk
<1>4. page' = [Shown(k) EXCEPT !.missed = Missed(k)]
  BY <1>2 DEF AnswerArrives
<1>5. /\ page'.stage = page.stage /\ page'.selected = page.selected /\ page'.view = page.view
      /\ k.what # "summary" => page'.summary = page.summary
      /\ k.what # "students" => page'.list = page.list
      /\ \A what \in {"summary", "students"} :
           what # k.what /\ what \in page.missed => what \in page'.missed
      /\ k.what = "summary" =>
           \/ page'.summary = page'.selected \/ "summary" \in page'.missed
           \/ ~Wanted(k) /\ page'.summary = page.summary /\ page'.missed = page.missed
      /\ k.what = "students" =>
           \/ page'.list = <<page'.selected, page'.view>> \/ "students" \in page'.missed
           \/ ~Wanted(k) /\ page'.list = page.list /\ page'.missed = page.missed
  BY <1>1, <1>3, <1>4, AnswerIsShownOrMissed
<1>6. ASSUME NEW b \in Asks, asks[b].what \in {"summary", "students"}, Wanted(asks[b]), b # a
      PROVE  asks'[b].what = asks[b].what /\ Wanted(asks[b])'
  <2>1. asks'[b] = asks[b]
    BY <1>1, <1>6 DEF AnswerArrives
  <2> QED
    BY <1>5, <1>6, <2>1 DEF Wanted
<1>7. ASSUME NEW what \in {"summary", "students"},
             what # k.what \/ ~Wanted(k),
             \E b \in Asks : asks[b].what = what /\ Wanted(asks[b])
      PROVE  \E b \in Asks : asks'[b].what = what /\ Wanted(asks[b])'
  <2>1. PICK b \in Asks : asks[b].what = what /\ Wanted(asks[b])
    BY <1>7
  <2>2. b # a
    BY <1>2, <1>7, <2>1
  <2> QED
    BY <1>6, <2>1, <2>2
<1>8. ASSUME page.stage = "ready", page.selected # None
      PROVE  \/ page'.summary = page'.selected \/ "summary" \in page'.missed
             \/ \E b \in Asks : asks'[b].what = "summary" /\ Wanted(asks[b])'
  <2>1. \/ page.summary = page.selected \/ "summary" \in page.missed
        \/ \E b \in Asks : asks[b].what = "summary" /\ Wanted(asks[b])
    BY <1>8 DEF SInv, ShownIsSelected
  <2>2. CASE k.what = "summary"
    BY <1>5, <1>7, <2>1, <2>2
  <2>3. CASE k.what # "summary"
    BY <1>5, <1>7, <2>1, <2>3
  <2> QED
    BY <2>2, <2>3
<1>9. ASSUME page.stage = "ready", page.selected # None
      PROVE  \/ page'.list = <<page'.selected, page'.view>> \/ "students" \in page'.missed
             \/ \E b \in Asks : asks'[b].what = "students" /\ Wanted(asks[b])'
  <2>1. \/ page.list = <<page.selected, page.view>> \/ "students" \in page.missed
        \/ \E b \in Asks : asks[b].what = "students" /\ Wanted(asks[b])
    BY <1>9 DEF SInv, ShownIsSelected
  <2>2. CASE k.what = "students"
    BY <1>5, <1>7, <2>1, <2>2
  <2>3. CASE k.what # "students"
    BY <1>5, <1>7, <2>1, <2>3
  <2> QED
    BY <2>2, <2>3
<1> QED
  BY <1>5, <1>8, <1>9 DEF SInv, ShownIsSelected

LEMMA SStep == RInv /\ SInv /\ [Next]_vars => SInv'
<1> SUFFICES ASSUME RInv, SInv, [Next]_vars PROVE SInv'
  OBVIOUS
<1>1. CASE UNCHANGED <<asks, page>>
  BY <1>1, StillShown DEF StillAsked, SameQuestion
<1>2. CASE PageMoves
  BY <1>2, PageShows
<1>3. ASSUME NEW a \in Asks, AskMoves(a)
      PROVE  SInv'
  BY <1>3, AnsweringKeepsQuestions, StillShown, AnswerShows DEF AskMoves
<1>4. CASE ContentRestarts
  BY <1>4, RestartKeepsQuestions, StillShown
<1>5. CASE OrganisationMoves \/ Tick \/ UNCHANGED vars
  BY <1>1, <1>5 DEF OrganisationMoves, Tick, vars
<1> QED
  BY <1>2, <1>3, <1>4, <1>5 DEF Next

\* The page shows the group and the view that are selected, or owes them to a
\* question that is still under way, or has missed them: the answers are matched to
\* nothing (coaching/page.tsx), and yet there is no other way to leave it with the
\* figures of another group.
THEOREM SelectionIsShown == Spec => []ShownIsSelected
<1>1. Init => SInv
  BY DEF Init, ClosedPage, SInv, ShownIsSelected
<1>2. SInv => ShownIsSelected
  BY DEF SInv
<1> QED
  BY <1>1, <1>2, SStep, RosterInvariance, PTL DEF Spec
=============================================================================
