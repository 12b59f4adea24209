---------------------------- MODULE Organisation ----------------------------
(***************************************************************************)
(* Organisation: groups, memberships and invite codes of the auth service  *)
(* (services/auth-service/src: orgRoutes.ts, orgStore.ts, inviteStore.ts)  *)
(* as the settings' OrganisationCard uses them.                            *)
(*                                                                         *)
(* One organisation is modelled: no statement touches the rows of two.  A  *)
(* handler runs from await to await; the first of its checks is taken      *)
(* together with its arrival, which nobody else can observe.  Any person   *)
(* may send any request: the handlers trust no page.                       *)
(***************************************************************************)
EXTENDS Naturals, Sequences, FiniteSets

CONSTANTS
  People, Groups,
  Slots,                  \* requests the service may have under way
  None,
  JoinWindow, JoinLimit,  \* WINDOW_MS in ticks, MAX_ATTEMPTS
  MaxTime, MaxSent        \* bounds of the model

ASSUME OrganisationAssumption ==
  /\ None \notin People \cup Groups
  /\ {JoinWindow, JoinLimit, MaxTime, MaxSent} \subseteq Nat

VARIABLES
  admins,       \* rows of org_memberships without a group
  groups,       \* table org_groups
  rows,         \* rows of org_memberships with a group: [group -> [person -> role]]
  codes,        \* table invite_codes, in the order of insertion
  joinAttempts, \* in the service's memory
  jobs,         \* the requests under way, past their first check
  now,
  sent,         \* requests so far, for the bound
  expelled      \* history: who has left a group that nobody can be on the way into

orgTables == <<admins, groups, rows, codes>>
orgVars == <<orgTables, joinAttempts, jobs, now, sent, expelled>>

Roles == {"none", "member", "head"}
Idle == [op |-> "none", pc |-> "idle", group |-> None, user |-> None, code |-> 0]

-----------------------------------------------------------------------------
(* orgStore.ts, the queries.                                               *)

OrgRole(p) == IF p \in admins THEN "admin" ELSE "none"
\* Mutant: neither the query nor createInviteCode looks for the group itself.
GroupRoleAnywhere(g, p) == IF p \in admins THEN "admin" ELSE rows[g][p]
\* The best of the person's rows; none at all in a group that does not exist.
GroupRole(g, p) == CASE g \notin groups -> "none"
                     [] g \in groups /\ p \in admins -> "admin"
                     [] g \in groups /\ p \notin admins -> rows[g][p]
MayManage(g, p) == GroupRole(g, p) \in {"admin", "head"}
HasOrgMembership(p) == p \in admins \/ \E g \in groups : rows[g][p] # "none"
\* What a coach sees are members: a head who joined before is none any more.
GroupMembers(g) == {p \in People : rows[g][p] = "member"}

\* Mutant: DO UPDATE without its WHERE.
UpsertedAlways(old, role) == role
\* ON CONFLICT ... DO UPDATE SET role ... WHERE role <> 'head'.
Upserted(old, role) == IF old = "head" THEN old ELSE role
AddMembership(g, p, role) == rows' = [rows EXCEPT ![g][p] = Upserted(@, role)]

\* Mutant: the query forgets revoked_at and expires_at.
CodeUsableEver(k) == codes[k].group \in groups
CodeUsable(k) == codes[k].alive

-----------------------------------------------------------------------------
\* Nothing yet, or every group there, with a head and the others as members.
OrgInit ==
  /\ \/ /\ admins = {} /\ groups = {}
        /\ rows = [g \in Groups |-> [p \in People |-> "none"]]
     \/ \E founder, head \in People :
          /\ admins = {founder} /\ groups = Groups
          /\ founder # head
          /\ rows = [g \in Groups |->
                      [p \in People |-> IF p = head THEN "head" ELSE "member"]]
  /\ codes = <<>>
  /\ joinAttempts = [p \in People |-> <<>>]
  /\ jobs = [s \in Slots |-> Idle]
  /\ now = 0
  /\ sent = 0
  /\ expelled = {}

\* A request takes a slot, or has been answered when this step ends.
Arrives == sent < MaxSent /\ sent' = sent + 1
Continue(s, op, pc, g, u, k) ==
  /\ jobs[s] = Idle
  /\ jobs' = [jobs EXCEPT ![s] = [op |-> op, pc |-> pc, group |-> g, user |-> u, code |-> k]]
Finish(s) == jobs' = [jobs EXCEPT ![s] = Idle]
At(s, op, pc) == jobs[s].op = op /\ jobs[s].pc = pc

\* POST /orgs: both rows in one transaction.
CreateOrganisation(by) ==
  /\ Arrives /\ admins = {}
  /\ admins' = {by}
  /\ UNCHANGED <<groups, rows, codes, joinAttempts, jobs, now, expelled>>

\* POST /orgs/:id/groups.
AskGroup(s, by, g) ==
  /\ Arrives /\ OrgRole(by) = "admin"
  /\ Continue(s, "group", "write", g, None, 0)
  /\ UNCHANGED <<orgTables, joinAttempts, now, expelled>>
\* A name that is taken is refused by the table's unique index.
CreateGroup(s) ==
  /\ At(s, "group", "write")
  /\ groups' = groups \cup {jobs[s].group}
  /\ Finish(s)
  /\ UNCHANGED <<admins, rows, codes, joinAttempts, now, sent, expelled>>

\* POST /groups/:id/heads.
AskHead(s, by, g, u) ==
  /\ Arrives /\ g \in groups /\ OrgRole(by) = "admin"
  /\ Continue(s, "head", "belongs", g, u, 0)
  /\ expelled' = expelled \ {<<g, u>>}
  /\ UNCHANGED <<orgTables, joinAttempts, now>>
CheckBelongs(s) ==
  /\ At(s, "head", "belongs")
  /\ jobs' = [jobs EXCEPT ![s] = IF HasOrgMembership(@.user) THEN [@ EXCEPT !.pc = "write"]
                                                              ELSE Idle]
  /\ UNCHANGED <<orgTables, joinAttempts, now, sent, expelled>>
AddHead(s) ==
  /\ At(s, "head", "write")
  /\ AddMembership(jobs[s].group, jobs[s].user, "head")
  /\ Finish(s)
  /\ UNCHANGED <<admins, groups, codes, joinAttempts, now, sent, expelled>>

\* POST /groups/:id/invite-codes.
AskInvite(s, by, g) ==
  /\ Arrives /\ MayManage(g, by)
  /\ Continue(s, "invite", "write", g, None, 0)
  /\ UNCHANGED <<orgTables, joinAttempts, now, expelled>>
CreateInviteCode(s) ==
  /\ At(s, "invite", "write")
  /\ codes' = Append(codes, [group |-> jobs[s].group, alive |-> TRUE])
  /\ expelled' = {e \in expelled : e[1] # jobs[s].group}
  /\ Finish(s)
  /\ UNCHANGED <<admins, groups, rows, joinAttempts, now, sent>>

\* DELETE /invite-codes/:code.
AskRevoke(s, by, k) ==
  /\ Arrives /\ MayManage(codes[k].group, by)
  /\ Continue(s, "revoke", "write", codes[k].group, None, k)
  /\ UNCHANGED <<orgTables, joinAttempts, now, expelled>>
RevokeInviteCode(s) ==
  /\ At(s, "revoke", "write")
  /\ codes' = [codes EXCEPT ![jobs[s].code].alive = FALSE]
  /\ Finish(s)
  /\ UNCHANGED <<admins, groups, rows, joinAttempts, now, sent, expelled>>
\* A code may have been given expiresInDays.
CodeExpires(k) ==
  /\ codes[k].alive
  /\ codes' = [codes EXCEPT ![k].alive = FALSE]
  /\ UNCHANGED <<admins, groups, rows, joinAttempts, jobs, now, sent, expelled>>

\* joinAllowed: the attempts of the last window, this one included.
RecentJoins(p) ==
  Append(SelectSeq(joinAttempts[p], LAMBDA at : now - at < JoinWindow), now)

\* POST /orgs/join, answered 429 or 400, or past the look at the code.
AskJoin(s, by, k) ==
  /\ Arrives
  /\ joinAttempts' = [joinAttempts EXCEPT ![by] = RecentJoins(by)]
  /\ IF Len(RecentJoins(by)) <= JoinLimit /\ CodeUsable(k)
     THEN Continue(s, "join", "write", codes[k].group, by, k)
     ELSE UNCHANGED jobs
  /\ UNCHANGED <<orgTables, now, expelled>>
JoinByCode(s) ==
  /\ At(s, "join", "write")
  /\ AddMembership(jobs[s].group, jobs[s].user, "member")
  /\ Finish(s)
  /\ UNCHANGED <<admins, groups, codes, joinAttempts, now, sent, expelled>>

\* DELETE /groups/:gid/members/:uid: one may always leave.
AskRemove(s, by, g, u) ==
  /\ Arrives
  /\ by = u \/ MayManage(g, by)
  /\ Continue(s, "remove", "write", g, u, 0)
  /\ UNCHANGED <<orgTables, joinAttempts, now, expelled>>
\* Nobody is on the way into g as u: no usable code, and no request past its check.
WayIn(g, u) ==
  \/ \E k \in DOMAIN codes : codes[k].group = g /\ codes[k].alive
  \/ \E s \in Slots : jobs[s].op \in {"join", "head"} /\ jobs[s].group = g /\ jobs[s].user = u
RemoveMembership(s) ==
  LET g == jobs[s].group
      u == jobs[s].user IN
  /\ At(s, "remove", "write")
  /\ rows' = [rows EXCEPT ![g][u] = "none"]
  /\ expelled' = IF WayIn(g, u) THEN expelled ELSE expelled \cup {<<g, u>>}
  /\ Finish(s)
  /\ UNCHANGED <<admins, groups, codes, joinAttempts, now, sent>>

\* wrap: an exception of a handler is answered 500, and nothing has been written.
JobFails(s) ==
  /\ jobs[s] # Idle
  /\ Finish(s)
  /\ UNCHANGED <<orgTables, joinAttempts, now, sent, expelled>>
AuthRestarts ==
  /\ jobs' = [s \in Slots |-> Idle]
  /\ joinAttempts' = [p \in People |-> <<>>]
  /\ UNCHANGED <<orgTables, now, sent, expelled>>

OrgArrival ==
  \/ \E by \in People : CreateOrganisation(by)
  \/ \E s \in Slots, by \in People, g \in Groups : AskGroup(s, by, g) \/ AskInvite(s, by, g)
  \/ \E s \in Slots, by, u \in People, g \in Groups : AskHead(s, by, g, u) \/ AskRemove(s, by, g, u)
  \/ \E s \in Slots, by \in People, k \in DOMAIN codes : AskJoin(s, by, k) \/ AskRevoke(s, by, k)
OrgStep ==
  \/ \E s \in Slots : \/ CreateGroup(s) \/ CheckBelongs(s) \/ AddHead(s) \/ CreateInviteCode(s)
                      \/ RevokeInviteCode(s) \/ JoinByCode(s) \/ RemoveMembership(s) \/ JobFails(s)
  \/ \E k \in DOMAIN codes : CodeExpires(k)
  \/ AuthRestarts

-----------------------------------------------------------------------------
OrgTypeOK ==
  /\ admins \subseteq People /\ groups \subseteq Groups
  /\ rows \in [Groups -> [People -> Roles]]
  /\ codes \in Seq([group : groups, alive : BOOLEAN])
  /\ joinAttempts \in [People -> Seq(0..now)]
  /\ jobs \in [Slots -> [op : {"none", "group", "head", "invite", "revoke", "join", "remove"},
                         pc : {"idle", "belongs", "write"}, group : Groups \cup {None},
                         user : People \cup {None}, code : 0..Len(codes)]]
  /\ now \in 0..MaxTime /\ sent \in 0..MaxSent
  /\ expelled \subseteq Groups \X People

\* Whatever joins, appointments and removals overlap, a head stops being one only
\* by a removal: the upsert "can only ever raise privilege, never lower it"
\* (orgStore.ts, addMembership).
HeadsStay ==
  [][\A g \in Groups, p \in People :
       rows[g][p] = "head" /\ rows'[g][p] # "head" =>
         \E s \in Slots : jobs[s].op = "remove" /\ jobs[s].group = g /\ jobs[s].user = p
                          /\ jobs'[s] = Idle /\ rows'[g][p] = "none"]_orgVars

\* Someone removed from a group when it has no usable code, and no join or
\* appointment of theirs is past its check, stays out until there is a new code or
\* a new appointment, whatever old codes and late requests there still are.
ExpulsionHolds == \A e \in expelled : rows[e[1]][e[2]] = "none"
=============================================================================
