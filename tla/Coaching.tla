------------------------------ MODULE Coaching ------------------------------
(***************************************************************************)
(* Coaching: the cohort views.  A coach's page (frontend/app/coaching)     *)
(* asks the content service (services/content-service/src/cohort.ts),      *)
(* which asks the auth service who is in the group and whether the asker   *)
(* may see it, and caches the answer (authClient.ts).  Organisation, which *)
(* this module extends, changes the groups meanwhile.                      *)
(*                                                                         *)
(* A view is a page number with an order of the students.  What is left of *)
(* an answer is the group, the view and the roster it was made from: the   *)
(* statistics themselves are in module Statistics.                         *)
(***************************************************************************)
EXTENDS Organisation

CONSTANTS
  Coach,      \* who is signed in on the page
  Views, FirstView,
  Asks,       \* requests of the page that may be under way
  Ttl,        \* TTL_MS in ticks
  FetchTime,  \* how long a fetch may take: the runtime's own limit
  MaxClicks, MaxSentOpen   \* bounds of the model

ASSUME CoachingAssumption ==
  /\ Coach \in People /\ FirstView \in Views /\ Ttl \in Nat \ {0}
  /\ {FetchTime, MaxClicks, MaxSentOpen} \subseteq Nat

VARIABLES
  cache,      \* of the content service, for this requester: [group -> roster and time]
  asks,       \* the page's requests under way
  page,
  clicks,     \* on the page so far, for the bound
  changed     \* history: when the roster of a group last changed

vars == <<orgVars, cache, asks, page, clicks, changed>>

NoRoster == [role |-> FALSE, members |-> {}]
NoEntry == [at |-> 0, roster |-> NoRoster, there |-> FALSE]
NoAsk == [what |-> "none", pc |-> "idle", group |-> None, view |-> FirstView,
          student |-> None, since |-> 0, roster |-> NoRoster]
\* `summary` is the group whose summary is shown, `list` the group and view of the
\* students shown, `listed` who they are.  `missed` (history): what the page asked
\* for and was refused, or has overwritten with an earlier question's answer.
ClosedPage == [stage |-> "closed", options |-> {}, selected |-> None,
              view |-> FirstView, summary |-> None, list |-> <<None, FirstView>>,
              listed |-> {}, student |-> None, error |-> FALSE, missed |-> {}]

\* What /internal/groups/:id/members would answer if it were one statement.
Roster(g) == [role |-> MayManage(g, Coach), members |-> GroupMembers(g)]

Init ==
  /\ OrgInit
  /\ cache = [g \in Groups |-> NoEntry]
  /\ asks = [a \in Asks |-> NoAsk]
  /\ page = ClosedPage
  /\ clicks = 0
  /\ changed = [g \in Groups |-> 0]

-----------------------------------------------------------------------------
(* The page.                                                               *)

Free == {a \in Asks : asks[a] = NoAsk}
Ask(what, g, view) == [NoAsk EXCEPT !.what = what, !.pc = "gate", !.group = g, !.view = view]

\* Mutant: the students' effect forgets `selected` among its dependencies.
AskSummaryOnly(g, view) ==
  \E a, b \in Free : a # b /\ asks' = [asks EXCEPT ![a] = Ask("summary", g, view)]

\* The effects on [selected] and on [selected, page, sort].
AskBoth(g, view) ==
  \E a, b \in Free :
    /\ a # b
    /\ asks' = [asks EXCEPT ![a] = Ask("summary", g, view), ![b] = Ask("students", g, view)]
AskStudents(g, view) ==
  \E a \in Free : asks' = [asks EXCEPT ![a] = Ask("students", g, view)]

\* resolveGroupOptions has ended, and the first option is selected.
Ready(options) ==
  IF options = {}
  THEN page' = [page EXCEPT !.stage = "ready"] /\ UNCHANGED asks
  ELSE \E g \in options :
         /\ page' = [page EXCEPT !.stage = "ready", !.options = options, !.selected = g]
         /\ AskBoth(g, FirstView)

\* An organisation's admin coaches all its groups, and asks for them.
LoadMemberships ==
  /\ page.stage = "memberships"
  /\ IF OrgRole(Coach) = "admin"
     THEN /\ page' = [page EXCEPT !.stage = "groups",
                                  !.options = {g \in groups : rows[g][Coach] = "head"}]
          /\ UNCHANGED asks
     ELSE Ready({g \in groups : rows[g][Coach] = "head"})
  /\ UNCHANGED <<orgVars, cache, clicks, changed>>
LoadGroups ==
  /\ page.stage = "groups"
  /\ Ready(page.options \cup groups)
  /\ UNCHANGED <<orgVars, cache, clicks, changed>>
\* An error is taken for no memberships, or for no further groups.
LoadFails ==
  /\ page.stage \in {"memberships", "groups"}
  /\ Ready(page.options)
  /\ UNCHANGED <<orgVars, cache, clicks, changed>>

\* The controls are there once there is a summary; until then, "Loading...".
Interactive == page.stage = "ready" /\ page.summary # None

Click == sent <= MaxSentOpen /\ clicks < MaxClicks /\ clicks' = clicks + 1

SelectGroup(g) ==
  /\ Click /\ Interactive /\ g \in page.options \ {page.selected}
  /\ page' = [page EXCEPT !.selected = g, !.view = FirstView, !.error = FALSE, !.missed = {}]
  /\ AskBoth(g, FirstView)
  /\ UNCHANGED <<orgVars, cache, changed>>

ChangeView(v) ==
  /\ Click /\ Interactive /\ v # page.view
  /\ page' = [page EXCEPT !.view = v, !.missed = @ \ {"students"}]
  /\ AskStudents(page.selected, v)
  /\ UNCHANGED <<orgVars, cache, changed>>

\* The page is left: what it asked for is still answered, and the answer ignored.
Leaving == [a \in Asks |-> IF asks[a].pc \in {"idle", "answering", "failed"} THEN NoAsk
                           ELSE [asks[a] EXCEPT !.what = "left", !.view = FirstView,
                                                !.student = None]]

\* A student's link leads to the drill-down page, under the selected group.
OpenStudent(p) ==
  /\ Click /\ Interactive /\ p \in page.listed
  /\ page' = [ClosedPage EXCEPT !.stage = "student"]
  /\ \E a \in Free :
       asks' = [Leaving EXCEPT ![a] = [Ask("student", page.selected, FirstView)
                                         EXCEPT !.student = p]]
  /\ UNCHANGED <<orgVars, cache, changed>>

OpenCoaching ==
  /\ Click /\ page.stage \in {"closed", "ready", "student"}
  /\ page' = [ClosedPage EXCEPT !.stage = "memberships"]
  /\ asks' = Leaving
  /\ UNCHANGED <<orgVars, cache, changed>>

-----------------------------------------------------------------------------
(* The content service's gate, and the roster behind it.                   *)

\* Mutant: an entry of exactly TTL_MS is still good.
FreshTooLong(entry) == entry.there /\ now - entry.at <= Ttl
Fresh(entry) == entry.there /\ now - entry.at < Ttl

Waiting(a, pc) == asks[a].pc = pc
Answered(ask, pc, roster) ==
  IF ask.what = "left" THEN NoAsk
  ELSE [ask EXCEPT !.pc = pc, !.roster = roster, !.since = 0]
AnswerFrom(a, roster) == asks' = [asks EXCEPT ![a] = Answered(@, "answering", roster)]

\* fetchGroupRoster: out of the cache, or from the auth service, which reads the
\* role and the members by separate statements (internalRoutes.ts).  Nothing is
\* seen of a fetch before the first, so that it is taken together with the miss.
Gate(a) ==
  /\ Waiting(a, "gate")
  /\ IF Fresh(cache[asks[a].group])
     THEN AnswerFrom(a, cache[asks[a].group].roster)
     ELSE asks' = [asks EXCEPT ![a].pc = "members", ![a].since = now,
                               ![a].roster.role = MayManage(asks[a].group, Coach)]
  /\ UNCHANGED <<orgVars, cache, page, clicks, changed>>
ReadMembers(a) ==
  /\ Waiting(a, "members")
  /\ asks' = [asks EXCEPT ![a].pc = "arriving",
                          ![a].roster.members = GroupMembers(asks[a].group)]
  /\ UNCHANGED <<orgVars, cache, page, clicks, changed>>
\* The entry's age counts from here; a refusal is cached too.
RosterArrives(a) ==
  /\ Waiting(a, "arriving")
  /\ cache' = [cache EXCEPT ![asks[a].group] =
                 [at |-> now, roster |-> asks[a].roster, there |-> TRUE]]
  /\ AnswerFrom(a, asks[a].roster)
  /\ UNCHANGED <<orgVars, page, clicks, changed>>

\* 502 and 500, the proxy's time limit, a lost connection: nothing is cached.
AskFails(a) ==
  /\ asks[a].pc \notin {"idle", "failed"}
  /\ asks' = [asks EXCEPT ![a] = Answered(@, "failed", NoRoster)]
  /\ UNCHANGED <<orgVars, cache, page, clicks, changed>>
ContentRestarts ==
  /\ cache' = [g \in Groups |-> NoEntry]
  /\ asks' = [a \in Asks |-> IF asks[a] = NoAsk THEN NoAsk
                             ELSE Answered(asks[a], "failed", NoRoster)]
  /\ UNCHANGED <<orgVars, page, clicks, changed>>

\* The gate's 403, the drill-down's 404.
Granted(ask) == /\ ask.pc = "answering" /\ ask.roster.role
                /\ ask.what = "student" => ask.student \in ask.roster.members
Wanted(ask) == /\ ask.group = page.selected
               /\ ask.what = "students" => ask.view = page.view
Shown(ask) ==
  CASE ask.what = "summary" ->
         IF Granted(ask) THEN [page EXCEPT !.summary = ask.group]
                         ELSE [page EXCEPT !.error = TRUE]
    [] ask.what = "students" ->
         IF Granted(ask) THEN [page EXCEPT !.list = <<ask.group, ask.view>>,
                                           !.listed = ask.roster.members]
                         ELSE page
    [] ask.what = "student" ->
         IF Granted(ask) THEN [page EXCEPT !.student = ask.student]
                         ELSE [page EXCEPT !.error = TRUE]
Missed(ask) ==
  IF ask.what \notin {"summary", "students"} \/ ~(Wanted(ask) \/ Granted(ask))
  THEN page.missed
  ELSE IF Wanted(ask) /\ Granted(ask) THEN page.missed \ {ask.what}
                                     ELSE page.missed \cup {ask.what}

\* The answer reaches the page, however late.
AnswerArrives(a) ==
  /\ asks[a].pc \in {"answering", "failed"}
  /\ page' = [Shown(asks[a]) EXCEPT !.missed = Missed(asks[a])]
  /\ asks' = [asks EXCEPT ![a] = NoAsk]
  /\ UNCHANGED <<orgVars, cache, clicks, changed>>

-----------------------------------------------------------------------------
Fetching(a) == asks[a].pc \in {"members", "arriving"}
Tick ==
  /\ now < MaxTime
  /\ \A a \in Asks : Fetching(a) => now - asks[a].since < FetchTime
  /\ now' = now + 1
  /\ UNCHANGED <<orgTables, joinAttempts, jobs, sent, expelled, cache, asks, page, clicks, changed>>

OrganisationMoves ==
  /\ OrgStep \/ ((clicks = 0 \/ sent < MaxSentOpen) /\ OrgArrival)
  /\ changed' = [g \in Groups |-> IF Roster(g)' # Roster(g) THEN now ELSE changed[g]]
  /\ UNCHANGED <<cache, asks, page, clicks>>
PageMoves ==
  \/ LoadMemberships \/ LoadGroups \/ LoadFails \/ OpenCoaching
  \/ \E g \in Groups : SelectGroup(g)
  \/ \E v \in Views : ChangeView(v)
  \/ \E p \in People : OpenStudent(p)
AskMoves(a) == \/ Gate(a) \/ ReadMembers(a) \/ RosterArrives(a)
               \/ AskFails(a) \/ AnswerArrives(a)

Next == OrganisationMoves \/ PageMoves \/ (\E a \in Asks : AskMoves(a)) \/ ContentRestarts \/ Tick

Spec == Init /\ [][Next]_vars

-----------------------------------------------------------------------------
Rosters == [role : BOOLEAN, members : SUBSET People]
TypeOK ==
  /\ OrgTypeOK
  /\ cache \in [Groups -> [at : 0..now, roster : Rosters, there : BOOLEAN]]
  /\ asks \in [Asks -> [what : {"none", "summary", "students", "student", "left"},
                        pc : {"idle", "gate", "members", "arriving", "answering", "failed"},
                        group : Groups \cup {None}, view : Views,
                        student : People \cup {None}, since : 0..now, roster : Rosters]]
  /\ page \in [stage : {"closed", "memberships", "groups", "ready", "student"},
               options : SUBSET Groups, selected : Groups \cup {None}, view : Views,
               summary : Groups \cup {None}, list : (Groups \cup {None}) \X Views,
               listed : SUBSET People, student : People \cup {None}, error : BOOLEAN,
               missed : SUBSET {"summary", "students"}]
  /\ clicks \in 0..MaxClicks
  /\ changed \in [Groups -> 0..now]

\* Whoever was removed, as a head or as a student, is honoured for the cache's time
\* and one fetch at most: an answer made from a roster that is not the present one
\* is made less than Ttl + FetchTime after the roster last changed, although the
\* entry is dated from its arrival and read by two statements (authClient.ts).
AnswersAreRecent ==
  [][\A a \in Asks :
       asks'[a].pc = "answering" /\ asks[a].pc # "answering" =>
         \/ asks'[a].roster = Roster(asks[a].group)
         \/ now - changed[asks[a].group] < Ttl + FetchTime]_vars

\* The page shows the group and the view that are selected, or has asked for them,
\* or has been refused them, or got an answer to an earlier question last: those
\* two are the only ways to leave it with another group's figures.
ShownIsSelected ==
  page.stage = "ready" /\ page.selected # None =>
    /\ \/ page.summary = page.selected \/ "summary" \in page.missed
       \/ \E a \in Asks : asks[a].what = "summary" /\ Wanted(asks[a])
    /\ \/ page.list = <<page.selected, page.view>> \/ "students" \in page.missed
       \/ \E a \in Asks : asks[a].what = "students" /\ Wanted(asks[a])
=============================================================================
