--------------------------- MODULE AccountsProofs ---------------------------
(***************************************************************************)
(* Theorems about Accounts, for any names, addresses, tabs and clock, and  *)
(* their proofs.  IInv is the type of the state and what makes a reset     *)
(* link write at most one password: a request past the UPDATE of           *)
(* consumeResetToken is the only one of its link, and nothing has been     *)
(* written for that link yet.  MInv, proved after it, relates what mails,  *)
(* links and pages say to the accounts they say it of; LInv is about the   *)
(* limit on attempts.                                                      *)
(***************************************************************************)
EXTENDS Accounts, TLAPS, SequenceTheorems, FiniteSetTheorems

Ops == {"register", "verify", "resend", "setEmail", "forgot", "reset"}
Stages == {"form", "domain", "credentials", "done", "unverified", "verifying", "success",
           "error", "sending", "sent"}
Tab == [page : {"blank", "register", "login", "verify", "forgot", "reset", "settings"},
        stage : Stages, session : Names \cup {None}, op : Ops \cup {None},
        pc : {"idle", "create", "check", "insert", "send", "consume", "mark", "lookup",
              "set", "write"},
        edited : BOOLEAN, name : Names \cup {None}, address : Addresses \cup {None},
        password : 0..MaxRequests, link : Nat]
User == [email : Addresses \cup {None}, verified : BOOLEAN, password : 0..MaxRequests]

\* A request under way is that of its page, and has what its next statement needs.
Busy(tab, registered) ==
  /\ tab.op \in Ops
  /\ tab.op \in {"register", "verify", "forgot", "reset"} => tab.page = tab.op
  /\ tab.op = "setEmail" => tab.page = "settings"
  /\ tab.pc \in {"send", "consume", "mark", "write"} => tab.link # 0
  /\ tab.pc = "write" => tab.op = "reset"
  /\ tab.pc \in {"create", "check", "insert", "lookup", "set"} => tab.address \in Addresses
  /\ tab.pc = "create" => tab.name \in Names
  /\ tab.pc \in {"check", "insert", "lookup", "set"} => tab.name \in registered

\* A tab, when those accounts are registered and so many links have been issued.
TabOK(tab, registered, issued) ==
  /\ tab \in Tab /\ tab.stage \in Pages[tab.page]
  /\ tab.session \in registered \cup {None}
  /\ tab.link \in 0..issued
  /\ tab.page = "reset" => tab.link # 0
  /\ tab.pc # "idle" => Busy(tab, registered)

TabsOK == /\ tabs = [t \in Tabs |-> tabs[t]]
          /\ \A t \in Tabs : TabOK(tabs[t], Registered, Len(links))

UsersOK == /\ Registered \subseteq Names
           /\ users \in [Registered -> User]
           /\ muddled \subseteq Registered

LinksOK == links \in Seq(Link) /\ resets \in Seq(Nat) /\ Len(resets) = Len(links)

CountsOK == now \in 0..MaxTime /\ sent \in 0..MaxRequests /\ faults \in 0..MaxFaults

\* No request has written for an unused link, and one that is about to write is
\* the only one of its link, which is used and nothing written for it.
Writing(t) == tabs[t].pc = "write"
WritersOK ==
  /\ \A k \in DOMAIN links : resets[k] <= 1 /\ (links[k].used = Never => resets[k] = 0)
  /\ \A t \in Tabs : Writing(t) =>
       links[tabs[t].link].used # Never /\ resets[tabs[t].link] = 0
  /\ \A t, u \in Tabs : Writing(t) /\ Writing(u) /\ tabs[t].link = tabs[u].link => t = u

IInv == TabsOK /\ UsersOK /\ LinksOK /\ CountsOK /\ WritersOK

-----------------------------------------------------------------------------
(* Tabs.                                                                   *)

LEMMA Bounds == Never \in Nat /\ Never > MaxTime /\ MaxTime \in Nat /\ MaxRequests \in Nat
                /\ MaxFaults \in Nat /\ VerifyTtl \in Nat /\ ResetTtl \in Nat
BY AccountsAssumption DEF Never

\* A page nobody has sent anything from.
LEMMA BlankOK ==
  ASSUME NEW registered, registered \subseteq Names, NEW n \in Nat,
         NEW session \in registered \cup {None}
  PROVE  TabOK(BlankFor(session), registered, n) /\ BlankFor(session).pc = "idle"
<1>1. BlankTab \in Tab
  BY Bounds DEF BlankTab, Tab, Stages
<1>2. BlankFor(session) \in Tab
  BY <1>1 DEF BlankFor, Tab
<1>3. /\ BlankFor(session).page = "blank" /\ BlankFor(session).stage = "form"
      /\ BlankFor(session).session = session /\ BlankFor(session).pc = "idle"
      /\ BlankFor(session).link = 0
  BY DEF BlankFor, BlankTab
<1>4. Pages["blank"] = {"form"}
  BY DEF Pages
<1> QED
  BY <1>2, <1>3, <1>4 DEF TabOK

\* A request's answer leaves a page at rest.
LEMMA ReplyOK ==
  ASSUME NEW registered, registered \subseteq Names, NEW n \in Nat, NEW tab,
         TabOK(tab, registered, n), tab.pc # "idle", NEW ok \in BOOLEAN
  PROVE  TabOK(Reply(tab, ok), registered, n) /\ Reply(tab, ok).pc = "idle"
<1> DEFINE Rest(r) == [r EXCEPT !.pc = "idle"]
           Fine(r) == TabOK(Rest(r), registered, n) /\ Rest(r).pc = "idle"
<1>1. tab \in Tab /\ Busy(tab, registered) /\ tab.session \in registered \cup {None}
  BY DEF TabOK
<1>2. Fine(AfterError(tab))
  <2>1. CASE tab.op = "resend"
    BY <1>1, <2>1, ZenonT(30) DEF TabOK, AfterError, Tab, Busy
  <2>2. CASE tab.op \in {"verify", "reset"}
    <3> DEFINE blank == BlankFor(tab.session)
               stage == IF tab.op = "verify" THEN "error" ELSE "form"
               link == IF tab.op = "verify" THEN 0 ELSE tab.link
               r == [blank EXCEPT !.page = tab.op, !.stage = stage, !.link = link]
    <3>1. AfterError(tab) = r
      BY <2>2 DEF AfterError
    <3>2. blank \in Tab /\ blank.session = tab.session /\ blank.pc = "idle"
      BY <1>1, BlankOK DEF TabOK, BlankFor, BlankTab
    <3>3. /\ stage \in Stages /\ stage \in Pages[tab.op]
          /\ link \in 0..n /\ link \in Nat /\ (tab.op = "reset" => link # 0)
      BY <1>1, <2>2 DEF TabOK, Tab, Stages, Pages, Busy
    <3> HIDE DEF blank, stage, link
    <3>4. /\ Rest(r) \in Tab /\ Rest(r).page = tab.op /\ Rest(r).stage = stage
          /\ Rest(r).link = link /\ Rest(r).session = tab.session /\ Rest(r).pc = "idle"
      BY <2>2, <3>2, <3>3 DEF Tab
    <3>5. TabOK(Rest(r), registered, n)
      BY <1>1, <3>3, <3>4 DEF TabOK
    <3> QED
      BY <3>1, <3>4, <3>5
  <2>3. CASE tab.op \notin {"resend", "verify", "reset"}
    <3>1. AfterError(tab) = BlankFor(tab.session)
      BY <2>3 DEF AfterError
    <3>2. TabOK(BlankFor(tab.session), registered, n) /\ BlankFor(tab.session).pc = "idle"
      BY <1>1, BlankOK
    <3>3. BlankFor(tab.session) \in Tab
      BY <3>2 DEF TabOK
    <3>4. Rest(BlankFor(tab.session)) = BlankFor(tab.session)
      BY <3>2, <3>3 DEF Tab
    <3> QED
      BY <3>1, <3>2, <3>4
  <2> QED
    BY <2>1, <2>2, <2>3
<1>3. ASSUME tab.op \in DOMAIN StageIfOk
      PROVE  Fine(AfterOk(tab))
  <2>1. tab.op \in {"register", "verify", "reset", "setEmail"}
    BY <1>3 DEF StageIfOk
  <2>2. AfterOk(tab) = [tab EXCEPT !.stage = StageIfOk[tab.op], !.op = None]
    BY <1>3 DEF AfterOk
  <2>3. StageIfOk[tab.op] \in Stages /\ StageIfOk[tab.op] \in Pages[tab.page]
    BY <1>1, <2>1 DEF StageIfOk, Stages, Pages, Busy
  <2> DEFINE stage == StageIfOk[tab.op]
             r == [tab EXCEPT !.stage = stage, !.op = None]
  <2> HIDE DEF stage
  <2>4. /\ Rest(r) \in Tab /\ Rest(r).page = tab.page /\ Rest(r).stage = stage
        /\ Rest(r).link = tab.link /\ Rest(r).session = tab.session /\ Rest(r).pc = "idle"
    BY <1>1, <2>3 DEF Tab, stage
  <2>5. TabOK(Rest(r), registered, n)
    BY <1>1, <2>3, <2>4 DEF TabOK, stage
  <2> QED
    BY <2>2, <2>4, <2>5 DEF stage
<1>4. Fine(AfterOk(tab))
  BY <1>2, <1>3 DEF AfterOk
<1> QED
  BY <1>2, <1>4 DEF Reply

\* A page that is opened, before it sends anything.
LEMMA OpenedOK ==
  ASSUME IInv, NEW t \in Tabs, NEW page \in {"register", "verify", "forgot", "reset", "settings"}
  PROVE  /\ Opened(t, page) \in Tab /\ Opened(t, page).page = page
         /\ Opened(t, page).stage \in Pages[page] /\ Opened(t, page).session = tabs[t].session
         /\ Opened(t, page).link = 0 /\ Opened(t, page).pc = "idle"
<1> DEFINE blank == BlankFor(tabs[t].session)
           stage == FirstStage[page]
<1>1. blank \in Tab /\ blank.session = tabs[t].session /\ blank.pc = "idle" /\ blank.link = 0
  <2>1. tabs[t].session \in Registered \cup {None} /\ Registered \subseteq Names
        /\ Len(links) \in Nat
    BY LenProperties DEF IInv, TabsOK, TabOK, UsersOK, LinksOK
  <2> QED
    BY <2>1, BlankOK DEF TabOK, BlankFor, BlankTab
<1>2. stage \in Stages /\ stage \in Pages[page]
  BY DEF FirstStage, Stages, Pages
<1>3. Opened(t, page) = [blank EXCEPT !.page = page, !.stage = stage]
  BY DEF Opened
<1> HIDE DEF blank, stage
<1> QED
  BY <1>1, <1>2, <1>3 DEF Tab

-----------------------------------------------------------------------------
(* Steps of one tab.                                                       *)

\* Links are never withdrawn, used links stay used, and no password is written.
LinksKept ==
  /\ Len(links) <= Len(links')
  /\ \A k \in 1..Len(links) :
       resets'[k] = resets[k] /\ (links'[k].used = Never => links[k].used = Never)
  /\ \A k \in 1..Len(links') : k > Len(links) => resets'[k] = 0

LEMMA Lengths ==
  ASSUME LinksOK
  PROVE  Len(links) \in Nat /\ DOMAIN links = 1..Len(links) /\ DOMAIN resets = 1..Len(links)
BY LenProperties DEF LinksOK

LEMMA TabsKept ==
  ASSUME TabsOK, LinksOK, NEW t \in Tabs, NEW r, tabs' = [tabs EXCEPT ![t] = r],
         LinksOK', Len(links) <= Len(links'), Registered \subseteq Registered',
         TabOK(r, Registered', Len(links'))
  PROVE  /\ TabsOK' /\ tabs'[t] = r /\ \A u \in Tabs : u # t => tabs'[u] = tabs[u]
<1> DEFINE n == Len(links)
           m == Len(links')
           regs == Registered
           regs2 == Registered'
<1>1. n \in Nat /\ m \in Nat /\ n <= m /\ regs \subseteq regs2
  BY Lengths, LenProperties DEF LinksOK
<1>2. tabs'[t] = r /\ \A u \in Tabs : u # t => tabs'[u] = tabs[u]
  BY DEF TabsOK
<1>3. \A u \in Tabs : TabOK(tabs[u], regs, n)
  BY DEF TabsOK
<1>4. TabOK(r, regs2, m)
  OBVIOUS
<1>5. tabs' = [u \in Tabs |-> tabs'[u]]
  BY DEF TabsOK
<1>6. ASSUME NEW u \in Tabs
      PROVE  TabOK(tabs'[u], regs2, m)
  <2> HIDE DEF n, m, regs, regs2
  <2>1. CASE u = t
    BY <1>2, <1>4, <2>1
  <2>2. CASE u # t
    BY <1>1, <1>2, <1>3, <2>2 DEF TabOK, Busy
  <2> QED
    BY <2>1, <2>2
<1> QED
  BY <1>2, <1>5, <1>6 DEF TabsOK

LEMMA TabStep ==
  ASSUME IInv, NEW t \in Tabs, NEW r, tabs' = [tabs EXCEPT ![t] = r], r.pc # "write",
         UsersOK', LinksOK', CountsOK', LinksKept,
         Registered \subseteq Registered', TabOK(r, Registered', Len(links'))
  PROVE  IInv'
<1> DEFINE n == Len(links)
           m == Len(links')
<1>1. n \in Nat /\ m \in Nat /\ n <= m /\ DOMAIN links = 1..n /\ DOMAIN links' = 1..m
  <2>1. LinksOK
    BY DEF IInv
  <2>2. Len(links') \in Nat /\ DOMAIN links' = 1..Len(links')
    BY LenProperties DEF LinksOK
  <2> QED
    BY <2>1, <2>2, Lengths DEF LinksKept
<1>2. tabs'[t] = r /\ \A u \in Tabs : u # t => tabs'[u] = tabs[u]
  BY DEF IInv, TabsOK
<1>3. \A u \in Tabs : TabOK(tabs[u], Registered, n)
  BY DEF IInv, TabsOK
<1>5. TabsOK'
  BY <1>1, TabsKept DEF IInv
<1>6. \A u \in Tabs : tabs'[u].pc = "write" => tabs'[u] = tabs[u]
  BY <1>2
<1>7. \A u \in Tabs : tabs[u].pc = "write" => tabs[u].link \in 1..n
  BY <1>1, <1>3 DEF TabOK, Busy
<1>8. WritersOK'
  <2> USE DEF Writing
  <2>1. /\ \A k \in 1..n : resets[k] <= 1 /\ (links[k].used = Never => resets[k] = 0)
        /\ \A u \in Tabs : tabs[u].pc = "write" =>
             links[tabs[u].link].used # Never /\ resets[tabs[u].link] = 0
        /\ \A u, v \in Tabs : tabs[u].pc = "write" /\ tabs[v].pc = "write"
                              /\ tabs[u].link = tabs[v].link => u = v
    BY <1>1 DEF IInv, WritersOK
  <2>2. /\ \A k \in 1..n : resets'[k] = resets[k]
                           /\ (links'[k].used = Never => links[k].used = Never)
        /\ \A k \in 1..m : k > n => resets'[k] = 0
    BY DEF LinksKept
  <2>3. Never' = Never
    BY DEF Never
  <2> HIDE DEF n, m
  <2>4. \A k \in 1..m : resets'[k] <= 1 /\ (links'[k].used = Never => resets'[k] = 0)
    BY <1>1, <2>1, <2>2
  <2>5. \A u \in Tabs : tabs'[u].pc = "write" =>
          links'[tabs'[u].link].used # Never /\ resets'[tabs'[u].link] = 0
    BY <1>6, <1>7, <2>1, <2>2
  <2>6. \A u, v \in Tabs : tabs'[u].pc = "write" /\ tabs'[v].pc = "write"
                           /\ tabs'[u].link = tabs'[v].link => u = v
    BY <1>6, <2>1
  <2> QED
    BY <1>1, <2>3, <2>4, <2>5, <2>6 DEF WritersOK
<1> QED
  BY <1>5, <1>8 DEF IInv

\* A step that writes no table.
LEMMA QuietStep ==
  ASSUME IInv, NEW t \in Tabs, NEW r, tabs' = [tabs EXCEPT ![t] = r], r.pc # "write",
         UNCHANGED <<users, links, muddled, resets>>, CountsOK',
         TabOK(r, Registered, Len(links))
  PROVE  IInv'
<1>1. UsersOK' /\ LinksOK' /\ Registered' = Registered /\ Len(links') = Len(links)
  BY DEF IInv, UsersOK, LinksOK, Registered
<1>2. LinksKept
  <2>1. Len(links) \in Nat
    BY Lengths DEF IInv
  <2> QED
    BY <2>1 DEF LinksKept
<1> QED
  BY <1>1, <1>2, TabStep

\* A request's answer.
LEMMA AnswerStep ==
  ASSUME IInv, NEW t \in Tabs, NEW ok \in BOOLEAN, Answer(t, ok), tabs[t].pc # "idle"
  PROVE  \E r : /\ tabs' = [tabs EXCEPT ![t] = r] /\ r.pc # "write"
                /\ TabOK(r, Registered, Len(links))
<1>1. TabOK(tabs[t], Registered, Len(links)) /\ Registered \subseteq Names /\ Len(links) \in Nat
  BY Lengths DEF IInv, TabsOK, UsersOK
<1>2. TabOK(Reply(tabs[t], ok), Registered, Len(links)) /\ Reply(tabs[t], ok).pc = "idle"
  BY <1>1, ReplyOK
<1>3. tabs' = [tabs EXCEPT ![t] = Reply(tabs[t], ok)]
  BY DEF Answer
<1> QED
  BY <1>2, <1>3

-----------------------------------------------------------------------------
(* Pages.                                                                  *)

\* What a page sends is its tab, with the request in it.
LEMMA RequestStep ==
  ASSUME IInv, NEW t \in Tabs, NEW tab \in Tab, NEW op \in Ops, NEW pc \in
           {"create", "check", "consume", "lookup"},
         Request(t, tab, op, pc), UNCHANGED <<users, links, now, muddled, resets, faults>>,
         tab.stage \in Pages[tab.page], tab.session \in Registered \cup {None},
         tab.link \in 0..Len(links), tab.page = "reset" => tab.link # 0,
         op \in {"register", "verify", "forgot", "reset"} => tab.page = op,
         op = "setEmail" => tab.page = "settings",
         pc = "consume" => tab.link # 0,
         pc # "consume" => tab.address \in Addresses,
         pc = "create" => tab.name \in Names,
         pc \in {"check", "lookup"} => tab.name \in Registered
  PROVE  IInv'
<1> DEFINE r == [tab EXCEPT !.op = op, !.pc = pc]
<1>1. tabs' = [tabs EXCEPT ![t] = r]
  BY DEF Request
<1>2. /\ r \in Tab /\ r.page = tab.page /\ r.stage = tab.stage /\ r.session = tab.session
      /\ r.link = tab.link /\ r.op = op /\ r.pc = pc /\ r.address = tab.address
      /\ r.name = tab.name
  BY DEF Tab
<1>3. CountsOK'
  BY Bounds DEF IInv, CountsOK, Request
<1> HIDE DEF r
<1>4. Busy(r, Registered)
  BY <1>2 DEF Busy
<1>5. TabOK(r, Registered, Len(links))
  BY <1>2, <1>4 DEF TabOK
<1> QED
  BY <1>1, <1>2, <1>3, <1>5, QuietStep

\* A page that is at rest once it has its answer.
LEMMA RestStep ==
  ASSUME IInv, NEW t \in Tabs, NEW tab, TabOK(tab, Registered, Len(links)), tab.pc = "idle",
         Request(t, tab, None, "idle"),
         UNCHANGED <<users, links, now, muddled, resets, faults>>
  PROVE  IInv'
<1> DEFINE r == [tab EXCEPT !.op = None, !.pc = "idle"]
<1>1. tabs' = [tabs EXCEPT ![t] = r]
  BY DEF Request
<1>2. /\ r \in Tab /\ r.page = tab.page /\ r.stage = tab.stage /\ r.session = tab.session
      /\ r.link = tab.link /\ r.pc = "idle"
  BY DEF Tab, TabOK
<1>3. CountsOK'
  BY Bounds DEF IInv, CountsOK, Request
<1> HIDE DEF r
<1>4. TabOK(r, Registered, Len(links))
  BY <1>2 DEF TabOK
<1> QED
  BY <1>1, <1>2, <1>3, <1>4, QuietStep

LEMMA TabFacts ==
  ASSUME IInv, NEW t \in Tabs
  PROVE  /\ TabOK(tabs[t], Registered, Len(links)) /\ tabs[t] \in Tab
         /\ tabs[t].session \in Registered \cup {None}
         /\ Registered \subseteq Names /\ None \notin Names \cup Addresses
         /\ Len(links) \in Nat /\ DOMAIN links = 1..Len(links) /\ sent + 1 \in Nat
         /\ (sent < MaxRequests => sent + 1 \in 0..MaxRequests)
BY Lengths, Bounds, AccountsAssumption, SMTT(30) DEF IInv, TabsOK, TabOK, UsersOK, CountsOK

LEMMA OpenLinkKeeps ==
  ASSUME IInv, NEW t \in Tabs, NEW k \in DOMAIN links, OpenLink(t, k)
  PROVE  IInv'
<1>1. k \in 1..Len(links) /\ Len(links) \in Nat
  BY TabFacts
<1>2. CASE Request(t, [Opened(t, "verify") EXCEPT !.link = k], "verify", "consume")
  <2> DEFINE open == Opened(t, "verify")
             tab == [open EXCEPT !.link = k]
  <2>1. open \in Tab /\ open.page = "verify" /\ open.stage \in Pages["verify"]
        /\ open.session \in Registered \cup {None}
    BY OpenedOK, TabFacts
  <2> HIDE DEF open
  <2>2. tab \in Tab /\ tab.page = "verify" /\ tab.stage \in Pages["verify"]
        /\ tab.session \in Registered \cup {None} /\ tab.link = k
    BY <1>1, <2>1 DEF Tab
  <2>3. Request(t, tab, "verify", "consume")
    BY <1>2 DEF open
  <2> HIDE DEF tab
  <2> QED
    BY <1>1, <2>2, <2>3, RequestStep DEF OpenLink, history, Ops
<1>3. CASE tabs' = [tabs EXCEPT ![t] = [Opened(t, "reset") EXCEPT !.link = k]]
           /\ UNCHANGED sent
  <2> DEFINE open == Opened(t, "reset")
             tab == [open EXCEPT !.link = k]
  <2>1. open \in Tab /\ open.page = "reset" /\ open.stage \in Pages["reset"]
        /\ open.session \in Registered \cup {None} /\ open.pc = "idle"
    BY OpenedOK, TabFacts
  <2> HIDE DEF open
  <2>2. tab \in Tab /\ tab.page = "reset" /\ tab.stage \in Pages["reset"]
        /\ tab.session \in Registered \cup {None} /\ tab.link = k /\ tab.pc = "idle"
    BY <1>1, <2>1 DEF Tab
  <2>3. tabs' = [tabs EXCEPT ![t] = tab]
    BY <1>3 DEF open
  <2> HIDE DEF tab
  <2>4. TabOK(tab, Registered, Len(links))
    BY <1>1, <2>2 DEF TabOK
  <2>5. CountsOK'
    BY <1>3 DEF IInv, CountsOK, OpenLink
  <2> QED
    BY <2>2, <2>3, <2>4, <2>5, QuietStep DEF OpenLink, history
<1> QED
  BY <1>2, <1>3 DEF OpenLink

LEMMA SubmitRegistrationKeeps ==
  ASSUME IInv, NEW t \in Tabs, NEW name \in Names, NEW address \in Addresses,
         SubmitRegistration(t, name, address)
  PROVE  IInv'
<1> DEFINE open == Opened(t, "register")
           tab == [open EXCEPT !.name = name, !.address = address, !.password = sent + 1]
<1>1. open \in Tab /\ open.page = "register" /\ open.stage \in Pages["register"]
      /\ open.session \in Registered \cup {None} /\ open.link = 0 /\ Len(links) \in Nat
  BY OpenedOK, TabFacts
<1>2. Request(t, tab, "register", "create")
  BY DEF SubmitRegistration
<1>3. sent + 1 \in 0..MaxRequests
  BY <1>2, TabFacts DEF Request
<1> HIDE DEF open
<1>4. tab \in Tab /\ tab.page = "register" /\ tab.stage \in Pages["register"]
      /\ tab.session \in Registered \cup {None} /\ tab.link = 0
      /\ tab.name = name /\ tab.address = address
  BY <1>1, <1>3 DEF Tab
<1> HIDE DEF tab
<1> QED
  BY <1>1, <1>2, <1>4, RequestStep DEF SubmitRegistration, history, Ops

LEMMA BackKeeps ==
  ASSUME IInv, NEW t \in Tabs, BackToCredentials(t)
  PROVE  IInv'
<1> DEFINE tab == tabs[t]
           r == [tab EXCEPT !.stage = "credentials", !.edited = TRUE]
<1>1. TabOK(tab, Registered, Len(links)) /\ tab \in Tab /\ tab.page = "register"
  BY TabFacts DEF BackToCredentials
<1>2. tabs' = [tabs EXCEPT ![t] = r]
  BY DEF BackToCredentials, IInv, TabsOK
<1>3. /\ r \in Tab /\ r.page = tab.page /\ r.stage = "credentials" /\ r.session = tab.session
      /\ r.link = tab.link /\ r.pc = tab.pc /\ r.op = tab.op /\ r.name = tab.name
      /\ r.address = tab.address
  BY <1>1 DEF Tab, Stages
<1>4. CountsOK' /\ UNCHANGED <<users, links, muddled, resets>>
  BY DEF IInv, CountsOK, BackToCredentials, history
<1>5. tab.pc # "write" /\ (tab.pc # "idle" => Busy(tab, Registered))
  BY <1>1 DEF TabOK, Busy
<1>6. "credentials" \in Pages["register"]
  BY DEF Pages
<1> HIDE DEF r, tab
<1>7. TabOK(r, Registered, Len(links))
  BY <1>1, <1>3, <1>5, <1>6 DEF TabOK, Busy
<1> QED
  BY <1>2, <1>3, <1>4, <1>5, <1>7, QuietStep

LEMMA ResendKeeps ==
  ASSUME IInv, NEW t \in Tabs, NEW name \in Names, Resend(t, name)
  PROVE  IInv'
<1> DEFINE tab == [tabs[t] EXCEPT !.name = name, !.address = users[name].email]
<1>1. name \in Registered /\ users[name].email \in Addresses
  BY DEF Resend, IInv, UsersOK, User
<1>2. Request(t, tab, "resend", "check")
  BY DEF Resend
<1>3. TabOK(tabs[t], Registered, Len(links)) /\ tabs[t] \in Tab
  BY TabFacts
<1>4. /\ tab \in Tab /\ tab.page = tabs[t].page /\ tab.stage = tabs[t].stage
      /\ tab.session = tabs[t].session /\ tab.link = tabs[t].link
      /\ tab.name = name /\ tab.address = users[name].email
  BY <1>1, <1>3 DEF Tab
<1> HIDE DEF tab
<1>5. /\ tab.stage \in Pages[tab.page] /\ tab.session \in Registered \cup {None}
      /\ tab.link \in 0..Len(links) /\ (tab.page = "reset" => tab.link # 0)
  BY <1>3, <1>4 DEF TabOK
<1>6. UNCHANGED <<users, links, now, muddled, resets, faults>>
  BY DEF Resend, history
<1> QED
  BY <1>1, <1>2, <1>4, <1>5, <1>6, RequestStep DEF Ops

LEMMA LoginKeeps ==
  ASSUME IInv, NEW t \in Tabs, NEW name \in Names, NEW right \in BOOLEAN,
         Login(t, name, right)
  PROVE  IInv'
<1> DEFINE passed == AttemptAllowed(<<"login", name>>)
           known == name \in Registered /\ right
           barred == known /\ users[name].email # None /\ ~users[name].verified
           ok == passed /\ known /\ ~barred
           unverified == passed /\ barred
           tab == LoginShown(name, ok, unverified)
<1>1. Request(t, tab, None, "idle") /\ UNCHANGED <<users, links, now, muddled, resets, faults>>
  BY DEF Login
<1>2. ok => name \in Registered /\ ~unverified
  OBVIOUS
<1> HIDE DEF ok, unverified
<1>3. TabOK(tab, Registered, Len(links)) /\ tab.pc = "idle"
  <2>1. Registered \subseteq Names /\ Len(links) \in Nat
    BY TabFacts
  <2>2. CASE ok
    <3>1. tab = BlankFor(name)
      BY <1>2, <2>2 DEF LoginShown
    <3>2. TabOK(BlankFor(name), Registered, Len(links)) /\ BlankFor(name).pc = "idle"
      BY <1>2, <2>1, <2>2, BlankOK
    <3> QED
      BY <3>1, <3>2
  <2>3. CASE ~ok /\ unverified
    <3>1. tab = [BlankTab EXCEPT !.page = "login", !.stage = "unverified", !.name = name]
      BY <2>3 DEF LoginShown
    <3>2. BlankTab \in Tab /\ BlankTab.session = None /\ BlankTab.pc = "idle"
          /\ BlankTab.link = 0
      BY Bounds DEF BlankTab, Tab, Stages
    <3>3. /\ tab \in Tab /\ tab.page = "login" /\ tab.stage = "unverified"
          /\ tab.session = None /\ tab.link = 0 /\ tab.pc = "idle"
      BY <3>1, <3>2, ZenonT(30) DEF Tab, Stages
    <3>4. "unverified" \in Pages["login"]
      BY DEF Pages
    <3> HIDE DEF tab
    <3> QED
      BY <2>1, <3>3, <3>4 DEF TabOK
  <2>4. CASE ~ok /\ ~unverified
    <3>1. tab = BlankTab
      BY <2>4 DEF LoginShown
    <3>2. /\ BlankTab \in Tab /\ BlankTab.page = "blank" /\ BlankTab.stage = "form"
          /\ BlankTab.session = None /\ BlankTab.link = 0 /\ BlankTab.pc = "idle"
      BY Bounds DEF BlankTab, Tab, Stages
    <3>3. "form" \in Pages["blank"]
      BY DEF Pages
    <3> HIDE DEF tab
    <3> QED
      BY <2>1, <3>1, <3>2, <3>3 DEF TabOK
  <2> QED
    BY <2>2, <2>3, <2>4
<1> HIDE DEF tab
<1> QED
  BY <1>1, <1>3, RestStep

LEMMA EndSessionKeeps ==
  ASSUME IInv, NEW t \in Tabs, EndSession(t)
  PROVE  IInv'
<1>1. /\ BlankTab \in Tab /\ BlankTab.page = "blank" /\ BlankTab.stage = "form"
      /\ BlankTab.session = None /\ BlankTab.link = 0 /\ BlankTab.pc = "idle"
  BY Bounds DEF BlankTab, Tab, Stages
<1>2. "form" \in Pages["blank"] /\ Len(links) \in Nat
  BY TabFacts DEF Pages
<1>3. TabOK(BlankTab, Registered, Len(links))
  BY <1>1, <1>2 DEF TabOK
<1>4. CountsOK' /\ UNCHANGED <<users, links, muddled, resets>>
  BY DEF IInv, CountsOK, EndSession, history
<1> QED
  BY <1>1, <1>3, <1>4, QuietStep DEF EndSession

LEMMA SubmitAddressKeeps ==
  ASSUME IInv, NEW t \in Tabs, NEW address \in Addresses, SubmitAddress(t, address)
  PROVE  IInv'
<1> DEFINE open == Opened(t, "settings")
           tab == [open EXCEPT !.name = tabs[t].session, !.address = address]
<1>1. open \in Tab /\ open.page = "settings" /\ open.stage \in Pages["settings"]
      /\ open.session \in Registered \cup {None} /\ open.link = 0 /\ Len(links) \in Nat
  BY OpenedOK, TabFacts
<1>2. Request(t, tab, "setEmail", "lookup")
  BY DEF SubmitAddress
<1>3. tabs[t].session \in Registered /\ tabs[t].session \in Names
  BY TabFacts DEF SubmitAddress, MayOpen
<1> HIDE DEF open
<1>4. tab \in Tab /\ tab.page = "settings" /\ tab.stage \in Pages["settings"]
      /\ tab.session \in Registered \cup {None} /\ tab.link = 0
      /\ tab.name = tabs[t].session /\ tab.address = address
  BY <1>1, <1>3 DEF Tab
<1> HIDE DEF tab
<1> QED
  BY <1>1, <1>2, <1>3, <1>4, RequestStep DEF SubmitAddress, history, Ops

LEMMA ForgotKeeps ==
  ASSUME IInv, NEW t \in Tabs, NEW address \in Addresses, Forgot(t, address)
  PROVE  IInv'
<1>1. UNCHANGED <<users, links, now, muddled, resets, faults>>
  BY DEF Forgot
<1>2. CASE Request(t, BlankFor(tabs[t].session), None, "idle")
  BY <1>1, <1>2, TabFacts, BlankOK, RestStep
<1>3. ASSUME NEW name \in Owners(address),
             Request(t, ForgotSent(t, name, address), "forgot", "check")
      PROVE  IInv'
  <2> DEFINE open == Opened(t, "forgot")
             tab == [open EXCEPT !.name = name, !.address = address]
  <2>1. open \in Tab /\ open.page = "forgot" /\ open.stage \in Pages["forgot"]
        /\ open.session \in Registered \cup {None} /\ open.link = 0 /\ Len(links) \in Nat
    BY OpenedOK, TabFacts
  <2>2. Request(t, tab, "forgot", "check")
    BY <1>3 DEF ForgotSent
  <2>3. name \in Registered /\ name \in Names
    BY TabFacts DEF Owners
  <2> HIDE DEF open
  <2>4. tab \in Tab /\ tab.page = "forgot" /\ tab.stage \in Pages["forgot"]
        /\ tab.session \in Registered \cup {None} /\ tab.link = 0
        /\ tab.name = name /\ tab.address = address
    BY <2>1, <2>3 DEF Tab
  <2> HIDE DEF tab
  <2> QED
    BY <1>1, <2>1, <2>2, <2>3, <2>4, RequestStep DEF Ops
<1> QED
  BY <1>2, <1>3 DEF Forgot

LEMMA SubmitResetKeeps ==
  ASSUME IInv, NEW t \in Tabs, SubmitReset(t)
  PROVE  IInv'
<1> DEFINE tab == [tabs[t] EXCEPT !.password = sent + 1]
<1>1. Request(t, tab, "reset", "consume")
  BY DEF SubmitReset
<1>2. TabOK(tabs[t], Registered, Len(links)) /\ tabs[t] \in Tab /\ sent + 1 \in 0..MaxRequests
  BY <1>1, TabFacts DEF Request
<1>3. /\ tab \in Tab /\ tab.page = tabs[t].page /\ tab.stage = tabs[t].stage
      /\ tab.session = tabs[t].session /\ tab.link = tabs[t].link
  BY <1>2 DEF Tab
<1>4. tabs[t].page = "reset" /\ UNCHANGED <<users, links, now, muddled, resets, faults>>
  BY DEF SubmitReset, history
<1> HIDE DEF tab
<1>5. /\ tab.stage \in Pages[tab.page] /\ tab.session \in Registered \cup {None}
      /\ tab.link \in 0..Len(links) /\ tab.link # 0
  BY <1>2, <1>3, <1>4 DEF TabOK
<1> QED
  BY <1>1, <1>3, <1>4, <1>5, RequestStep DEF Ops

-----------------------------------------------------------------------------
(* The service.                                                            *)

\* A request goes on to its next statement.
LEMMA GotoOK ==
  ASSUME IInv, NEW t \in Tabs, NEW registered, Registered \subseteq registered,
         NEW pc \in {"check", "insert", "mark", "set", "write"}, Goto(t, pc), ~Idle(t),
         pc \in {"mark", "write"} => tabs[t].link # 0,
         pc = "write" => tabs[t].op = "reset",
         pc \in {"check", "insert", "set"} =>
           tabs[t].address \in Addresses /\ tabs[t].name \in registered
  PROVE  \E r : /\ tabs' = [tabs EXCEPT ![t] = r] /\ r.pc = pc /\ r.link = tabs[t].link
                /\ TabOK(r, registered, Len(links))
<1> DEFINE tab == tabs[t]
           r == [tab EXCEPT !.pc = pc]
<1>1. TabOK(tab, Registered, Len(links)) /\ tab \in Tab /\ tab.pc # "idle"
  BY TabFacts DEF Idle
<1>2. tabs' = [tabs EXCEPT ![t] = r]
  BY DEF Goto
<1>3. /\ r \in Tab /\ r.page = tab.page /\ r.stage = tab.stage /\ r.session = tab.session
      /\ r.link = tab.link /\ r.pc = pc /\ r.op = tab.op /\ r.name = tab.name
      /\ r.address = tab.address
  BY <1>1 DEF Tab
<1> HIDE DEF r
<1>4. TabOK(r, registered, Len(links))
  BY <1>1, <1>3 DEF TabOK, Busy
<1> QED
  BY <1>2, <1>3, <1>4

\* What a request has at its next statement.
LEMMA AtFacts ==
  ASSUME IInv, NEW t \in Tabs, NEW pc \in {"create", "check", "insert", "send", "consume",
           "mark", "lookup", "set", "write"}, At(t, pc)
  PROVE  ~Idle(t) /\ tabs[t].pc # "idle" /\ Busy(tabs[t], Registered)
BY TabFacts DEF At, Idle, TabOK

\* A statement that only reads, and its two ways on.
LEMMA ReadStep ==
  ASSUME IInv, NEW t \in Tabs, ~Idle(t), NEW pc \in {"insert", "set"},
         Answer(t, FALSE) \/ Goto(t, pc),
         tabs[t].address \in Addresses /\ tabs[t].name \in Registered,
         UNCHANGED <<users, links, now, sent, muddled, resets, faults>>
  PROVE  IInv'
<1>1. CountsOK'
  BY DEF IInv, CountsOK
<1>2. CASE Answer(t, FALSE)
  <2>1. tabs[t].pc # "idle"
    BY DEF Idle
  <2>2. PICK r : /\ tabs' = [tabs EXCEPT ![t] = r] /\ r.pc # "write"
                 /\ TabOK(r, Registered, Len(links))
    BY <1>2, <2>1, AnswerStep
  <2> QED
    BY <1>1, <2>2, QuietStep
<1>3. CASE Goto(t, pc)
  <2>1. PICK r : /\ tabs' = [tabs EXCEPT ![t] = r] /\ r.pc = pc /\ r.link = tabs[t].link
                 /\ TabOK(r, Registered, Len(links))
    BY <1>3, GotoOK
  <2> QED
    BY <1>1, <2>1, QuietStep
<1> QED
  BY <1>2, <1>3

LEMMA CheckCooldownKeeps ==
  ASSUME IInv, NEW t \in Tabs, CheckCooldown(t)
  PROVE  IInv'
<1>1. ~Idle(t) /\ tabs[t].address \in Addresses /\ tabs[t].name \in Registered
  BY AtFacts DEF CheckCooldown, At, Busy
<1>2. Answer(t, FALSE) \/ Goto(t, "insert")
  BY DEF CheckCooldown
<1> QED
  BY <1>1, <1>2, ReadStep DEF CheckCooldown, history

LEMMA CheckUnverifiedKeeps ==
  ASSUME IInv, NEW t \in Tabs, CheckUnverified(t)
  PROVE  IInv'
<1>1. ~Idle(t) /\ tabs[t].address \in Addresses /\ tabs[t].name \in Registered
  BY AtFacts DEF CheckUnverified, At, Busy
<1>2. Answer(t, FALSE) \/ Goto(t, "set")
  BY DEF CheckUnverified
<1> QED
  BY <1>1, <1>2, ReadStep DEF CheckUnverified, history

\* A request is answered, and no table has changed.
LEMMA QuietAnswer ==
  ASSUME IInv, NEW t \in Tabs, NEW ok \in BOOLEAN, Answer(t, ok), ~Idle(t),
         UNCHANGED <<users, links, now, sent, muddled, resets>>, faults' \in 0..MaxFaults
  PROVE  IInv'
<1>1. CountsOK' /\ tabs[t].pc # "idle"
  BY DEF IInv, CountsOK, Idle
<1>2. PICK r : /\ tabs' = [tabs EXCEPT ![t] = r] /\ r.pc # "write"
               /\ TabOK(r, Registered, Len(links))
  BY <1>1, AnswerStep
<1> QED
  BY <1>1, <1>2, QuietStep

LEMMA FaultOK ==
  ASSUME IInv, Fault
  PROVE  faults' \in 0..MaxFaults
BY Bounds DEF IInv, CountsOK, Fault

LEMMA FailKeeps ==
  ASSUME IInv, NEW t \in Tabs, Fail(t)
  PROVE  IInv'
BY QuietAnswer, FaultOK DEF Fail, history

\* A statement that writes accounts or links.
LEMMA WriteStep ==
  ASSUME IInv, NEW t \in Tabs, NEW r, tabs' = [tabs EXCEPT ![t] = r], r.pc # "write",
         UsersOK', LinksOK', LinksKept, UNCHANGED <<now, sent>>, faults' \in 0..MaxFaults,
         Registered \subseteq Registered', TabOK(r, Registered', Len(links'))
  PROVE  IInv'
<1>1. CountsOK'
  BY DEF IInv, CountsOK
<1> QED
  BY <1>1, TabStep

\* Tables of links that are not written.
LEMMA SameLinks ==
  ASSUME IInv, UNCHANGED <<links, resets>>
  PROVE  LinksOK' /\ LinksKept /\ Len(links') = Len(links)
BY Lengths DEF IInv, LinksOK, LinksKept

LEMMA CreateUserKeeps ==
  ASSUME IInv, NEW t \in Tabs, CreateUser(t)
  PROVE  IInv'
<1> DEFINE tab == tabs[t]
<1>1. ~Idle(t) /\ tab.address \in Addresses /\ tab.name \in Names
      /\ tab.password \in 0..MaxRequests
  BY AtFacts, TabFacts DEF CreateUser, At, Busy, Tab
<1>2. UNCHANGED <<links, now, sent, muddled, resets, faults>> /\ faults \in 0..MaxFaults
  BY DEF CreateUser, history, IInv, CountsOK
<1>3. CASE Answer(t, FALSE) /\ UNCHANGED users
  BY <1>1, <1>2, <1>3, QuietAnswer
<1>4. ASSUME users' = [n \in Registered \cup {tab.name} |->
                         IF n = tab.name THEN [email |-> tab.address, verified |-> FALSE,
                                               password |-> tab.password]
                         ELSE users[n]],
             Goto(t, "check")
      PROVE  IInv'
  <2> DEFINE new == [email |-> tab.address, verified |-> FALSE, password |-> tab.password]
  <2>1. new \in User
    BY <1>1 DEF User
  <2> HIDE DEF new
  <2>2. UsersOK /\ users' = [n \in Registered \cup {tab.name} |->
                               IF n = tab.name THEN new ELSE users[n]]
    BY <1>4 DEF new, IInv
  <2>3. Registered' = Registered \cup {tab.name}
    BY <2>2 DEF Registered
  <2>4. UsersOK'
    BY <1>1, <1>2, <2>1, <2>2, <2>3 DEF UsersOK
  <2>5. PICK r : /\ tabs' = [tabs EXCEPT ![t] = r] /\ r.pc = "check"
                 /\ TabOK(r, Registered', Len(links))
    <3>1. Registered \subseteq Registered' /\ tab.name \in Registered'
      BY <2>3
    <3> QED
      BY <1>1, <1>4, <3>1, GotoOK
  <2> QED
    BY <1>2, <2>3, <2>4, <2>5, SameLinks, WriteStep
<1> QED
  BY <1>3, <1>4 DEF CreateUser

LEMMA MarkVerifiedKeeps ==
  ASSUME IInv, NEW t \in Tabs, MarkVerified(t)
  PROVE  IInv'
<1> DEFINE n == links[tabs[t].link].user
           u == [users[n] EXCEPT !.verified = TRUE]
<1>1. UNCHANGED <<links, now, sent, muddled, resets, faults>> /\ faults \in 0..MaxFaults
      /\ tabs[t].pc # "idle"
  BY AtFacts DEF MarkVerified, history, IInv, CountsOK
<1>2. PICK r : /\ tabs' = [tabs EXCEPT ![t] = r] /\ r.pc # "write"
               /\ TabOK(r, Registered, Len(links))
  BY <1>1, AnswerStep DEF MarkVerified
<1>3. users' = [users EXCEPT ![n] = u] /\ UsersOK
  BY DEF MarkVerified, IInv
<1>4. n \in Registered => u \in User
  <2>1. n \in Registered => users[n] \in User
    BY <1>3 DEF UsersOK
  <2> QED
    BY <2>1 DEF User
<1> HIDE DEF u, n
<1>5. Registered' = Registered
  BY <1>3 DEF UsersOK, Registered
<1>6. UsersOK'
  BY <1>1, <1>3, <1>4, <1>5 DEF UsersOK
<1> QED
  BY <1>1, <1>2, <1>5, <1>6, SameLinks, WriteStep

LEMMA SetEmailKeeps ==
  ASSUME IInv, NEW t \in Tabs, SetEmail(t)
  PROVE  IInv'
<1> DEFINE n == tabs[t].name
           a == tabs[t].address
           u == [users[n] EXCEPT !.email = a, !.verified = FALSE]
<1>1. UNCHANGED <<links, now, sent, resets, faults>> /\ faults \in 0..MaxFaults
      /\ ~Idle(t) /\ n \in Registered /\ a \in Addresses
  BY AtFacts DEF SetEmail, At, Busy, IInv, CountsOK
<1>2. CASE Answer(t, FALSE) /\ UNCHANGED <<users, muddled>>
  BY <1>1, <1>2, QuietAnswer
<1>3. ASSUME users' = [users EXCEPT ![n].email = a, ![n].verified = FALSE],
             muddled' \in {muddled, muddled \cup {n}}, Goto(t, "check")
      PROVE  IInv'
  <2>1. UsersOK /\ users[n] \in User
    BY <1>1 DEF IInv, UsersOK
  <2>2. users' = [users EXCEPT ![n] = u] /\ u \in User
    BY <1>1, <1>3, <2>1 DEF UsersOK, User
  <2> HIDE DEF u
  <2>3. Registered' = Registered
    BY <2>1, <2>2 DEF UsersOK, Registered
  <2>4. UsersOK'
    BY <1>1, <1>3, <2>1, <2>2, <2>3 DEF UsersOK
  <2>5. PICK r : /\ tabs' = [tabs EXCEPT ![t] = r] /\ r.pc = "check"
                 /\ TabOK(r, Registered, Len(links))
    BY <1>1, <1>3, GotoOK
  <2> QED
    BY <1>1, <2>3, <2>4, <2>5, SameLinks, WriteStep
<1> QED
  BY <1>2, <1>3 DEF SetEmail

-----------------------------------------------------------------------------
(* Links.                                                                  *)

LEMMA InsertTokenKeeps ==
  ASSUME IInv, NEW t \in Tabs, InsertToken(t)
  PROVE  IInv'
<1> DEFINE tab == tabs[t]
           n == Len(links)
           mail == Mail(KindOf(tab.op), tab.name, tab.address)
           m == n + 1
           r == [tab EXCEPT !.pc = "send", !.link = m]
<1>1. /\ tab \in Tab /\ TabOK(tab, Registered, n) /\ tab.pc # "idle" /\ n \in Nat
      /\ tab.address \in Addresses /\ tab.name \in Names
  BY AtFacts, TabFacts DEF InsertToken, At, Busy
<1>2. mail \in Link /\ mail.used = Never
  <2>1. KindOf(tab.op) \in Kinds /\ Ttl(KindOf(tab.op)) \in Nat /\ now \in Nat
    BY Bounds DEF KindOf, Kinds, Ttl, IInv, CountsOK
  <2>2. now + Ttl(KindOf(tab.op)) \in Nat /\ Never \in 0..Never
    BY <2>1, Bounds
  <2> QED
    BY <1>1, <2>1, <2>2 DEF Mail, Link
<1>3. links' = Append(links, mail) /\ resets' = Append(resets, 0)
  BY DEF InsertToken
<1>4. tabs' = [tabs EXCEPT ![t] = r]
  BY DEF InsertToken, IInv, TabsOK
<1>5. UNCHANGED <<users, now, sent, muddled, faults>> /\ faults \in 0..MaxFaults
  BY DEF InsertToken, IInv, CountsOK
<1>6. m \in Nat /\ m = n + 1
  BY <1>1
<1> HIDE DEF mail, m
<1>12. /\ r \in Tab /\ r.page = tab.page /\ r.stage = tab.stage /\ r.session = tab.session
      /\ r.link = m /\ r.pc = "send" /\ r.op = tab.op
  BY <1>1, <1>6 DEF Tab
<1> HIDE DEF r
<1>7. /\ links \in Seq(Link) /\ resets \in Seq(Nat) /\ Len(resets) = n
  BY DEF IInv, LinksOK
<1>8. /\ links' \in Seq(Link) /\ resets' \in Seq(Nat)
      /\ Len(links') = n + 1 /\ Len(resets') = n + 1
      /\ \A k \in 1..n : links'[k] = links[k] /\ resets'[k] = resets[k]
      /\ resets'[n + 1] = 0
  BY <1>1, <1>2, <1>3, <1>7, AppendProperties
<1>9. LinksOK' /\ LinksKept
  BY <1>1, <1>8 DEF LinksOK, LinksKept
<1>10. UsersOK' /\ Registered' = Registered
  BY <1>5 DEF IInv, UsersOK, Registered
<1>11. TabOK(r, Registered, n + 1)
  BY <1>1, <1>6, <1>12 DEF TabOK, Busy
<1> HIDE DEF n
<1> QED
  BY <1>4, <1>5, <1>12, <1>8, <1>9, <1>10, <1>11, WriteStep

\* A link's row that is updated.
LEMMA LinkUpdated ==
  ASSUME IInv, NEW k \in 1..Len(links), NEW row \in Link, links' = [links EXCEPT ![k] = row],
         UNCHANGED resets, row.used = Never => links[k].used = Never
  PROVE  LinksOK' /\ LinksKept /\ Len(links') = Len(links)
<1>1. links \in Seq(Link) /\ Len(links) \in Nat /\ LinksOK
  BY Lengths DEF IInv, LinksOK
<1>2. links' \in Seq(Link) /\ Len(links') = Len(links)
  BY <1>1, ExceptSeq
<1>3. \A i \in 1..Len(links) : links'[i] = IF i = k THEN row ELSE links[i]
  BY <1>1, ExceptSeq
<1>4. LinksOK'
  BY <1>1, <1>2 DEF LinksOK
<1>5. LinksKept
  BY <1>1, <1>2, <1>3 DEF LinksKept
<1> QED
  BY <1>2, <1>4, <1>5

\* What the link of a request is.
LEMMA LinkFacts ==
  ASSUME IInv, NEW k \in 1..Len(links)
  PROVE  links[k] \in Link
BY DEF IInv, LinksOK

LEMMA SendMailKeeps ==
  ASSUME IInv, NEW t \in Tabs, NEW delivered \in BOOLEAN, SendMail(t, delivered)
  PROVE  IInv'
<1> DEFINE k == tabs[t].link
           row == [links[k] EXCEPT !.delivered = delivered]
<1>1. tabs[t].pc # "idle" /\ k \in 1..Len(links)
  BY AtFacts, TabFacts DEF SendMail, At, TabOK, Busy
<1>2. PICK r : /\ tabs' = [tabs EXCEPT ![t] = r] /\ r.pc # "write"
               /\ TabOK(r, Registered, Len(links))
  BY <1>1, AnswerStep DEF SendMail
<1>3. links[k] \in Link
  BY <1>1, LinkFacts
<1>4. row \in Link /\ row.used = links[k].used
  BY <1>3 DEF Link
<1>5. links' = [links EXCEPT ![k] = row]
  BY DEF SendMail
<1>6. UNCHANGED <<users, now, sent, muddled, resets>> /\ faults' \in 0..MaxFaults
  BY FaultOK DEF SendMail, history, IInv, CountsOK
<1> HIDE DEF row
<1>7. LinksOK' /\ LinksKept /\ Len(links') = Len(links)
  BY <1>1, <1>4, <1>5, <1>6, LinkUpdated
<1>8. UsersOK' /\ Registered' = Registered
  BY <1>6 DEF IInv, UsersOK, Registered
<1> QED
  BY <1>2, <1>6, <1>7, <1>8, WriteStep

LEMMA ConsumeVerificationKeeps ==
  ASSUME IInv, NEW t \in Tabs, ConsumeVerification(t)
  PROVE  IInv'
<1> DEFINE k == tabs[t].link
           used == IF links[k].used = Never THEN now ELSE links[k].used
           row == [links[k] EXCEPT !.used = used]
<1>1. ~Idle(t) /\ k \in 1..Len(links) /\ k # 0
  BY AtFacts, TabFacts DEF ConsumeVerification, At, TabOK, Busy
<1>2. UNCHANGED <<users, now, sent, muddled, resets, faults>> /\ faults \in 0..MaxFaults
  BY DEF ConsumeVerification, history, IInv, CountsOK
<1>3. CASE Answer(t, FALSE) /\ UNCHANGED links
  BY <1>1, <1>2, <1>3, QuietAnswer
<1>4. ASSUME links' = [links EXCEPT ![k].used = IF @ = Never THEN now ELSE @], Goto(t, "mark")
      PROVE  IInv'
  <2>1. links[k] \in Link /\ links' = [links EXCEPT ![k] = row]
    BY <1>1, <1>4, LinkFacts
  <2>2. used \in 0..Never /\ used # Never
    BY <2>1, Bounds DEF Link, IInv, CountsOK
  <2> HIDE DEF used
  <2>3. row \in Link /\ row.used # Never
    BY <2>1, <2>2 DEF Link
  <2> HIDE DEF row
  <2>4. LinksOK' /\ LinksKept /\ Len(links') = Len(links)
    BY <1>1, <1>2, <2>1, <2>3, LinkUpdated
  <2>5. UsersOK' /\ Registered' = Registered
    BY <1>2 DEF IInv, UsersOK, Registered
  <2>6. PICK r : /\ tabs' = [tabs EXCEPT ![t] = r] /\ r.pc = "mark" /\ r.link = tabs[t].link
                 /\ TabOK(r, Registered, Len(links))
    BY <1>1, <1>4, GotoOK
  <2> QED
    BY <1>2, <2>4, <2>5, <2>6, WriteStep
<1> QED
  BY <1>3, <1>4 DEF ConsumeVerification

\* A request takes an unused link, and is from then on the only one of it.
LEMMA ConsumeResetKeeps ==
  ASSUME IInv, NEW t \in Tabs, ConsumeReset(t)
  PROVE  IInv'
<1> DEFINE k == tabs[t].link
           row == [links[k] EXCEPT !.used = now]
<1>1. ~Idle(t) /\ k \in 1..Len(links) /\ k # 0 /\ tabs[t].op = "reset"
  BY AtFacts, TabFacts DEF ConsumeReset, At, TabOK, Busy
<1>2. UNCHANGED <<users, now, sent, muddled, resets, faults>> /\ faults \in 0..MaxFaults
  BY DEF ConsumeReset, history, IInv, CountsOK
<1>3. CASE Answer(t, FALSE) /\ UNCHANGED links
  BY <1>1, <1>2, <1>3, QuietAnswer
<1>4. ASSUME links[k].used = Never, links' = [links EXCEPT ![k].used = now], Goto(t, "write")
      PROVE  IInv'
  <2>1. links[k] \in Link /\ links' = [links EXCEPT ![k] = row]
    BY <1>1, <1>4, LinkFacts
  <2>2. now \in 0..Never /\ now # Never
    BY Bounds DEF IInv, CountsOK
  <2>3. row \in Link /\ row.used # Never
    BY <2>1, <2>2 DEF Link
  <2> HIDE DEF row
  <2>4. LinksOK' /\ LinksKept /\ Len(links') = Len(links)
    BY <1>1, <1>2, <2>1, <2>3, LinkUpdated
  <2>5. UsersOK' /\ CountsOK' /\ Registered' = Registered
    BY <1>2 DEF IInv, UsersOK, CountsOK, Registered
  <2>6. PICK r : /\ tabs' = [tabs EXCEPT ![t] = r] /\ r.pc = "write" /\ r.link = k
                 /\ TabOK(r, Registered, Len(links))
    BY <1>1, <1>4, GotoOK
  <2>7. TabsOK' /\ tabs'[t] = r /\ \A u \in Tabs : u # t => tabs'[u] = tabs[u]
    BY <2>4, <2>5, <2>6, TabsKept DEF IInv, LinksKept
  <2>8. links \in Seq(Link) /\ DOMAIN links = 1..Len(links) /\ DOMAIN links' = 1..Len(links)
        /\ Len(links) \in Nat
    <3>1. DOMAIN links' = 1..Len(links') /\ Len(links') = Len(links)
      BY <2>4, LenProperties DEF LinksOK
    <3> QED
      BY <3>1, Lengths DEF IInv, LinksOK
  <2>9. \A i \in 1..Len(links) : links'[i] = IF i = k THEN row ELSE links[i]
    BY <1>1, <2>1, <2>3, <2>8, ExceptSeq
  <2>10. /\ \A i \in 1..Len(links) : resets[i] <= 1 /\ (links[i].used = Never => resets[i] = 0)
         /\ \A u \in Tabs : tabs[u].pc = "write" =>
              links[tabs[u].link].used # Never /\ resets[tabs[u].link] = 0
         /\ \A u, v \in Tabs : tabs[u].pc = "write" /\ tabs[v].pc = "write"
                               /\ tabs[u].link = tabs[v].link => u = v
    BY <2>8 DEF IInv, WritersOK, Writing
  <2>11. \A u \in Tabs : tabs[u].pc = "write" => tabs[u].link \in 1..Len(links) /\ tabs[u].link # k
    <3>1. ASSUME NEW u \in Tabs, tabs[u].pc = "write"
          PROVE  tabs[u].link \in 1..Len(links)
      BY <3>1, TabFacts DEF TabOK, Busy
    <3> QED
      BY <1>4, <2>10, <3>1
  <2> HIDE DEF k
  <2>12. WritersOK'
    <3>1. \A i \in 1..Len(links) : resets[i] <= 1 /\ (links'[i].used = Never => resets[i] = 0)
      BY <2>3, <2>9, <2>10
    <3>2. \A u \in Tabs : tabs'[u].pc = "write" =>
            links'[tabs'[u].link].used # Never /\ resets[tabs'[u].link] = 0
      <4>1. links'[k].used # Never /\ resets[k] = 0
        BY <1>1, <1>4, <2>3, <2>9, <2>10 DEF k
      <4> QED
        BY <2>6, <2>7, <2>9, <2>10, <2>11, <4>1
    <3>3. \A u, v \in Tabs : tabs'[u].pc = "write" /\ tabs'[v].pc = "write"
                             /\ tabs'[u].link = tabs'[v].link => u = v
      BY <2>6, <2>7, <2>10, <2>11
    <3>4. Never' = Never
      BY DEF Never
    <3> QED
      BY <1>2, <2>8, <3>1, <3>2, <3>3, <3>4 DEF WritersOK, Writing
  <2> QED
    BY <2>4, <2>5, <2>7, <2>12 DEF IInv
<1> QED
  BY <1>3, <1>4 DEF ConsumeReset, ResetUsable

\* It writes the first password of the link, and nobody else is about to.
LEMMA UpdatePasswordKeeps ==
  ASSUME IInv, NEW t \in Tabs, UpdatePassword(t)
  PROVE  IInv'
<1> DEFINE k == tabs[t].link
           n == links[k].user
           u0 == [users[n] EXCEPT !.password = tabs[t].password]
<1>1. tabs[t].pc = "write" /\ tabs[t].pc # "idle" /\ k \in 1..Len(links)
      /\ tabs[t].password \in 0..MaxRequests
  BY AtFacts, TabFacts, SMTT(30) DEF UpdatePassword, At, TabOK, Busy, Tab
<1>2. UNCHANGED <<links, now, sent, muddled, faults>>
      /\ resets' = [resets EXCEPT ![k] = resets[k] + 1]
  BY DEF UpdatePassword
<1>3. PICK r : /\ tabs' = [tabs EXCEPT ![t] = r] /\ r.pc # "write"
               /\ TabOK(r, Registered, Len(links))
  BY <1>1, AnswerStep DEF UpdatePassword
<1>4. UsersOK' /\ Registered' = Registered
  <2>1. users' = [users EXCEPT ![n] = u0] /\ UsersOK
    BY DEF UpdatePassword, IInv
  <2>2. n \in Registered => u0 \in User
    <3>1. n \in Registered => users[n] \in User
      BY <2>1 DEF UsersOK
    <3> QED
      BY <1>1, <3>1 DEF User
  <2> HIDE DEF u0, n
  <2>3. Registered' = Registered
    BY <2>1 DEF UsersOK, Registered
  <2> QED
    BY <1>2, <2>1, <2>2, <2>3 DEF UsersOK
<1>5. /\ DOMAIN links = 1..Len(links) /\ DOMAIN links' = 1..Len(links) /\ Len(links) \in Nat
      /\ resets \in Seq(Nat) /\ Len(resets) = Len(links) /\ resets[k] = 0 /\ resets' = [resets EXCEPT ![k] = 1]
  <2>1. resets \in Seq(Nat) /\ Len(resets) = Len(links) /\ resets[k] = 0
    BY <1>1 DEF IInv, LinksOK, WritersOK, Writing
  <2> QED
    BY <1>2, <2>1, Lengths DEF IInv
<1>6. /\ resets' \in Seq(Nat) /\ Len(resets') = Len(links)
      /\ \A i \in 1..Len(links) : resets'[i] = IF i = k THEN 1 ELSE resets[i]
  BY <1>1, <1>5, ExceptSeq
<1>7. LinksOK' /\ CountsOK'
  BY <1>2, <1>6 DEF IInv, LinksOK, CountsOK
<1>8. TabsOK' /\ tabs'[t] = r /\ \A u \in Tabs : u # t => tabs'[u] = tabs[u]
  <2>1. Len(links) <= Len(links') /\ Len(links') = Len(links)
    BY <1>2, <1>5
  <2> QED
    BY <1>3, <1>4, <1>7, <2>1, TabsKept DEF IInv
<1>9. /\ \A i \in 1..Len(links) : resets[i] <= 1 /\ (links[i].used = Never => resets[i] = 0)
      /\ \A u \in Tabs : tabs[u].pc = "write" =>
           links[tabs[u].link].used # Never /\ resets[tabs[u].link] = 0
      /\ \A u, v \in Tabs : tabs[u].pc = "write" /\ tabs[v].pc = "write"
                            /\ tabs[u].link = tabs[v].link => u = v
  BY <1>5 DEF IInv, WritersOK, Writing
<1>10. \A u \in Tabs : tabs[u].pc = "write" => tabs[u].link \in 1..Len(links)
  BY TabFacts DEF TabOK, Busy
<1>11. WritersOK'
  <2>1. links[k].used # Never
    BY <1>1, <1>9
  <2>2. \A u \in Tabs : tabs'[u].pc = "write" =>
          tabs[u].pc = "write" /\ tabs'[u] = tabs[u] /\ tabs[u].link # k
    BY <1>1, <1>3, <1>8, <1>9
  <2> HIDE DEF k
  <2>3. \A i \in 1..Len(links) : resets'[i] <= 1 /\ (links[i].used = Never => resets'[i] = 0)
    BY <1>6, <1>9, <2>1
  <2>4. \A u \in Tabs : tabs'[u].pc = "write" =>
          links[tabs'[u].link].used # Never /\ resets'[tabs'[u].link] = 0
    BY <1>6, <1>9, <1>10, <2>2
  <2>5. \A u, v \in Tabs : tabs'[u].pc = "write" /\ tabs'[v].pc = "write"
                           /\ tabs'[u].link = tabs'[v].link => u = v
    BY <1>9, <2>2
  <2>6. Never' = Never
    BY DEF Never
  <2> QED
    BY <1>2, <1>5, <2>3, <2>4, <2>5, <2>6 DEF WritersOK, Writing
<1> QED
  BY <1>4, <1>7, <1>8, <1>11 DEF IInv

-----------------------------------------------------------------------------
LEMMA CrashKeeps ==
  ASSUME IInv, Crash
  PROVE  IInv'
<1>1. UNCHANGED <<users, links, now, sent, muddled, resets>> /\ faults' \in 0..MaxFaults
  BY FaultOK DEF Crash
<1>2. tabs' = [t \in Tabs |-> IF Idle(t) THEN tabs[t] ELSE Reply(tabs[t], FALSE)]
  BY DEF Crash
<1>3. ASSUME NEW t \in Tabs
      PROVE  tabs'[t].pc = "idle" /\ TabOK(tabs'[t], Registered, Len(links))
  <2>1. CASE Idle(t)
    BY <1>2, <2>1, TabFacts DEF Idle
  <2>2. CASE ~Idle(t)
    <3>1. tabs'[t] = Reply(tabs[t], FALSE) /\ tabs[t].pc # "idle"
      BY <1>2, <2>2 DEF Idle
    <3>2. TabOK(tabs[t], Registered, Len(links)) /\ Registered \subseteq Names
          /\ Len(links) \in Nat
      BY TabFacts
    <3>3. /\ TabOK(Reply(tabs[t], FALSE), Registered, Len(links))
          /\ Reply(tabs[t], FALSE).pc = "idle"
      BY <3>1, <3>2, ReplyOK
    <3> QED
      BY <3>1, <3>3
  <2> QED
    BY <2>1, <2>2
<1>4. TabsOK'
  <2>1. Registered' = Registered /\ Len(links') = Len(links)
    BY <1>1 DEF Registered
  <2> QED
    BY <1>2, <1>3, <2>1 DEF TabsOK
<1>5. UsersOK' /\ LinksOK' /\ CountsOK'
  BY <1>1 DEF IInv, UsersOK, LinksOK, CountsOK, Registered
<1>6. WritersOK'
  BY <1>1, <1>3 DEF IInv, WritersOK, Writing, Never
<1> QED
  BY <1>4, <1>5, <1>6 DEF IInv

LEMMA TickKeeps ==
  ASSUME IInv, Tick
  PROVE  IInv'
<1>1. UNCHANGED <<users, links, tabs, sent, muddled, resets, faults>> /\ now' = now + 1
      /\ now < MaxTime
  BY DEF Tick, history
<1>2. CountsOK'
  BY <1>1, Bounds DEF IInv, CountsOK
<1>3. TabsOK' /\ UsersOK' /\ LinksOK' /\ WritersOK'
  BY <1>1 DEF IInv, TabsOK, UsersOK, LinksOK, WritersOK, Writing, Never, Registered
<1> QED
  BY <1>2, <1>3 DEF IInv

LEMMA StutterKeeps ==
  ASSUME IInv, UNCHANGED vars
  PROVE  IInv'
BY DEF vars, IInv, TabsOK, UsersOK, LinksOK, CountsOK, WritersOK, Writing, Never, Registered

-----------------------------------------------------------------------------
(* The invariant.                                                          *)

LEMMA Initial ==
  ASSUME Init
  PROVE  IInv
<1>1. PICK session \in Grandfathered \cup {None} : tabs = [t \in Tabs |-> BlankFor(session)]
  BY DEF Init
<1>2. /\ users \in [Grandfathered -> [email: Addresses \cup {None}, verified: {FALSE},
                                      password: {0}]]
      /\ Grandfathered \subseteq Names
  BY AccountsAssumption DEF Init
<1>3. Registered = Grandfathered
  BY <1>2 DEF Registered
<1>4. UsersOK
  <2>1. \A n \in Grandfathered : users[n] \in User
    <3>1. {FALSE} \subseteq BOOLEAN /\ {0} \subseteq 0..MaxRequests
      BY Bounds
    <3> DEFINE unverified == {FALSE}
    <3> HIDE DEF unverified
    <3>2. [email: Addresses \cup {None}, verified: unverified, password: {0}] \subseteq User
      BY <3>1 DEF User, unverified
    <3> QED
      BY <1>2, <3>2 DEF unverified
  <2> QED
    BY <1>2, <1>3, <2>1 DEF UsersOK, Init
<1>5. LinksOK /\ links = <<>> /\ resets = <<>> /\ Len(links) = 0
  BY DEF Init, LinksOK
<1>6. \A t \in Tabs : TabOK(tabs[t], Registered, Len(links)) /\ tabs[t].pc = "idle"
  <2>1. TabOK(BlankFor(session), Registered, 0) /\ BlankFor(session).pc = "idle"
    BY <1>2, <1>3, BlankOK
  <2> QED
    BY <1>1, <1>5, <2>1
<1>7. TabsOK
  BY <1>1, <1>6 DEF TabsOK
<1>8. CountsOK
  BY Bounds DEF Init, CountsOK
<1>9. WritersOK
  <2>1. DOMAIN links = {}
    BY <1>5
  <2> QED
    BY <1>6, <2>1 DEF WritersOK, Writing
<1> QED
  BY <1>4, <1>5, <1>7, <1>8, <1>9 DEF IInv

LEMMA Step ==
  ASSUME IInv, [Next]_vars
  PROVE  IInv'
<1>1. ASSUME NEW t \in Tabs, PageStep(t)
      PROVE  IInv'
  BY <1>1, OpenLinkKeeps, SubmitRegistrationKeeps, BackKeeps, ResendKeeps, LoginKeeps,
     EndSessionKeeps, SubmitAddressKeeps, ForgotKeeps, SubmitResetKeeps DEF PageStep
<1>2. ASSUME NEW t \in Tabs, ServiceStep(t)
      PROVE  IInv'
  BY <1>2, CreateUserKeeps, CheckCooldownKeeps, InsertTokenKeeps, SendMailKeeps,
     ConsumeVerificationKeeps, MarkVerifiedKeeps, CheckUnverifiedKeeps, SetEmailKeeps,
     ConsumeResetKeeps, UpdatePasswordKeeps, FailKeeps DEF ServiceStep
<1> QED
  BY <1>1, <1>2, CrashKeeps, TickKeeps, StutterKeeps DEF Next

\* The invariant holds of every reachable state.
THEOREM Invariance == Spec => []IInv
BY Initial, Step, PTL DEF Spec

\* The state has its type, the pages and their stages included.
THEOREM TypeCorrect == Spec => []TypeOK
<1>1. ASSUME IInv
      PROVE  TypeOK
  <2>1. \A n \in Registered :
          users[n] \in [email: Addresses \cup {None}, verified: BOOLEAN, password: 0..MaxRequests]
    BY <1>1 DEF IInv, UsersOK, User
  <2>2. DOMAIN Pages = {"blank", "register", "login", "verify", "forgot", "reset", "settings"}
    BY DEF Pages
  <2>3. \A t \in Tabs : /\ tabs[t].page \in DOMAIN Pages
                        /\ tabs[t].stage \in Pages[tabs[t].page]
                        /\ tabs[t].session \in Registered \cup {None}
                        /\ tabs[t].link \in 0..Len(links)
    <3>1. ASSUME NEW t \in Tabs
          PROVE  TabOK(tabs[t], Registered, Len(links))
      BY <1>1 DEF IInv, TabsOK
    <3> QED
      BY <2>2, <3>1 DEF TabOK, Tab
  <2> QED
    BY <1>1, <2>1, <2>3 DEF TypeOK, IInv, UsersOK, LinksOK, CountsOK
<1> QED
  BY <1>1, Invariance, PTL

\* "This link ... can be used once": however many requests race for a reset link,
\* fail or are cut off by a restart, it writes at most one password.
THEOREM ResetOnce == Spec => []OneResetPerLink
<1>1. IInv => OneResetPerLink
  BY DEF IInv, WritersOK, OneResetPerLink
<1> QED
  BY <1>1, Invariance, PTL

-----------------------------------------------------------------------------
(* What mails, links and pages say of the accounts.                        *)

\* A request is one of those that run the statement it is at, and pages that report on a
\* link send nothing more.
Runs(tab) ==
  /\ tab.pc = "create" => tab.op = "register"
  /\ tab.pc \in {"check", "insert", "send"} =>
       /\ tab.op \in {"register", "resend", "setEmail", "forgot"}
       /\ tab.page # "reset" /\ (tab.page = "verify" => tab.stage = "error")
  /\ tab.pc = "consume" => tab.op \in {"verify", "reset"}
  /\ tab.pc = "mark" => tab.op = "verify"
  /\ tab.pc \in {"lookup", "set"} => tab.op = "setEmail"

Owner(k) == links[k].user
MailTo(k, name, address) ==
  links[k].kind = "verification" /\ links[k].user = name /\ links[k].to = address

\* What issues a link writes to the account's address, and what is about to mark an
\* account holds a link that went there.
Posted(tab) ==
  /\ tab.pc \in {"check", "insert"} /\ tab.op # "forgot" /\ tab.name \notin muddled =>
       tab.address = users[tab.name].email
  /\ tab.pc = "send" => ~links[tab.link].delivered
  /\ tab.pc = "consume" /\ tab.op = "verify" => links[tab.link].delivered
  /\ tab.pc = "mark" =>
       /\ links[tab.link].kind = "verification"
       /\ links[tab.link].delivered /\ links[tab.link].used # Never
       /\ Owner(tab.link) \notin muddled => links[tab.link].to = users[Owner(tab.link)].email

\* Whoever is signed in to an account that was registered with an address has had it
\* verified, and only grandfathered accounts get to replace theirs.
Entitled(tab) ==
  /\ tab.session \in Registered \ Grandfathered => users[tab.session].verified
  /\ tab.pc = "lookup" => tab.name = tab.session
  /\ tab.pc = "set" => tab.name \in Grandfathered

\* What a page has shown or is about to.
Shown(tab, page, stage) == tab.page = page /\ tab.stage = stage
Issuing(tab) == tab.pc \in {"check", "insert", "send"}
Signed(tab) ==
  /\ tab.page = "register" /\ (tab.stage = "done" \/ Issuing(tab)) =>
       tab.name \in Registered \ Grandfathered /\ tab.address = users[tab.name].email
  /\ Shown(tab, "register", "done") \/ Shown(tab, "settings", "sent") =>
       LinkTo(tab.name, tab.address)
  /\ tab.pc = "send" /\ tab.op \in {"register", "setEmail"} =>
       MailTo(tab.link, tab.name, tab.address)
  /\ Shown(tab, "verify", "success") =>
       tab.link # 0 /\ (users[Owner(tab.link)].verified \/ Owner(tab.link) \in muddled)
WrittenSince(k) == \E i \in DOMAIN links : i # k /\ resets[i] > 0
Replaced(tab) ==
  Shown(tab, "reset", "done") =>
    /\ tab.link # 0 /\ resets[tab.link] > 0
    /\ users[Owner(tab.link)].password = tab.password \/ WrittenSince(tab.link)

Means(tab) == Runs(tab) /\ Posted(tab) /\ Entitled(tab) /\ Signed(tab) /\ Replaced(tab)
\* (`tab` is the value of tabs[t].)
TabsMean == \A t \in Tabs : \A tab \in {tabs[t]} : Means(tab)

\* Every link is of an account, and one that still works went to its address; a link
\* waits for one mail.
PostOK ==
  /\ \A k \in DOMAIN links :
       /\ Owner(k) \in Registered
       /\ links[k].kind = "verification" /\ Alive(k) /\ Owner(k) \notin muddled =>
            links[k].to = users[Owner(k)].email
  /\ \A t, u \in Tabs : At(t, "send") /\ At(u, "send") /\ tabs[t].link = tabs[u].link => t = u

\* An account that was registered has an address, and keeps it.
AddressesOK ==
  /\ Grandfathered \subseteq Registered /\ muddled \subseteq Grandfathered
  /\ \A n \in Registered \ Grandfathered : users[n].email \in Addresses

MInv == TabsMean /\ PostOK /\ AddressesOK /\ VerifiedByMail
-----------------------------------------------------------------------------
\* A page after its answer: another form, or the same page at the stage it has earned.
SamePage(r, tab) ==
  /\ r.page = tab.page /\ r.name = tab.name /\ r.address = tab.address
  /\ r.password = tab.password /\ r.link = tab.link

LEMMA ReplyShape ==
  ASSUME NEW tab \in Tab, tab.op \in Ops, NEW ok \in BOOLEAN, NEW r, r = Reply(tab, ok)
  PROVE  /\ r.pc = "idle" /\ r.session = tab.session
         /\ \/ r.page = "blank"
            \/ r.page = "verify" /\ r.stage = "error"
            \/ r.page = "reset" /\ r.stage = "form"
            \/ tab.op = "resend" /\ SamePage(r, tab) /\ r.stage = tab.stage
            \/ ok /\ tab.op \in DOMAIN StageIfOk /\ SamePage(r, tab) /\ r.stage = StageIfOk[tab.op]
<1> DEFINE Rest(s) == [s EXCEPT !.pc = "idle"]
           Shape(s) ==
             /\ Rest(s).pc = "idle" /\ Rest(s).session = tab.session
             /\ \/ Rest(s).page = "blank"
                \/ Rest(s).page = "verify" /\ Rest(s).stage = "error"
                \/ Rest(s).page = "reset" /\ Rest(s).stage = "form"
                \/ tab.op = "resend" /\ SamePage(Rest(s), tab) /\ Rest(s).stage = tab.stage
<1>1. Shape(AfterError(tab))
  <2>1. CASE tab.op = "resend"
    <3>1. AfterError(tab) = [tab EXCEPT !.op = None]
      BY <2>1 DEF AfterError
    <3> QED
      BY <2>1, <3>1 DEF Tab, SamePage
  <2>2. CASE tab.op = "verify"
    <3> DEFINE blank == BlankFor(tab.session)
               s == [blank EXCEPT !.page = tab.op, !.stage = "error", !.link = 0]
    <3>1. AfterError(tab) = s
      BY <2>2 DEF AfterError
    <3>2. s.page = "verify" /\ s.stage = "error" /\ s.session = tab.session
          /\ Rest(s).page = s.page /\ Rest(s).stage = s.stage /\ Rest(s).session = s.session
          /\ Rest(s).pc = "idle"
      BY <2>2 DEF BlankFor, BlankTab
    <3> QED
      BY <3>1, <3>2
  <2>3. CASE tab.op = "reset"
    <3> DEFINE blank == BlankFor(tab.session)
               s == [blank EXCEPT !.page = tab.op, !.stage = "form", !.link = tab.link]
    <3>1. AfterError(tab) = s
      BY <2>3 DEF AfterError
    <3>2. s.page = "reset" /\ s.stage = "form" /\ s.session = tab.session
          /\ Rest(s).page = s.page /\ Rest(s).stage = s.stage /\ Rest(s).session = s.session
          /\ Rest(s).pc = "idle"
      BY <2>3 DEF BlankFor, BlankTab
    <3> QED
      BY <3>1, <3>2
  <2>4. CASE tab.op \notin {"resend", "verify", "reset"}
    <3>1. AfterError(tab) = BlankFor(tab.session)
      BY <2>4 DEF AfterError
    <3>2. /\ Rest(BlankFor(tab.session)).page = "blank"
          /\ Rest(BlankFor(tab.session)).session = tab.session
          /\ Rest(BlankFor(tab.session)).pc = "idle"
      BY DEF BlankFor, BlankTab
    <3> QED
      BY <3>1, <3>2
  <2> QED
    BY <2>1, <2>2, <2>3, <2>4
<1>2. CASE ok /\ tab.op \in DOMAIN StageIfOk
  <2> DEFINE stage == StageIfOk[tab.op]
             s == [tab EXCEPT !.stage = stage, !.op = None]
  <2>1. r = Rest(s)
    BY <1>2 DEF Reply, AfterOk
  <2> HIDE DEF stage
  <2>2. Rest(s).pc = "idle" /\ Rest(s).session = tab.session /\ SamePage(Rest(s), tab)
        /\ Rest(s).stage = stage
    BY DEF Tab, SamePage
  <2> QED
    BY <1>2, <2>1, <2>2 DEF stage
<1>3. CASE ~(ok /\ tab.op \in DOMAIN StageIfOk)
  <2>1. r = Rest(AfterError(tab))
    BY <1>3 DEF Reply, AfterOk
  <2> HIDE DEF Rest
  <2> QED
    BY <1>1, <2>1
<1> QED
  BY <1>2, <1>3

\* What a tab means, as it is.
LEMMA MeansFacts ==
  ASSUME MInv, NEW t \in Tabs
  PROVE  Means(tabs[t])
BY DEF MInv, TabsMean

\* A request that is refused leaves a page that claims nothing new.
LEMMA RefusedMeans ==
  ASSUME IInv, NEW tab \in Tab, Means(tab), tab.op \in Ops, NEW r, r = Reply(tab, FALSE)
  PROVE  Means(r) /\ r.pc = "idle"
<1>1. r.pc = "idle" /\ r.session = tab.session
  BY ReplyShape
<1>2. \/ r.page = "blank"
      \/ r.page = "verify" /\ r.stage = "error"
      \/ r.page = "reset" /\ r.stage = "form"
      \/ SamePage(r, tab) /\ r.stage = tab.stage
  BY ReplyShape
<1>3. Runs(r) /\ Posted(r) /\ Entitled(r)
  BY <1>1 DEF Means, Runs, Posted, Entitled
<1>4. Signed(r)
  BY <1>1, <1>2 DEF Means, Signed, Shown, SamePage, Issuing
<1>5. Replaced(r)
  BY <1>1, <1>2 DEF Means, Replaced, Shown, SamePage
<1> QED
  BY <1>1, <1>3, <1>4, <1>5 DEF Means

-----------------------------------------------------------------------------
(* Steps that change no address and withdraw nothing.                      *)

\* What a step keeps of the tables, of the links' uses and of the passwords.
TablesKept ==
  /\ Registered \subseteq Registered' /\ muddled' = muddled /\ now <= now'
  /\ \A n \in Registered :
       users'[n].email = users[n].email /\ (users[n].verified => users'[n].verified)
  /\ Len(links) <= Len(links')
  /\ \A k \in 1..Len(links) :
       /\ links'[k].kind = links[k].kind /\ links'[k].user = links[k].user
       /\ links'[k].to = links[k].to /\ links'[k].expires = links[k].expires
       /\ links[k].delivered => links'[k].delivered
       /\ links[k].used # Never => links'[k].used # Never
PasswordsKept ==
  /\ \A n \in Registered : users'[n].password = users[n].password
  /\ \A k \in 1..Len(links) : resets[k] > 0 => resets'[k] > 0

\* The tables before and after a step, and where they are defined.
LEMMA Tables ==
  ASSUME IInv, IInv'
  PROVE  /\ Len(links) \in Nat /\ DOMAIN links = 1..Len(links) /\ links \in Seq(Link)
         /\ Len(links') \in Nat /\ DOMAIN links' = 1..Len(links') /\ links' \in Seq(Link)
         /\ now \in Nat /\ now' \in Nat /\ Never' = Never
         /\ muddled \subseteq Registered /\ muddled' \subseteq Registered'
         /\ None \notin Names /\ Registered \subseteq Names /\ Registered' \subseteq Names
<1>1. Len(links) \in Nat /\ DOMAIN links = 1..Len(links) /\ links \in Seq(Link)
  BY LenProperties DEF IInv, LinksOK
<1>2. Len(links') \in Nat /\ DOMAIN links' = 1..Len(links') /\ links' \in Seq(Link)
  BY LenProperties DEF IInv, LinksOK
<1>3. now \in Nat /\ now' \in Nat /\ Never' = Never
  BY DEF IInv, CountsOK, Never
<1>4. muddled \subseteq Registered /\ muddled' \subseteq Registered'
      /\ Registered \subseteq Names /\ Registered' \subseteq Names
  BY DEF IInv, UsersOK
<1> QED
  BY <1>1, <1>2, <1>3, <1>4, AccountsAssumption

\* A mail that went somewhere keeps having gone there.
LEMMA LinkToKept ==
  ASSUME IInv, IInv', TablesKept, NEW name, NEW address, LinkTo(name, address)
  PROVE  LinkTo(name, address)'
BY Tables DEF TablesKept, LinkTo

\* What a tab means does not change with such a step, apart from its password.
LEMMA MeaningKept ==
  ASSUME IInv, IInv', TablesKept, AddressesOK, PostOK,
         NEW tab, TabOK(tab, Registered, Len(links)),
         Runs(tab), Posted(tab), Entitled(tab), Signed(tab),
         tab.pc = "send" => ~links'[tab.link].delivered
  PROVE  Runs(tab) /\ Posted(tab)' /\ Entitled(tab)' /\ Signed(tab)'
<1>1. /\ tab.link \in 0..Len(links) /\ tab.session \in Registered \cup {None}
      /\ tab.pc # "idle" => Busy(tab, Registered)
  BY DEF TabOK
<1>2. tab.pc \in {"send", "consume", "mark", "write"} => tab.link \in 1..Len(links)
  BY <1>1, Tables DEF Busy
<1>3. \A k \in 1..Len(links) : Owner(k) \in Registered /\ Owner(k)' = Owner(k)
  BY Tables DEF PostOK, TablesKept, Owner
<1>4. Posted(tab)'
  <2>1. tab.pc \in {"check", "insert"} => tab.name \in Registered
    BY <1>1 DEF Busy
  <2> QED
    BY <1>2, <1>3, <2>1, Tables DEF Posted, TablesKept
<1>5. Entitled(tab)'
  BY <1>1, Tables DEF Entitled, TablesKept, AddressesOK
<1>6. Signed(tab)'
  <2>1. tab.page = "register" /\ (tab.stage = "done" \/ Issuing(tab)) =>
          tab.name \in Registered' \ Grandfathered /\ tab.address = users'[tab.name].email
    BY DEF Signed, TablesKept
  <2>2. Shown(tab, "register", "done") \/ Shown(tab, "settings", "sent") =>
          LinkTo(tab.name, tab.address)'
    BY LinkToKept DEF Signed
  <2>3. tab.pc = "send" /\ tab.op \in {"register", "setEmail"} =>
          MailTo(tab.link, tab.name, tab.address)'
    BY <1>2 DEF Signed, MailTo, TablesKept
  <2>4. Shown(tab, "verify", "success") =>
          tab.link # 0 /\ (users'[Owner(tab.link)'].verified \/ Owner(tab.link)' \in muddled')
    BY <1>1, <1>3, Tables DEF Signed, TablesKept
  <2> QED
    BY <2>1, <2>2, <2>3, <2>4 DEF Signed, Shown, Issuing
<1> QED
  BY <1>4, <1>5, <1>6

\* Nor does the password it wrote, when the step writes none.
LEMMA ReplacedKept ==
  ASSUME IInv, IInv', TablesKept, PasswordsKept, PostOK,
         NEW tab, TabOK(tab, Registered, Len(links)), Replaced(tab)
  PROVE  Replaced(tab)'
<1>1. tab.link \in 0..Len(links)
  BY DEF TabOK
<1>2. \A k \in 1..Len(links) : Owner(k) \in Registered /\ Owner(k)' = Owner(k)
  BY Tables DEF PostOK, TablesKept, Owner
<1>3. WrittenSince(tab.link) => WrittenSince(tab.link)'
  BY Tables DEF WrittenSince, TablesKept, PasswordsKept
<1>4. ASSUME Shown(tab, "reset", "done")
      PROVE  /\ tab.link # 0 /\ resets'[tab.link] > 0
             /\ users'[Owner(tab.link)'].password = tab.password \/ WrittenSince(tab.link)'
  <2>1. tab.link \in 1..Len(links)
    BY <1>1, <1>4, Tables DEF Replaced
  <2> QED
    BY <1>2, <1>3, <1>4, <2>1 DEF Replaced, PasswordsKept
<1> QED
  BY <1>4 DEF Replaced, Shown

\* A verified account stays so by the same link.
LEMMA MailKept ==
  ASSUME IInv, IInv', TablesKept, VerifiedByMail,
         \A n \in Registered' : users'[n].verified => n \in Registered /\ users[n].verified
  PROVE  VerifiedByMail'
<1> SUFFICES ASSUME NEW n \in Registered', n \notin muddled', users'[n].verified
             PROVE  \E k \in DOMAIN links' :
                      /\ links'[k].user = n /\ links'[k].kind = "verification"
                      /\ links'[k].delivered /\ links'[k].used # Never'
                      /\ links'[k].to = users'[n].email
  BY DEF VerifiedByMail
<1>1. n \in Registered \ muddled /\ users[n].verified /\ users'[n].email = users[n].email
  BY DEF TablesKept
<1>2. PICK k \in DOMAIN links :
        /\ links[k].user = n /\ links[k].kind = "verification"
        /\ links[k].delivered /\ links[k].used # Never
        /\ links[k].to = users[n].email
  BY <1>1 DEF VerifiedByMail
<1> QED
  BY <1>1, <1>2, Tables DEF TablesKept

\* What a step adds to the links is posted to the account's address, a link is sent by
\* the request that has issued it, and a new account has an address.
LEMMA PostKept ==
  ASSUME IInv, IInv', TablesKept, PostOK,
         \A k \in 1..Len(links') : k > Len(links) =>
           /\ Owner(k)' \in Registered'
           /\ links'[k].kind = "verification" /\ Owner(k)' \notin muddled' =>
                links'[k].to = users'[Owner(k)'].email,
         \A t, u \in Tabs : tabs'[t].pc = "send" /\ tabs'[u].pc = "send"
                            /\ tabs'[t].link = tabs'[u].link => t = u
  PROVE  PostOK'
<1>1. ASSUME NEW k \in DOMAIN links'
      PROVE  /\ Owner(k)' \in Registered'
             /\ links'[k].kind = "verification" /\ Alive(k)' /\ Owner(k)' \notin muddled' =>
                  links'[k].to = users'[Owner(k)'].email
  <2>1. k \in 1..Len(links') /\ k \in Nat
    BY Tables
  <2>2. CASE k > Len(links)
    BY <2>1, <2>2
  <2>3. CASE k \in 1..Len(links)
    <3>1. links[k] \in Link /\ links[k].expires \in Nat
      <4>1. links[k] \in Link
        BY <2>3, LinkFacts
      <4> QED
        BY <4>1 DEF Link
    <3>2. Alive(k)' => Alive(k)
      BY <2>3, <3>1, Tables DEF Alive, TablesKept
    <3>3. Owner(k)' = Owner(k) /\ Owner(k) \in Registered
      BY <2>3, Tables DEF Owner, TablesKept, PostOK
    <3> QED
      BY <2>3, <3>2, <3>3, Tables DEF TablesKept, PostOK
  <2> QED
    BY <2>1, <2>2, <2>3, Tables
<1> QED
  BY <1>1 DEF PostOK, At

\* A step of one tab.
LEMMA OneTabMeans ==
  ASSUME IInv, IInv', MInv, TablesKept, NEW t \in Tabs, NEW r, tabs' = [tabs EXCEPT ![t] = r],
         Means(r)',
         \A u \in Tabs : u # t /\ tabs[u].pc = "send" => ~links'[tabs[u].link].delivered,
         \A u \in Tabs : u # t => \A tab \in {tabs[u]} : Replaced(tab)'
  PROVE  TabsMean'
<1>1. tabs'[t] = r /\ \A u \in Tabs : u # t => tabs'[u] = tabs[u]
  BY DEF IInv, TabsOK
<1> SUFFICES ASSUME NEW u \in Tabs, NEW tab, tab = tabs'[u]
             PROVE  Means(tab)'
  BY DEF TabsMean
<1>2. CASE u = t
  BY <1>1, <1>2
<1>3. CASE u # t
  <2>1. tab = tabs[u]
    BY <1>1, <1>3
  <2>2. TabOK(tab, Registered, Len(links)) /\ AddressesOK /\ PostOK
    BY <2>1, TabFacts DEF MInv
  <2>3. Runs(tab) /\ Posted(tab) /\ Entitled(tab) /\ Signed(tab)
    BY <2>1, MeansFacts DEF Means
  <2>4. Runs(tab) /\ Posted(tab)' /\ Entitled(tab)' /\ Signed(tab)'
    BY <1>3, <2>1, <2>2, <2>3, MeaningKept
  <2>5. Replaced(tab)'
    BY <1>3, <2>1
  <2> QED
    BY <2>4, <2>5 DEF Means, Runs
<1> QED
  BY <1>2, <1>3

\* Passwords that no step has written.
LEMMA ReplacedStill ==
  ASSUME IInv, IInv', MInv, TablesKept, PasswordsKept, NEW u \in Tabs, NEW tab \in {tabs[u]}
  PROVE  Replaced(tab)'
<1>1. TabOK(tab, Registered, Len(links)) /\ PostOK
  BY TabFacts DEF MInv
<1>2. Replaced(tab)
  BY MeansFacts DEF Means
<1> QED
  BY <1>1, <1>2, ReplacedKept

\* No other request comes to send the same link.
LEMMA SendersKept ==
  ASSUME IInv, MInv, NEW t \in Tabs, NEW r, tabs' = [tabs EXCEPT ![t] = r],
         r.pc = "send" => tabs[t].pc = "send" /\ r.link = tabs[t].link
  PROVE  \A u, v \in Tabs : tabs'[u].pc = "send" /\ tabs'[v].pc = "send"
                            /\ tabs'[u].link = tabs'[v].link => u = v
<1>1. tabs'[t] = r /\ \A u \in Tabs : u # t => tabs'[u] = tabs[u]
  BY DEF IInv, TabsOK
<1>2. \A u, v \in Tabs : tabs[u].pc = "send" /\ tabs[v].pc = "send"
                         /\ tabs[u].link = tabs[v].link => u = v
  BY DEF MInv, PostOK, At
<1> QED
  BY <1>1, <1>2

\* A step that changes addresses and links in no way.
LEMMA SameTables ==
  ASSUME IInv, IInv', MInv, UNCHANGED <<users, links, muddled, resets, now>>
  PROVE  TablesKept /\ PasswordsKept /\ AddressesOK' /\ VerifiedByMail' /\ Registered' = Registered
<1>1. Registered' = Registered /\ Never' = Never
  BY DEF Registered, Never
<1>2. TablesKept
  BY <1>1, Tables DEF TablesKept
<1>3. PasswordsKept
  BY DEF PasswordsKept
<1>4. AddressesOK' /\ VerifiedByMail'
  BY <1>1 DEF MInv, AddressesOK, VerifiedByMail
<1> QED
  BY <1>1, <1>2, <1>3, <1>4

LEMMA QuietMeans ==
  ASSUME IInv, IInv', MInv, NEW t \in Tabs, NEW r, tabs' = [tabs EXCEPT ![t] = r],
         UNCHANGED <<users, links, muddled, resets, now>>, Means(r),
         r.pc = "send" => tabs[t].pc = "send" /\ r.link = tabs[t].link
  PROVE  MInv'
<1>1. TablesKept /\ PasswordsKept /\ AddressesOK' /\ VerifiedByMail' /\ Registered' = Registered
  BY SameTables
<1>2. Means(r)'
  BY <1>1 DEF Means, Runs, Posted, Entitled, Signed, Replaced, WrittenSince, LinkTo, MailTo,
              Shown, Issuing, Owner, Never
<1>3. TabsMean'
  <2>1. \A u \in Tabs : u # t /\ tabs[u].pc = "send" => ~links'[tabs[u].link].delivered
    BY MeansFacts DEF Means, Posted
  <2>2. \A u \in Tabs : u # t => \A tab \in {tabs[u]} : Replaced(tab)'
    BY <1>1, ReplacedStill
  <2> QED
    BY <1>1, <1>2, <2>1, <2>2, OneTabMeans
<1>4. PostOK'
  <2>1. \A u, v \in Tabs : tabs'[u].pc = "send" /\ tabs'[v].pc = "send"
                           /\ tabs'[u].link = tabs'[v].link => u = v
    BY SendersKept
  <2>2. PostOK /\ Len(links') = Len(links)
    BY DEF MInv
  <2> QED
    BY <1>1, <2>1, <2>2, Tables, PostKept
<1> QED
  BY <1>1, <1>3, <1>4 DEF MInv

\* A request that is refused.
LEMMA RefusedKeeps ==
  ASSUME IInv, IInv', MInv, NEW t \in Tabs, Answer(t, FALSE), tabs[t].pc # "idle",
         UNCHANGED <<users, links, muddled, resets, now>>
  PROVE  MInv'
<1>1. tabs[t] \in Tab /\ tabs[t].op \in Ops /\ Means(tabs[t])
  BY TabFacts, MeansFacts DEF TabOK, Busy
<1>2. PICK r : r = Reply(tabs[t], FALSE)
  OBVIOUS
<1>3. tabs' = [tabs EXCEPT ![t] = r]
  BY <1>2 DEF Answer
<1>4. Means(r) /\ r.pc = "idle"
  BY <1>1, <1>2, RefusedMeans
<1> QED
  BY <1>3, <1>4, QuietMeans

-----------------------------------------------------------------------------
(* Pages, again.                                                           *)

LEMMA RequestShape ==
  ASSUME NEW t \in Tabs, NEW tab \in Tab, NEW op, NEW pc, Request(t, tab, op, pc)
  PROVE  \E r : /\ tabs' = [tabs EXCEPT ![t] = r] /\ r.op = op /\ r.pc = pc
                /\ r.session = tab.session /\ r.stage = tab.stage /\ SamePage(r, tab)
<1> DEFINE r == [tab EXCEPT !.op = op, !.pc = pc]
<1>1. tabs' = [tabs EXCEPT ![t] = r]
  BY DEF Request
<1>2. /\ r.op = op /\ r.pc = pc
      /\ r.session = tab.session /\ r.stage = tab.stage /\ SamePage(r, tab)
  BY DEF Tab, SamePage
<1> QED
  BY <1>1, <1>2

LEMMA OpenedStage ==
  ASSUME IInv, NEW t \in Tabs, NEW page \in {"register", "verify", "forgot", "reset", "settings"}
  PROVE  Opened(t, page).stage = FirstStage[page]
<1>1. BlankFor(tabs[t].session) \in Tab
  <2>1. tabs[t].session \in Registered \cup {None} /\ Registered \subseteq Names
        /\ Len(links) \in Nat
    BY TabFacts
  <2> QED
    BY <2>1, BlankOK DEF TabOK
<1> QED
  BY <1>1 DEF Opened, Tab

\* A page that asks for nothing yet, or has only begun to.
Plain(r) ==
  /\ r.page = "register" => r.stage = "domain" /\ r.pc = "create"
  /\ r.page = "settings" => r.stage = "sending"
  /\ r.page = "verify" => r.stage = "verifying"
  /\ r.page = "reset" => r.stage = "form"
LEMMA PlainSays ==
  ASSUME NEW r, Plain(r), r.pc \in {"idle", "create", "consume", "lookup", "check"}
  PROVE  Signed(r) /\ Replaced(r)
BY DEF Plain, Signed, Replaced, Shown, Issuing

LEMMA OpenLinkMeans ==
  ASSUME IInv, IInv', MInv, NEW t \in Tabs, NEW k \in DOMAIN links, OpenLink(t, k)
  PROVE  MInv'
<1>1. links[k].delivered /\ UNCHANGED <<users, links, muddled, resets, now>> /\ Means(tabs[t])
  BY MeansFacts DEF OpenLink, history
<1>2. k \in 1..Len(links) /\ k \in Nat
  BY Tables
<1>3. CASE Request(t, [Opened(t, "verify") EXCEPT !.link = k], "verify", "consume")
  <2> DEFINE open == Opened(t, "verify")
             tab == [open EXCEPT !.link = k]
  <2>1. open \in Tab /\ open.page = "verify" /\ open.stage = "verifying"
        /\ open.session = tabs[t].session
    BY OpenedOK, OpenedStage DEF FirstStage
  <2> HIDE DEF open
  <2>2. tab \in Tab /\ tab.page = "verify" /\ tab.stage = "verifying" /\ tab.link = k
        /\ tab.session = tabs[t].session
    BY <1>2, <2>1 DEF Tab
  <2>3. Request(t, tab, "verify", "consume")
    BY <1>3 DEF open
  <2> HIDE DEF tab
  <2>4. PICK r : /\ tabs' = [tabs EXCEPT ![t] = r] /\ r.op = "verify" /\ r.pc = "consume"
                 /\ r.session = tab.session /\ r.stage = tab.stage /\ SamePage(r, tab)
    BY <2>2, <2>3, RequestShape
  <2>5. Runs(r) /\ Posted(r) /\ Entitled(r)
    BY <1>1, <2>2, <2>4 DEF Means, Runs, Posted, Entitled, SamePage
  <2>6. Plain(r)
    BY <2>2, <2>4 DEF Plain, SamePage
  <2>7. Means(r)
    BY <2>4, <2>5, <2>6, PlainSays DEF Means
  <2> QED
    BY <1>1, <2>4, <2>7, QuietMeans
<1>4. CASE tabs' = [tabs EXCEPT ![t] = [Opened(t, "reset") EXCEPT !.link = k]]
  <2> DEFINE open == Opened(t, "reset")
             r == [open EXCEPT !.link = k]
  <2>1. open \in Tab /\ open.page = "reset" /\ open.stage = "form" /\ open.pc = "idle"
        /\ open.session = tabs[t].session
    BY OpenedOK, OpenedStage DEF FirstStage
  <2> HIDE DEF open
  <2>2. r.page = "reset" /\ r.stage = "form" /\ r.pc = "idle" /\ r.session = tabs[t].session
    BY <2>1 DEF Tab
  <2>3. tabs' = [tabs EXCEPT ![t] = r]
    BY <1>4 DEF open
  <2> HIDE DEF r
  <2>4. Runs(r) /\ Posted(r) /\ Entitled(r)
    BY <1>1, <2>2 DEF Means, Runs, Posted, Entitled
  <2>5. Means(r)
    BY <2>2, <2>4, PlainSays DEF Means, Plain
  <2> QED
    BY <1>1, <2>2, <2>3, <2>5, QuietMeans
<1> QED
  BY <1>3, <1>4 DEF OpenLink

LEMMA SubmitRegistrationMeans ==
  ASSUME IInv, IInv', MInv, NEW t \in Tabs, NEW name \in Names, NEW address \in Addresses,
         SubmitRegistration(t, name, address)
  PROVE  MInv'
<1> DEFINE open == Opened(t, "register")
           tab == [open EXCEPT !.name = name, !.address = address, !.password = sent + 1]
<1>1. open \in Tab /\ open.page = "register" /\ open.stage = "domain"
      /\ open.session = tabs[t].session
  BY OpenedOK, OpenedStage DEF FirstStage
<1>2. Request(t, tab, "register", "create")
      /\ UNCHANGED <<users, links, muddled, resets, now>> /\ Means(tabs[t])
  BY MeansFacts DEF SubmitRegistration, history
<1>3. sent + 1 \in 0..MaxRequests
  BY <1>2, TabFacts DEF Request
<1> HIDE DEF open
<1>4. tab \in Tab /\ tab.page = "register" /\ tab.stage = "domain"
      /\ tab.session = tabs[t].session
  BY <1>1, <1>3 DEF Tab
<1> HIDE DEF tab
<1>5. PICK r : /\ tabs' = [tabs EXCEPT ![t] = r] /\ r.op = "register" /\ r.pc = "create"
               /\ r.session = tab.session /\ r.stage = tab.stage /\ SamePage(r, tab)
  BY <1>2, <1>4, RequestShape
<1>6. Runs(r) /\ Posted(r) /\ Entitled(r) /\ Plain(r)
  BY <1>2, <1>4, <1>5 DEF Means, Runs, Posted, Entitled, SamePage, Plain
<1>7. Means(r)
  BY <1>5, <1>6, PlainSays DEF Means
<1> QED
  BY <1>2, <1>5, <1>7, QuietMeans

LEMMA BackMeans ==
  ASSUME IInv, IInv', MInv, NEW t \in Tabs, BackToCredentials(t)
  PROVE  MInv'
<1> DEFINE tab == tabs[t]
           r == [tab EXCEPT !.stage = "credentials", !.edited = TRUE]
<1>1. tab \in Tab /\ tab.page = "register" /\ Means(tab)
  BY TabFacts, MeansFacts DEF BackToCredentials
<1>2. tabs' = [tabs EXCEPT ![t] = r] /\ UNCHANGED <<users, links, muddled, resets, now>>
  BY DEF BackToCredentials, IInv, TabsOK, history
<1>3. /\ r.page = tab.page /\ r.stage = "credentials" /\ r.session = tab.session
      /\ r.pc = tab.pc /\ r.op = tab.op /\ SamePage(r, tab)
  BY <1>1 DEF Tab, SamePage
<1> HIDE DEF r, tab
<1>4. Means(r)
  BY <1>1, <1>3 DEF Means, Runs, Posted, Entitled, Signed, Replaced, Shown, Issuing, SamePage
<1> QED
  BY <1>2, <1>3, <1>4, QuietMeans DEF tab, SamePage

\* A page that offers another mail has an account whose address it knows.
LEMMA ResendMeans ==
  ASSUME IInv, IInv', MInv, NEW t \in Tabs, NEW name \in Names, Resend(t, name)
  PROVE  MInv'
<1> DEFINE tab == [tabs[t] EXCEPT !.name = name, !.address = users[name].email]
<1>1. name \in Registered /\ users[name].email \in Addresses
  BY DEF Resend, IInv, UsersOK, User
<1>2. /\ Request(t, tab, "resend", "check")
      /\ UNCHANGED <<users, links, muddled, resets, now>> /\ Means(tabs[t])
      /\ \/ tabs[t].page = "register" /\ tabs[t].stage = "done"
         \/ tabs[t].page = "login"
         \/ tabs[t].page = "verify" /\ tabs[t].stage = "error"
      /\ tabs[t].page = "verify" \/ name = tabs[t].name
  BY MeansFacts DEF Resend, history
<1>3. tabs[t] \in Tab
  BY TabFacts
<1>4. /\ tab \in Tab /\ tab.page = tabs[t].page /\ tab.stage = tabs[t].stage
      /\ tab.session = tabs[t].session /\ tab.name = name /\ tab.address = users[name].email
  BY <1>1, <1>3 DEF Tab
<1> HIDE DEF tab
<1>5. PICK r : /\ tabs' = [tabs EXCEPT ![t] = r] /\ r.op = "resend" /\ r.pc = "check"
               /\ r.session = tab.session /\ r.stage = tab.stage /\ SamePage(r, tab)
  BY <1>2, <1>4, RequestShape
<1>6. Runs(r) /\ Posted(r) /\ Entitled(r)
  BY <1>2, <1>4, <1>5 DEF Means, Runs, Posted, Entitled, SamePage
<1>7. Signed(r) /\ Replaced(r)
  <2>1. CASE tabs[t].page = "register" /\ tabs[t].stage = "done"
    <3>1. /\ name \in Registered \ Grandfathered /\ tabs[t].address = users[name].email
          /\ LinkTo(name, tabs[t].address)
      BY <1>2, <2>1 DEF Means, Signed, Shown
    <3>2. r.page = "register" /\ r.stage = "done" /\ r.name = name
          /\ r.address = users[name].email
      BY <1>4, <1>5, <2>1 DEF SamePage
    <3> QED
      BY <1>5, <3>1, <3>2 DEF Signed, Replaced, Shown
  <2>2. CASE tabs[t].page = "login" \/ (tabs[t].page = "verify" /\ tabs[t].stage = "error")
    <3>1. r.page = "login" \/ (r.page = "verify" /\ r.stage = "error")
      BY <1>4, <1>5, <2>2 DEF SamePage
    <3> QED
      BY <1>5, <3>1 DEF Signed, Replaced, Shown
  <2> QED
    BY <1>2, <2>1, <2>2
<1>8. Means(r)
  BY <1>6, <1>7 DEF Means
<1> QED
  BY <1>2, <1>5, <1>8, QuietMeans

\* A page at rest that claims nothing means what its session does.
LEMMA RestMeans ==
  ASSUME NEW r, r.pc = "idle", r.page \in {"blank", "login"},
         r.session \in Registered \ Grandfathered => users[r.session].verified
  PROVE  Means(r)
BY DEF Means, Runs, Posted, Entitled, Signed, Replaced, Shown, Issuing

\* Whoever may sign in has a verified address, or had none when addresses came.
LEMMA LoginMeans ==
  ASSUME IInv, IInv', MInv, NEW t \in Tabs, NEW name \in Names, NEW right \in BOOLEAN,
         Login(t, name, right)
  PROVE  MInv'
<1> DEFINE passed == AttemptAllowed(<<"login", name>>)
           known == name \in Registered /\ right
           barred == known /\ users[name].email # None /\ ~users[name].verified
           ok == passed /\ known /\ ~barred
           unverified == passed /\ barred
           tab == LoginShown(name, ok, unverified)
<1>1. Request(t, tab, None, "idle") /\ UNCHANGED <<users, links, muddled, resets, now>>
  BY DEF Login
<1>2. ok => ~unverified /\ (name \in Registered \ Grandfathered => users[name].verified)
  <2>1. name \in Registered \ Grandfathered => users[name].email # None
    BY TabFacts DEF MInv, AddressesOK
  <2> QED
    BY <2>1
<1> HIDE DEF ok, unverified
<1>3. /\ tab \in Tab /\ tab.page \in {"blank", "login"}
      /\ tab.session \in Registered \ Grandfathered => users[tab.session].verified
  <2>1. Registered \subseteq Names /\ None \notin Names /\ BlankTab \in Tab
    BY TabFacts, Bounds DEF BlankTab, Tab, Stages
  <2>2. CASE ok
    <3>1. tab = [BlankTab EXCEPT !.session = name]
      BY <1>2, <2>2 DEF LoginShown, BlankFor
    <3>2. tab.session = name /\ tab.page = "blank" /\ tab \in Tab
      BY <2>1, <3>1 DEF BlankTab, Tab
    <3> QED
      BY <1>2, <2>2, <3>2
  <2>3. CASE ~ok /\ unverified
    <3>1. tab = [BlankTab EXCEPT !.page = "login", !.stage = "unverified", !.name = name]
      BY <2>3 DEF LoginShown
    <3>2. tab.session = None /\ tab.page = "login" /\ tab \in Tab
      BY <2>1, <3>1, ZenonT(30) DEF BlankTab, Tab, Stages
    <3> QED
      BY <2>1, <3>2
  <2>4. CASE ~ok /\ ~unverified
    <3>1. tab = BlankTab
      BY <2>4 DEF LoginShown
    <3>2. tab.session = None /\ tab.page = "blank" /\ tab \in Tab
      BY <2>1, <3>1 DEF BlankTab
    <3> QED
      BY <2>1, <3>2
  <2> QED
    BY <2>2, <2>3, <2>4
<1> HIDE DEF tab
<1>4. PICK r : /\ tabs' = [tabs EXCEPT ![t] = r] /\ r.op = None /\ r.pc = "idle"
               /\ r.session = tab.session /\ r.stage = tab.stage /\ SamePage(r, tab)
  BY <1>1, <1>3, RequestShape
<1>5. Means(r)
  BY <1>3, <1>4, RestMeans DEF SamePage
<1> QED
  BY <1>1, <1>4, <1>5, QuietMeans

LEMMA EndSessionMeans ==
  ASSUME IInv, IInv', MInv, NEW t \in Tabs, EndSession(t)
  PROVE  MInv'
<1>1. BlankTab.session = None /\ BlankTab.page = "blank" /\ BlankTab.pc = "idle"
  BY DEF BlankTab
<1>2. Means(BlankTab)
  BY <1>1, TabFacts, RestMeans
<1>3. PICK r : r = BlankTab
  OBVIOUS
<1>4. tabs' = [tabs EXCEPT ![t] = r] /\ UNCHANGED <<users, links, muddled, resets, now>>
  BY <1>3 DEF EndSession, history
<1> QED
  BY <1>1, <1>2, <1>3, <1>4, QuietMeans

LEMMA SubmitAddressMeans ==
  ASSUME IInv, IInv', MInv, NEW t \in Tabs, NEW address \in Addresses, SubmitAddress(t, address)
  PROVE  MInv'
<1> DEFINE open == Opened(t, "settings")
           tab == [open EXCEPT !.name = tabs[t].session, !.address = address]
<1>1. open \in Tab /\ open.page = "settings" /\ open.stage = "sending"
      /\ open.session = tabs[t].session
  BY OpenedOK, OpenedStage DEF FirstStage
<1>2. Request(t, tab, "setEmail", "lookup")
      /\ UNCHANGED <<users, links, muddled, resets, now>> /\ Means(tabs[t])
      /\ tabs[t].session \in Names \cup {None}
  BY MeansFacts, TabFacts DEF SubmitAddress, history
<1> HIDE DEF open
<1>3. tab \in Tab /\ tab.page = "settings" /\ tab.stage = "sending"
      /\ tab.session = tabs[t].session /\ tab.name = tabs[t].session
  BY <1>1, <1>2 DEF Tab
<1> HIDE DEF tab
<1>4. PICK r : /\ tabs' = [tabs EXCEPT ![t] = r] /\ r.op = "setEmail" /\ r.pc = "lookup"
               /\ r.session = tab.session /\ r.stage = tab.stage /\ SamePage(r, tab)
  BY <1>2, <1>3, RequestShape
<1>5. Runs(r) /\ Posted(r) /\ Entitled(r) /\ Plain(r)
  BY <1>2, <1>3, <1>4 DEF Means, Runs, Posted, Entitled, SamePage, Plain
<1>6. Means(r)
  BY <1>4, <1>5, PlainSays DEF Means
<1> QED
  BY <1>2, <1>4, <1>6, QuietMeans

LEMMA ForgotMeans ==
  ASSUME IInv, IInv', MInv, NEW t \in Tabs, NEW address \in Addresses, Forgot(t, address)
  PROVE  MInv'
<1>1. UNCHANGED <<users, links, muddled, resets, now>> /\ Means(tabs[t])
  BY MeansFacts DEF Forgot
<1>2. CASE Request(t, BlankFor(tabs[t].session), None, "idle")
  <2> DEFINE tab == BlankFor(tabs[t].session)
  <2>1. tab \in Tab /\ tab.page = "blank" /\ tab.session = tabs[t].session
    <3>1. tabs[t].session \in Registered \cup {None} /\ Registered \subseteq Names
          /\ Len(links) \in Nat
      BY TabFacts
    <3>2. tab \in Tab
      BY <3>1, BlankOK DEF TabOK
    <3> QED
      BY <3>2 DEF BlankFor, BlankTab
  <2> HIDE DEF tab
  <2>2. PICK r : /\ tabs' = [tabs EXCEPT ![t] = r] /\ r.op = None /\ r.pc = "idle"
                 /\ r.session = tab.session /\ r.stage = tab.stage /\ SamePage(r, tab)
    BY <1>2, <2>1, RequestShape DEF tab
  <2>3. Means(r)
    BY <1>1, <2>1, <2>2, RestMeans DEF SamePage, Means, Entitled
  <2> QED
    BY <1>1, <2>2, <2>3, QuietMeans
<1>3. ASSUME NEW name \in Owners(address),
             Request(t, ForgotSent(t, name, address), "forgot", "check")
      PROVE  MInv'
  <2> DEFINE open == Opened(t, "forgot")
             tab == [open EXCEPT !.name = name, !.address = address]
  <2>1. open \in Tab /\ open.page = "forgot" /\ open.session = tabs[t].session
    BY OpenedOK
  <2>2. Request(t, tab, "forgot", "check")
    BY <1>3 DEF ForgotSent
  <2>3. name \in Names
    BY TabFacts DEF Owners
  <2> HIDE DEF open
  <2>4. tab \in Tab /\ tab.page = "forgot" /\ tab.session = tabs[t].session
    BY <2>1, <2>3 DEF Tab
  <2> HIDE DEF tab
  <2>5. PICK r : /\ tabs' = [tabs EXCEPT ![t] = r] /\ r.op = "forgot" /\ r.pc = "check"
                 /\ r.session = tab.session /\ r.stage = tab.stage /\ SamePage(r, tab)
    BY <2>2, <2>4, RequestShape
  <2>6. Runs(r) /\ Posted(r) /\ Entitled(r) /\ Plain(r)
    BY <1>1, <2>4, <2>5 DEF Means, Runs, Posted, Entitled, SamePage, Plain
  <2>7. Means(r)
    BY <2>5, <2>6, PlainSays DEF Means
  <2> QED
    BY <1>1, <2>5, <2>7, QuietMeans
<1> QED
  BY <1>2, <1>3 DEF Forgot

LEMMA SubmitResetMeans ==
  ASSUME IInv, IInv', MInv, NEW t \in Tabs, SubmitReset(t)
  PROVE  MInv'
<1> DEFINE tab == [tabs[t] EXCEPT !.password = sent + 1]
<1>1. Request(t, tab, "reset", "consume") /\ tabs[t].page = "reset" /\ tabs[t].stage = "form"
      /\ UNCHANGED <<users, links, muddled, resets, now>> /\ Means(tabs[t])
  BY MeansFacts DEF SubmitReset, history
<1>2. tabs[t] \in Tab /\ sent + 1 \in 0..MaxRequests
  BY <1>1, TabFacts DEF Request
<1>3. tab \in Tab /\ tab.page = "reset" /\ tab.stage = "form" /\ tab.session = tabs[t].session
  BY <1>1, <1>2 DEF Tab
<1> HIDE DEF tab
<1>4. PICK r : /\ tabs' = [tabs EXCEPT ![t] = r] /\ r.op = "reset" /\ r.pc = "consume"
               /\ r.session = tab.session /\ r.stage = tab.stage /\ SamePage(r, tab)
  BY <1>1, <1>3, RequestShape
<1>5. Runs(r) /\ Posted(r) /\ Entitled(r) /\ Plain(r)
  BY <1>1, <1>3, <1>4 DEF Means, Runs, Posted, Entitled, SamePage, Plain
<1>6. Means(r)
  BY <1>4, <1>5, PlainSays DEF Means
<1> QED
  BY <1>1, <1>4, <1>6, QuietMeans

-----------------------------------------------------------------------------
(* The service, again.                                                     *)

\* A request that goes on to its next statement.
LEMMA GotoShape ==
  ASSUME NEW t \in Tabs, tabs[t] \in Tab, NEW pc, Goto(t, pc)
  PROVE  \E r : /\ tabs' = [tabs EXCEPT ![t] = r] /\ r.op = tabs[t].op /\ r.pc = pc
                /\ r.session = tabs[t].session /\ r.stage = tabs[t].stage
                /\ SamePage(r, tabs[t])
<1> DEFINE r == [tabs[t] EXCEPT !.pc = pc]
<1>1. tabs' = [tabs EXCEPT ![t] = r]
  BY DEF Goto
<1>2. /\ r.op = tabs[t].op /\ r.pc = pc
      /\ r.session = tabs[t].session /\ r.stage = tabs[t].stage /\ SamePage(r, tabs[t])
  BY DEF Tab, SamePage
<1> QED
  BY <1>1, <1>2

LEMMA CheckCooldownMeans ==
  ASSUME IInv, IInv', MInv, NEW t \in Tabs, CheckCooldown(t)
  PROVE  MInv'
<1>1. tabs[t].pc = "check" /\ tabs[t].pc # "idle" /\ tabs[t] \in Tab /\ Means(tabs[t])
      /\ UNCHANGED <<users, links, muddled, resets, now>>
  BY TabFacts, MeansFacts DEF CheckCooldown, At, history
<1>2. CASE Answer(t, FALSE)
  BY <1>1, <1>2, RefusedKeeps
<1>3. CASE Goto(t, "insert")
  <2>1. PICK r : /\ tabs' = [tabs EXCEPT ![t] = r] /\ r.op = tabs[t].op /\ r.pc = "insert"
                 /\ r.session = tabs[t].session /\ r.stage = tabs[t].stage
                 /\ SamePage(r, tabs[t])
    BY <1>1, <1>3, GotoShape
  <2>2. Means(r)
    BY <1>1, <2>1 DEF Means, Runs, Posted, Entitled, Signed, Replaced, Shown, Issuing, SamePage
  <2> QED
    BY <1>1, <2>1, <2>2, QuietMeans
<1> QED
  BY <1>2, <1>3 DEF CheckCooldown

\* Only an account that was there before addresses were asked for is not verified here.
LEMMA CheckUnverifiedMeans ==
  ASSUME IInv, IInv', MInv, NEW t \in Tabs, CheckUnverified(t)
  PROVE  MInv'
<1>1. tabs[t].pc = "lookup" /\ tabs[t].pc # "idle" /\ tabs[t] \in Tab /\ Means(tabs[t])
      /\ UNCHANGED <<users, links, muddled, resets, now>> /\ tabs[t].name \in Registered
  BY AtFacts, TabFacts, MeansFacts DEF CheckUnverified, At, Busy, history
<1>2. CASE Answer(t, FALSE)
  BY <1>1, <1>2, RefusedKeeps
<1>3. CASE Goto(t, "set") /\ ~(users[tabs[t].name].email # None /\ users[tabs[t].name].verified)
  <2>1. PICK r : /\ tabs' = [tabs EXCEPT ![t] = r] /\ r.op = tabs[t].op /\ r.pc = "set"
                 /\ r.session = tabs[t].session /\ r.stage = tabs[t].stage
                 /\ SamePage(r, tabs[t])
    BY <1>1, <1>3, GotoShape
  <2>2. tabs[t].name \in Grandfathered
    <3>1. tabs[t].name = tabs[t].session
      BY <1>1 DEF Means, Entitled
    <3>2. tabs[t].name \in Registered \ Grandfathered =>
            users[tabs[t].name].verified /\ users[tabs[t].name].email # None
      BY <1>1, <3>1, TabFacts DEF Means, Entitled, MInv, AddressesOK
    <3> QED
      BY <1>1, <1>3, <3>2
  <2>3. Runs(r) /\ Posted(r) /\ Entitled(r)
    BY <1>1, <2>1, <2>2 DEF Means, Runs, Posted, Entitled, SamePage
  <2>4. Signed(r) /\ Replaced(r)
    BY <1>1, <2>1 DEF Means, Signed, Replaced, Shown, Issuing, SamePage
  <2>5. Means(r)
    BY <2>3, <2>4 DEF Means
  <2> QED
    BY <1>1, <2>1, <2>5, QuietMeans
<1> QED
  BY <1>2, <1>3 DEF CheckUnverified

LEMMA FailMeans ==
  ASSUME IInv, IInv', MInv, NEW t \in Tabs, Fail(t)
  PROVE  MInv'
BY RefusedKeeps DEF Fail, Idle, history

\* A request is refused, or writes a new account: no link is of it yet.
LEMMA CreateUserMeans ==
  ASSUME IInv, IInv', MInv, NEW t \in Tabs, CreateUser(t)
  PROVE  MInv'
<1> DEFINE n == tabs[t].name
           new == [email |-> tabs[t].address, verified |-> FALSE,
                   password |-> tabs[t].password]
<1>1. /\ tabs[t].pc = "create" /\ tabs[t].pc # "idle" /\ tabs[t] \in Tab /\ Means(tabs[t])
      /\ UNCHANGED <<links, muddled, resets, now>>
      /\ tabs[t].address \in Addresses /\ tabs[t].op = "register"
  BY AtFacts, TabFacts, MeansFacts DEF CreateUser, At, Busy, history, Means, Runs
<1>2. CASE Answer(t, FALSE) /\ UNCHANGED users
  BY <1>1, <1>2, RefusedKeeps
<1>3. ASSUME users' = [m \in Registered \cup {n} |-> IF m = n THEN new ELSE users[m]],
             n \notin Registered, Goto(t, "check")
      PROVE  MInv'
  <2>1. PICK r : /\ tabs' = [tabs EXCEPT ![t] = r] /\ r.op = tabs[t].op /\ r.pc = "check"
                 /\ r.session = tabs[t].session /\ r.stage = tabs[t].stage
                 /\ SamePage(r, tabs[t])
    BY <1>1, <1>3, GotoShape
  <2>2. new.email = tabs[t].address /\ ~new.verified
    OBVIOUS
  <2> HIDE DEF new
  <2>3. /\ Registered' = Registered \cup {n}
        /\ users'[n] = new /\ \A m \in Registered : users'[m] = users[m]
    BY <1>3 DEF Registered
  <2>4. TablesKept /\ PasswordsKept
    BY <1>1, <2>3, Tables DEF TablesKept, PasswordsKept
  <2>5. /\ r.name = n /\ r.address = users'[n].email
        /\ r.session \in Registered \cup {None} /\ r.session # n
        /\ n \notin Grandfathered /\ n \in Registered'
    BY <1>3, <2>1, <2>2, <2>3, TabFacts, Tables DEF SamePage, MInv, AddressesOK
  <2>6. tabs[t].page = "register" /\ tabs[t].stage # "done"
    <3>1. tabs[t].page = "register"
      BY <1>1, AtFacts DEF CreateUser, Busy
    <3> QED
      BY <1>1, <1>3, <3>1 DEF Means, Signed
  <2>7. Runs(r) /\ Posted(r)' /\ Entitled(r)'
    BY <1>1, <2>1, <2>3, <2>5, <2>6 DEF Means, Runs, Posted, Entitled, SamePage
  <2>8. Signed(r)' /\ Replaced(r)'
    BY <2>1, <2>5, <2>6 DEF Signed, Replaced, Shown, SamePage
  <2>9. Means(r)'
    BY <2>7, <2>8 DEF Means, Runs
  <2>10. TabsMean'
    <3>1. \A u \in Tabs : u # t /\ tabs[u].pc = "send" => ~links'[tabs[u].link].delivered
      BY <1>1, MeansFacts DEF Means, Posted
    <3>2. \A u \in Tabs : u # t => \A tab \in {tabs[u]} : Replaced(tab)'
      BY <2>4, ReplacedStill
    <3> QED
      BY <2>1, <2>4, <2>9, <3>1, <3>2, OneTabMeans
  <2>11. PostOK'
    <3>1. \A u, v \in Tabs : tabs'[u].pc = "send" /\ tabs'[v].pc = "send"
                             /\ tabs'[u].link = tabs'[v].link => u = v
      BY <2>1, SendersKept
    <3> QED
      BY <1>1, <2>4, <3>1, Tables, PostKept DEF MInv
  <2>12. AddressesOK'
    BY <1>1, <2>2, <2>3 DEF MInv, AddressesOK
  <2>13. VerifiedByMail'
    BY <2>2, <2>3, <2>4, MailKept DEF MInv
  <2> QED
    BY <2>10, <2>11, <2>12, <2>13 DEF MInv
<1> QED
  BY <1>2, <1>3 DEF CreateUser, Taken

\* A link is issued for the account's address, and its request is the one to send it.
LEMMA InsertTokenMeans ==
  ASSUME IInv, IInv', MInv, NEW t \in Tabs, InsertToken(t)
  PROVE  MInv'
<1>0. PICK tab, m, mail : /\ tab = tabs[t] /\ m = Len(links) + 1
                           /\ mail = Mail(KindOf(tab.op), tab.name, tab.address)
  OBVIOUS
<1>1. /\ tab.pc = "insert" /\ tab.pc # "idle" /\ tab \in Tab /\ Means(tab)
      /\ UNCHANGED <<users, muddled, now>>
      /\ tab.name \in Registered /\ Len(links) \in Nat /\ m \in Nat
      /\ links' = Append(links, mail) /\ resets' = Append(resets, 0)
      /\ tabs' = [tabs EXCEPT ![t].pc = "send", ![t].link = m]
  BY <1>0, AtFacts, TabFacts, MeansFacts DEF InsertToken, At, Busy
<1>2. /\ mail.kind = KindOf(tab.op) /\ mail.user = tab.name /\ mail.to = tab.address
      /\ ~mail.delivered
  BY <1>0 DEF Mail
<1>3. PICK r : /\ tabs' = [tabs EXCEPT ![t] = r]
               /\ r.page = tab.page /\ r.stage = tab.stage /\ r.session = tab.session
               /\ r.name = tab.name /\ r.address = tab.address
               /\ r.link = m /\ r.pc = "send" /\ r.op = tab.op
  <2> DEFINE r == [tab EXCEPT !.pc = "send", !.link = m]
  <2>1. tabs' = [tabs EXCEPT ![t] = r]
    BY <1>0, <1>1 DEF IInv, TabsOK
  <2>2. /\ r.page = tab.page /\ r.stage = tab.stage /\ r.session = tab.session
        /\ r.name = tab.name /\ r.address = tab.address
        /\ r.link = m /\ r.pc = "send" /\ r.op = tab.op
    BY <1>1 DEF Tab
  <2> QED
    BY <2>1, <2>2
<1>4. /\ Len(links') = m /\ links'[m] = mail
      /\ \A k \in 1..Len(links) : links'[k] = links[k] /\ resets'[k] = resets[k]
  <2>1. links \in Seq(Link) /\ resets \in Seq(Nat) /\ Len(resets) = Len(links)
    BY DEF IInv, LinksOK
  <2> QED
    BY <1>0, <1>1, <2>1, AppendProperties
<1>5. Registered' = Registered
  BY <1>1 DEF Registered
<1>6. TablesKept /\ PasswordsKept
  <2>1. Len(links) <= Len(links') /\ now <= now'
    BY <1>0, <1>1, <1>4, Tables
  <2>2. TablesKept
    BY <1>1, <1>4, <1>5, <2>1 DEF TablesKept
  <2>3. PasswordsKept
    BY <1>1, <1>4 DEF PasswordsKept
  <2> QED
    BY <2>2, <2>3
<1>7. Runs(r) /\ Posted(r)' /\ Entitled(r)'
  BY <1>1, <1>2, <1>3, <1>4, <1>5 DEF Means, Runs, Posted, Entitled
<1>8. Signed(r)' /\ Replaced(r)'
  <2>1. tab.page = "register" =>
          tab.name \in Registered' \ Grandfathered /\ tab.address = users'[tab.name].email
    BY <1>1, <1>5 DEF Means, Signed, Issuing
  <2>2. Shown(tab, "register", "done") \/ Shown(tab, "settings", "sent") =>
          LinkTo(tab.name, tab.address)
    BY <1>1 DEF Means, Signed
  <2>3. PICK name, address : name = tab.name /\ address = tab.address
    OBVIOUS
  <2>4. LinkTo(name, address) => LinkTo(name, address)'
    BY <1>6, LinkToKept
  <2>5. tab.op \in {"register", "setEmail"} => MailTo(r.link, name, address)'
    BY <1>2, <1>3, <1>4, <2>3 DEF MailTo, KindOf
  <2>6. ~Shown(r, "verify", "success") /\ ~Shown(r, "reset", "done")
    BY <1>1, <1>3 DEF Means, Runs, Shown
  <2> QED
    BY <1>3, <2>1, <2>2, <2>3, <2>4, <2>5, <2>6 DEF Signed, Replaced, Shown
<1>9. Means(r)'
  BY <1>7, <1>8 DEF Means, Runs
<1>10. \A u \in Tabs : tabs[u].pc = "send" => tabs[u].link \in 1..Len(links)
  BY <1>1, TabFacts DEF TabOK, Busy
<1>11. tabs'[t] = r /\ \A u \in Tabs : u # t => tabs'[u] = tabs[u]
  BY <1>3 DEF IInv, TabsOK
<1>12. TabsMean'
  <2>1. \A u \in Tabs : u # t /\ tabs[u].pc = "send" => ~links'[tabs[u].link].delivered
    BY <1>4, <1>10, MeansFacts DEF Means, Posted
  <2>2. \A u \in Tabs : u # t => \A x \in {tabs[u]} : Replaced(x)'
    BY <1>6, ReplacedStill
  <2> QED
    BY <1>3, <1>6, <1>9, <2>1, <2>2, OneTabMeans
<1>13. PostOK'
  <2>1. \A u, v \in Tabs : tabs'[u].pc = "send" /\ tabs'[v].pc = "send"
                           /\ tabs'[u].link = tabs'[v].link => u = v
    <3>1. \A u, v \in Tabs : tabs[u].pc = "send" /\ tabs[v].pc = "send"
                             /\ tabs[u].link = tabs[v].link => u = v
      BY DEF MInv, PostOK, At
    <3>2. \A u \in Tabs : u # t /\ tabs[u].pc = "send" => tabs[u].link # m
      BY <1>0, <1>1, <1>10
    <3> QED
      BY <1>3, <1>11, <3>1, <3>2
  <2>2. \A k \in 1..Len(links') : k > Len(links) =>
           /\ Owner(k)' \in Registered'
           /\ links'[k].kind = "verification" /\ Owner(k)' \notin muddled' =>
                links'[k].to = users'[Owner(k)'].email
    <3>1. tab.op # "forgot" /\ tab.name \notin muddled => tab.address = users[tab.name].email
      BY <1>1 DEF Means, Posted
    <3>2. mail.kind = "verification" => tab.op # "forgot"
      BY <1>2 DEF KindOf
    <3>3. \A k \in 1..Len(links') : k > Len(links) => k = m
      BY <1>0, <1>1, <1>4
    <3> QED
      BY <1>1, <1>2, <1>4, <1>5, <3>1, <3>2, <3>3 DEF Owner
  <2> QED
    BY <1>6, <2>1, <2>2, PostKept DEF MInv
<1>14. AddressesOK'
  BY <1>1, <1>5 DEF MInv, AddressesOK
<1>15. VerifiedByMail'
  BY <1>1, <1>5, <1>6, MailKept DEF MInv
<1> QED
  BY <1>12, <1>13, <1>14, <1>15 DEF MInv

\* A good answer, of what the request has done.
LEMMA GrantedMeans ==
  ASSUME NEW tab \in Tab, tab.op \in Ops, NEW r, r = Reply(tab, TRUE),
         tab.op \in {"register", "verify", "reset"} => tab.page = tab.op,
         tab.op = "setEmail" => tab.page = "settings",
         Entitled(tab)', Signed(tab)', Replaced(tab)',
         tab.op = "register" =>
           tab.name \in Registered' \ Grandfathered /\ tab.address = users'[tab.name].email,
         tab.op \in {"register", "setEmail"} => LinkTo(tab.name, tab.address)',
         tab.op = "verify" =>
           tab.link # 0 /\ (users'[Owner(tab.link)'].verified \/ Owner(tab.link)' \in muddled'),
         tab.op = "reset" =>
           /\ tab.link # 0 /\ resets'[tab.link] > 0
           /\ users'[Owner(tab.link)'].password = tab.password
  PROVE  Means(r)' /\ r.pc = "idle"
<1>1. r.pc = "idle" /\ r.session = tab.session
  BY ReplyShape
<1>2. Runs(r) /\ Posted(r)' /\ Entitled(r)'
  BY <1>1 DEF Runs, Posted, Entitled
<1>3. CASE \/ r.page = "blank"
           \/ r.page = "verify" /\ r.stage = "error"
           \/ r.page = "reset" /\ r.stage = "form"
  BY <1>1, <1>2, <1>3 DEF Means, Runs, Signed, Replaced, Shown, Issuing
<1>4. CASE SamePage(r, tab) /\ r.stage = tab.stage
  BY <1>1, <1>2, <1>4 DEF Means, Runs, Signed, Replaced, Shown, Issuing, SamePage
<1>5. CASE tab.op \in DOMAIN StageIfOk /\ SamePage(r, tab) /\ r.stage = StageIfOk[tab.op]
  <2>1. /\ tab.op \in {"register", "verify", "reset", "setEmail"}
        /\ r.page = tab.page /\ r.name = tab.name /\ r.address = tab.address
        /\ r.password = tab.password /\ r.link = tab.link
    BY <1>5 DEF StageIfOk, SamePage
  <2>2. CASE tab.op = "register"
    <3>1. r.page = "register"
      BY <2>1, <2>2
    <3> QED
      BY <1>1, <1>2, <2>1, <2>2, <3>1 DEF Means, Runs, Signed, Replaced, Shown
  <2>3. CASE tab.op = "setEmail"
    <3>1. r.page = "settings"
      BY <2>1, <2>3
    <3> QED
      BY <1>1, <1>2, <2>1, <2>3, <3>1 DEF Means, Runs, Signed, Replaced, Shown
  <2>4. CASE tab.op = "verify"
    <3>1. r.page = "verify"
      BY <2>1, <2>4
    <3> QED
      BY <1>1, <1>2, <2>1, <2>4, <3>1 DEF Means, Runs, Signed, Replaced, Shown
  <2>5. CASE tab.op = "reset"
    <3>1. r.page = "reset"
      BY <2>1, <2>5
    <3> QED
      BY <1>1, <1>2, <2>1, <2>5, <3>1 DEF Means, Runs, Signed, Replaced, Shown
  <2> QED
    BY <2>1, <2>2, <2>3, <2>4, <2>5
<1> QED
  BY <1>1, <1>3, <1>4, <1>5, ReplyShape

\* A request under way, and its link.
LEMMA UnderWay ==
  ASSUME IInv, MInv, NEW t \in Tabs, NEW tab, tab = tabs[t], tab.pc # "idle"
  PROVE  /\ tab \in Tab /\ tab.op \in Ops /\ TabOK(tab, Registered, Len(links)) /\ Means(tab)
         /\ tab.op \in {"register", "verify", "reset"} => tab.page = tab.op
         /\ tab.op = "setEmail" => tab.page = "settings"
         /\ tab.pc \in {"send", "consume", "mark", "write"} => tab.link \in 1..Len(links)
<1>1. TabOK(tab, Registered, Len(links)) /\ tab \in Tab /\ Busy(tab, Registered)
  BY TabFacts DEF TabOK
<1>2. tab.link \in 0..Len(links) /\ Len(links) \in Nat
  BY <1>1, TabFacts DEF TabOK
<1> QED
  BY <1>1, <1>2, MeansFacts DEF Busy

\* A link's row that is updated.
LEMMA RowUpdated ==
  ASSUME IInv, NEW k \in 1..Len(links), NEW row, links' = [links EXCEPT ![k] = row]
  PROVE  \A i \in 1..Len(links) : links'[i] = IF i = k THEN row ELSE links[i]
BY Lengths DEF IInv, LinksOK

\* The mail of a link, which nobody has opened yet, is sent or lost.
LEMMA SendMailMeans ==
  ASSUME IInv, IInv', MInv, NEW t \in Tabs, NEW delivered \in BOOLEAN, SendMail(t, delivered)
  PROVE  MInv'
<1>0. PICK tab, k, r, row : /\ tab = tabs[t] /\ k = tab.link /\ r = Reply(tab, TRUE)
                            /\ row = [links[k] EXCEPT !.delivered = delivered]
  OBVIOUS
<1>1. /\ tab.pc = "send" /\ tab.pc # "idle" /\ UNCHANGED <<users, muddled, now, resets>>
      /\ tabs' = [tabs EXCEPT ![t] = r] /\ links' = [links EXCEPT ![k] = row]
  BY <1>0 DEF SendMail, At, Answer, history
<1>2. /\ tab \in Tab /\ tab.op \in Ops /\ TabOK(tab, Registered, Len(links)) /\ Means(tab)
      /\ tab.op \in {"register", "verify", "reset"} => tab.page = tab.op
      /\ tab.op = "setEmail" => tab.page = "settings"
      /\ k \in 1..Len(links)
  BY <1>0, <1>1, UnderWay
<1>3. /\ row.kind = links[k].kind /\ row.user = links[k].user /\ row.to = links[k].to
      /\ row.expires = links[k].expires /\ row.used = links[k].used /\ ~links[k].delivered
  <2>1. links[k] \in Link
    BY <1>2, LinkFacts
  <2> QED
    BY <1>0, <1>1, <1>2, <2>1 DEF Link, Means, Posted
<1>4. \A i \in 1..Len(links) : links'[i] = IF i = k THEN row ELSE links[i]
  BY <1>1, <1>2, RowUpdated
<1>5. Len(links') = Len(links) /\ Registered' = Registered
  <2>1. DOMAIN links' = DOMAIN links
    BY <1>1
  <2> QED
    BY <1>1, <2>1, Tables DEF Registered
<1>6. TablesKept /\ PasswordsKept
  <2>1. Len(links) <= Len(links') /\ now <= now'
    BY <1>1, <1>5, Tables
  <2>2. TablesKept
    BY <1>1, <1>3, <1>4, <1>5, <2>1 DEF TablesKept
  <2> QED
    BY <1>1, <2>2 DEF PasswordsKept
<1>7. Means(r)'
  <2>1. Entitled(tab)'
    BY <1>1, <1>2, <1>5 DEF Means, Entitled
  <2>2. Replaced(tab)'
    BY <1>0, <1>6, ReplacedStill
  <2>3. /\ tab.op = "register" =>
             tab.name \in Registered' \ Grandfathered /\ tab.address = users'[tab.name].email
        /\ tab.op \in {"register", "setEmail"} => MailTo(k, tab.name, tab.address)
        /\ tab.op \notin {"verify", "reset"}
    BY <1>0, <1>1, <1>2, <1>5 DEF Means, Runs, Signed, Issuing
  <2>4. tab.op \in {"register", "setEmail"} => LinkTo(tab.name, tab.address)'
    <3>1. MailTo(k, tab.name, tab.address) => LinkTo(tab.name, tab.address)
      BY <1>2, Tables DEF MailTo, LinkTo
    <3> QED
      BY <1>6, <2>3, <3>1, LinkToKept
  <2>5. Signed(tab)'
    <3>1. Shown(tab, "register", "done") \/ Shown(tab, "settings", "sent") =>
            LinkTo(tab.name, tab.address)'
      BY <1>2, <1>6, LinkToKept DEF Means, Signed
    <3>2. tab.page = "register" =>
             tab.name \in Registered' \ Grandfathered /\ tab.address = users'[tab.name].email
      BY <1>1, <1>2, <1>5 DEF Means, Signed, Issuing
    <3>3. tab.op \in {"register", "setEmail"} => MailTo(tab.link, tab.name, tab.address)'
      BY <1>0, <1>2, <1>3, <1>4, <2>3 DEF MailTo
    <3>4. ~Shown(tab, "verify", "success")
      BY <1>1, <1>2 DEF Means, Runs, Shown
    <3> QED
      BY <3>1, <3>2, <3>3, <3>4 DEF Signed, Shown
  <2> QED
    BY <1>0, <1>2, <2>1, <2>2, <2>3, <2>4, <2>5, GrantedMeans
<1>8. TabsMean'
  <2>1. ASSUME NEW u \in Tabs, u # t, tabs[u].pc = "send"
        PROVE  ~links'[tabs[u].link].delivered
    <3>1. tabs[u].link # k
      BY <1>0, <1>1, <2>1 DEF MInv, PostOK, At
    <3>2. tabs[u].link \in 1..Len(links) /\ ~links[tabs[u].link].delivered
      BY <2>1, UnderWay DEF Means, Posted
    <3> QED
      BY <1>4, <3>1, <3>2
  <2>2. \A u \in Tabs : u # t => \A x \in {tabs[u]} : Replaced(x)'
    BY <1>6, ReplacedStill
  <2> QED
    BY <1>1, <1>6, <1>7, <2>1, <2>2, OneTabMeans
<1>9. PostOK'
  <2>1. r.pc = "idle"
    BY <1>0, <1>2, ReplyShape
  <2>2. \A u, v \in Tabs : tabs'[u].pc = "send" /\ tabs'[v].pc = "send"
                           /\ tabs'[u].link = tabs'[v].link => u = v
    BY <1>1, <2>1, SendersKept
  <2> QED
    BY <1>5, <1>6, <2>2, Tables, PostKept DEF MInv
<1>10. AddressesOK'
  BY <1>1, <1>5 DEF MInv, AddressesOK
<1>11. VerifiedByMail'
  BY <1>1, <1>5, <1>6, MailKept DEF MInv
<1> QED
  BY <1>8, <1>9, <1>10, <1>11 DEF MInv

\* A link is used: its use is noted, and nothing else of it.
LEMMA Consumed ==
  ASSUME IInv, IInv', MInv, NEW k \in 1..Len(links), NEW used, used # Never,
         links' = [links EXCEPT ![k].used = used],
         UNCHANGED <<users, muddled, now, resets>>
  PROVE  /\ TablesKept /\ PasswordsKept /\ AddressesOK' /\ VerifiedByMail'
         /\ Len(links') = Len(links) /\ Registered' = Registered
         /\ links'[k].used = used
         /\ \A i \in 1..Len(links) :
              links'[i].delivered = links[i].delivered /\ links'[i].kind = links[i].kind
              /\ links'[i].to = links[i].to /\ links'[i].user = links[i].user
<1>1. PICK row : row = [links[k] EXCEPT !.used = used]
  OBVIOUS
<1>2. links[k] \in Link
  BY LinkFacts
<1>3. /\ row.kind = links[k].kind /\ row.user = links[k].user /\ row.to = links[k].to
      /\ row.expires = links[k].expires /\ row.delivered = links[k].delivered
      /\ row.used = used
  BY <1>1, <1>2 DEF Link
<1>4. links' = [links EXCEPT ![k] = row]
  BY <1>1
<1>5. \A i \in 1..Len(links) : links'[i] = IF i = k THEN row ELSE links[i]
  BY <1>4, RowUpdated
<1>6. Len(links') = Len(links) /\ Registered' = Registered
  <2>1. DOMAIN links' = DOMAIN links
    BY <1>4
  <2> QED
    BY <2>1, Tables DEF Registered
<1>7. \A i \in 1..Len(links) :
        /\ links'[i].delivered = links[i].delivered /\ links'[i].kind = links[i].kind
        /\ links'[i].to = links[i].to /\ links'[i].user = links[i].user
        /\ links'[i].expires = links[i].expires
        /\ links[i].used # Never => links'[i].used # Never
  BY <1>3, <1>5
<1>8. TablesKept
  <2>1. Len(links) <= Len(links') /\ now <= now'
    BY <1>6, Tables
  <2> QED
    BY <1>6, <1>7, <2>1, Tables DEF TablesKept
<1>9. PasswordsKept /\ AddressesOK'
  BY <1>6 DEF PasswordsKept, MInv, AddressesOK
<1>10. VerifiedByMail'
  BY <1>6, <1>8, MailKept DEF MInv
<1>11. links'[k].used = used
  BY <1>3, <1>5
<1> QED
  BY <1>6, <1>7, <1>8, <1>9, <1>10, <1>11

\* The request goes on, and means what it did.
LEMMA ConsumedMeans ==
  ASSUME IInv, IInv', MInv, TablesKept, PasswordsKept, AddressesOK', VerifiedByMail',
         NEW t \in Tabs, NEW r, tabs' = [tabs EXCEPT ![t] = r], Means(r)', r.pc # "send",
         Len(links') = Len(links), 
         \A i \in 1..Len(links) : links'[i].delivered => links[i].delivered
  PROVE  MInv'
<1>1. TabsMean'
  <2>1. ASSUME NEW u \in Tabs, u # t, tabs[u].pc = "send"
        PROVE  ~links'[tabs[u].link].delivered
    BY <2>1, UnderWay DEF Means, Posted
  <2>2. \A u \in Tabs : u # t => \A x \in {tabs[u]} : Replaced(x)'
    BY ReplacedStill
  <2> QED
    BY <2>1, <2>2, OneTabMeans
<1>2. PostOK'
  <2>1. \A u, v \in Tabs : tabs'[u].pc = "send" /\ tabs'[v].pc = "send"
                           /\ tabs'[u].link = tabs'[v].link => u = v
    BY SendersKept
  <2> QED
    BY <2>1, Tables, PostKept DEF MInv
<1> QED
  BY <1>1, <1>2 DEF MInv

\* A link that works went to its account's address, if that is not muddled.
LEMMA ConsumeVerificationMeans ==
  ASSUME IInv, IInv', MInv, NEW t \in Tabs, ConsumeVerification(t)
  PROVE  MInv'
<1>0. PICK tab, k, used : /\ tab = tabs[t] /\ k = tab.link
                          /\ used = IF links[k].used = Never THEN now ELSE links[k].used
  OBVIOUS
<1>1. /\ tab.pc = "consume" /\ tab.pc # "idle" /\ tab.op = "verify"
      /\ UNCHANGED <<users, muddled, now, resets>>
  BY <1>0 DEF ConsumeVerification, At, history
<1>2. /\ tab \in Tab /\ TabOK(tab, Registered, Len(links)) /\ Means(tab) /\ k \in 1..Len(links)
  BY <1>0, <1>1, UnderWay
<1>3. CASE Answer(t, FALSE) /\ UNCHANGED links
  BY <1>0, <1>1, <1>3, RefusedKeeps
<1>4. ASSUME VerificationUsable(k), Goto(t, "mark"), links' = [links EXCEPT ![k].used = used]
      PROVE  MInv'
  <2>1. used # Never
    BY <1>0, Bounds DEF IInv, CountsOK
  <2>2. /\ TablesKept /\ PasswordsKept /\ AddressesOK' /\ VerifiedByMail'
        /\ Len(links') = Len(links) /\ Registered' = Registered
        /\ links'[k].used = used
        /\ \A i \in 1..Len(links) :
              links'[i].delivered = links[i].delivered /\ links'[i].kind = links[i].kind
              /\ links'[i].to = links[i].to /\ links'[i].user = links[i].user
    BY <1>1, <1>2, <1>4, <2>1, Consumed
  <2>3. PICK r : /\ tabs' = [tabs EXCEPT ![t] = r] /\ r.op = tab.op /\ r.pc = "mark"
                 /\ r.session = tab.session /\ r.stage = tab.stage /\ SamePage(r, tab)
    BY <1>0, <1>2, <1>4, GotoShape
  <2>4. Entitled(tab)' /\ Signed(tab)' /\ Replaced(tab)'
    <3>1. Runs(tab) /\ Posted(tab) /\ Entitled(tab) /\ Signed(tab)
      BY <1>2 DEF Means
    <3>2. Entitled(tab)' /\ Signed(tab)'
      BY <1>1, <1>2, <2>2, <3>1, MeaningKept DEF MInv
    <3> QED
      BY <1>0, <2>2, <3>2, ReplacedStill
  <2>5. Runs(r) /\ Entitled(r)' /\ Signed(r)' /\ Replaced(r)'
    BY <1>1, <2>3, <2>4 DEF Runs, Entitled, Signed, Replaced, Shown, Issuing, SamePage
  <2>6. Posted(r)'
    <3>1. links[k].kind = "verification" /\ links[k].delivered
          /\ (Owner(k) \notin muddled => links[k].to = users[Owner(k)].email)
      BY <1>0, <1>1, <1>2, <1>4, Tables DEF VerificationUsable, Means, Posted, MInv, PostOK
    <3>2. r.link = k
      BY <1>0, <2>3 DEF SamePage
    <3> QED
      BY <1>1, <1>2, <2>1, <2>2, <2>3, <3>1, <3>2, Tables DEF Posted, Owner
  <2>7. Means(r)'
    BY <2>5, <2>6 DEF Means, Runs
  <2> QED
    BY <2>2, <2>3, <2>7, ConsumedMeans
<1> QED
  BY <1>0, <1>3, <1>4 DEF ConsumeVerification

LEMMA ConsumeResetMeans ==
  ASSUME IInv, IInv', MInv, NEW t \in Tabs, ConsumeReset(t)
  PROVE  MInv'
<1>0. PICK tab, k, used : tab = tabs[t] /\ k = tab.link /\ used = now
  OBVIOUS
<1>1. /\ tab.pc = "consume" /\ tab.pc # "idle" /\ tab.op = "reset"
      /\ UNCHANGED <<users, muddled, now, resets>>
  BY <1>0 DEF ConsumeReset, At, history
<1>2. /\ tab \in Tab /\ TabOK(tab, Registered, Len(links)) /\ Means(tab) /\ k \in 1..Len(links)
  BY <1>0, <1>1, UnderWay
<1>3. CASE Answer(t, FALSE) /\ UNCHANGED links
  BY <1>0, <1>1, <1>3, RefusedKeeps
<1>4. ASSUME Goto(t, "write"), links' = [links EXCEPT ![k].used = used]
      PROVE  MInv'
  <2>1. used # Never
    BY <1>0, Bounds DEF IInv, CountsOK
  <2>2. /\ TablesKept /\ PasswordsKept /\ AddressesOK' /\ VerifiedByMail'
        /\ Len(links') = Len(links)
        /\ \A i \in 1..Len(links) : links'[i].delivered = links[i].delivered
    BY <1>1, <1>2, <1>4, <2>1, Consumed
  <2>3. PICK r : /\ tabs' = [tabs EXCEPT ![t] = r] /\ r.op = tab.op /\ r.pc = "write"
                 /\ r.session = tab.session /\ r.stage = tab.stage /\ SamePage(r, tab)
    BY <1>0, <1>2, <1>4, GotoShape
  <2>4. Entitled(tab)' /\ Signed(tab)' /\ Replaced(tab)'
    <3>1. Runs(tab) /\ Posted(tab) /\ Entitled(tab) /\ Signed(tab)
      BY <1>2 DEF Means
    <3>2. Entitled(tab)' /\ Signed(tab)'
      BY <1>1, <1>2, <2>2, <3>1, MeaningKept DEF MInv
    <3> QED
      BY <1>0, <2>2, <3>2, ReplacedStill
  <2>5. Means(r)'
    BY <1>1, <2>3, <2>4
       DEF Means, Runs, Posted, Entitled, Signed, Replaced, Shown, Issuing, SamePage
  <2> QED
    BY <2>2, <2>3, <2>5, ConsumedMeans
<1> QED
  BY <1>0, <1>3, <1>4 DEF ConsumeReset

\* What verifies an account is a link that went to its address.
LEMMA MarkVerifiedMeans ==
  ASSUME IInv, IInv', MInv, NEW t \in Tabs, MarkVerified(t)
  PROVE  MInv'
<1>0. PICK tab, k, r, n : /\ tab = tabs[t] /\ k = tab.link /\ r = Reply(tab, TRUE)
                          /\ n = Owner(k)
  OBVIOUS
<1>1. /\ tab.pc = "mark" /\ tab.pc # "idle" /\ UNCHANGED <<links, muddled, now, resets>>
      /\ tabs' = [tabs EXCEPT ![t] = r] /\ users' = [users EXCEPT ![n].verified = TRUE]
  BY <1>0 DEF MarkVerified, At, Answer, history, Owner
<1>2. /\ tab \in Tab /\ tab.op \in Ops /\ TabOK(tab, Registered, Len(links)) /\ Means(tab)
      /\ tab.op \in {"register", "verify", "reset"} => tab.page = tab.op
      /\ tab.op = "setEmail" => tab.page = "settings"
      /\ k \in 1..Len(links)
  BY <1>0, <1>1, UnderWay
<1>3. n \in Registered /\ tab.op = "verify"
  BY <1>0, <1>1, <1>2, Tables DEF MInv, PostOK, Means, Runs
<1>4. /\ Registered' = Registered /\ users'[n].verified
      /\ \A m \in Registered : /\ users'[m].email = users[m].email
                               /\ users'[m].password = users[m].password
                               /\ m # n => users'[m] = users[m]
  <2>1. users = [m \in Registered |-> users[m]] /\ \A m \in Registered : users[m] \in User
    BY DEF IInv, UsersOK
  <2>2. users[n] = [email |-> users[n].email, verified |-> users[n].verified,
                    password |-> users[n].password]
    BY <1>3, <2>1 DEF User
  <2> QED
    BY <1>1, <1>3, <2>1, <2>2 DEF Registered
<1>5. TablesKept /\ PasswordsKept
  BY <1>1, <1>3, <1>4, Tables DEF TablesKept, PasswordsKept
<1>6. Means(r)' /\ r.pc = "idle"
  <2>1. Runs(tab) /\ Posted(tab) /\ Entitled(tab) /\ Signed(tab)
    BY <1>2 DEF Means
  <2>2. Entitled(tab)' /\ Signed(tab)'
    BY <1>1, <1>2, <1>5, <2>1, MeaningKept DEF MInv
  <2>3. Replaced(tab)'
    BY <1>0, <1>5, ReplacedStill
  <2>4. tab.link # 0 /\ users'[Owner(tab.link)'].verified
    <3>1. tab.link = k /\ k # 0
      BY <1>0, <1>2, Tables
    <3>2. users'[Owner(tab.link)'].verified
      BY <1>0, <1>1, <1>4 DEF Owner
    <3> QED
      BY <3>1, <3>2
  <2> QED
    BY <1>0, <1>2, <1>3, <2>2, <2>3, <2>4, GrantedMeans
<1>7. TabsMean'
  <2>1. \A u \in Tabs : u # t /\ tabs[u].pc = "send" => ~links'[tabs[u].link].delivered
    BY <1>1, MeansFacts DEF Means, Posted
  <2>2. \A u \in Tabs : u # t => \A x \in {tabs[u]} : Replaced(x)'
    BY <1>5, ReplacedStill
  <2> QED
    BY <1>1, <1>5, <1>6, <2>1, <2>2, OneTabMeans
<1>8. PostOK'
  <2>1. \A u, v \in Tabs : tabs'[u].pc = "send" /\ tabs'[v].pc = "send"
                           /\ tabs'[u].link = tabs'[v].link => u = v
    BY <1>1, <1>6, SendersKept
  <2> QED
    BY <1>1, <1>5, <2>1, Tables, PostKept DEF MInv
<1>9. AddressesOK'
  BY <1>1, <1>4 DEF MInv, AddressesOK
<1>10. VerifiedByMail'
  <2> SUFFICES ASSUME NEW m \in Registered, m \notin muddled, users'[m].verified
               PROVE  \E i \in DOMAIN links :
                        /\ links[i].user = m /\ links[i].kind = "verification"
                        /\ links[i].delivered /\ links[i].used # Never
                        /\ links[i].to = users[m].email
    BY <1>1, <1>4, Tables DEF VerifiedByMail
  <2>1. CASE m = n
    BY <1>0, <1>1, <1>2, <2>1, Tables DEF Means, Posted, Owner
  <2>2. CASE m # n
    BY <1>4, <2>2 DEF MInv, VerifiedByMail
  <2> QED
    BY <2>1, <2>2
<1> QED
  BY <1>7, <1>8, <1>9, <1>10 DEF MInv

\* A password is written by a link that has written none, so that whatever page reports
\* on another sees that it was replaced.
LEMMA UpdatePasswordMeans ==
  ASSUME IInv, IInv', MInv, NEW t \in Tabs, UpdatePassword(t)
  PROVE  MInv'
<1>0. PICK tab, k, r, n : /\ tab = tabs[t] /\ k = tab.link /\ r = Reply(tab, TRUE)
                          /\ n = Owner(k)
  OBVIOUS
<1>1. /\ tab.pc = "write" /\ tab.pc # "idle" /\ UNCHANGED <<links, muddled, now>>
      /\ tabs' = [tabs EXCEPT ![t] = r] /\ users' = [users EXCEPT ![n].password = tab.password]
      /\ resets' = [resets EXCEPT ![k] = resets[k] + 1]
  BY <1>0 DEF UpdatePassword, At, Answer, Owner
<1>2. /\ tab \in Tab /\ tab.op \in Ops /\ TabOK(tab, Registered, Len(links)) /\ Means(tab)
      /\ tab.op \in {"register", "verify", "reset"} => tab.page = tab.op
      /\ tab.op = "setEmail" => tab.page = "settings"
      /\ k \in 1..Len(links)
  BY <1>0, <1>1, UnderWay
<1>3. n \in Registered /\ tab.op = "reset"
  <2>1. Busy(tab, Registered)
    BY <1>1, <1>2 DEF TabOK
  <2> QED
    BY <1>0, <1>1, <1>2, <2>1, Tables DEF MInv, PostOK, Busy
<1>4. /\ Registered' = Registered /\ users'[n].password = tab.password
      /\ \A m \in Registered : /\ users'[m].email = users[m].email
                               /\ users'[m].verified = users[m].verified
                               /\ m # n => users'[m] = users[m]
  <2>1. users = [m \in Registered |-> users[m]] /\ \A m \in Registered : users[m] \in User
    BY DEF IInv, UsersOK
  <2>2. users[n] = [email |-> users[n].email, verified |-> users[n].verified,
                    password |-> users[n].password]
    BY <1>3, <2>1 DEF User
  <2> QED
    BY <1>1, <1>3, <2>1, <2>2 DEF Registered
<1>5. /\ DOMAIN resets = 1..Len(links) /\ resets[k] = 0 /\ resets'[k] = 1
      /\ \A i \in 1..Len(links) : i # k => resets'[i] = resets[i]
  <2>1. DOMAIN resets = 1..Len(links)
    BY Lengths DEF IInv
  <2>2. resets[k] = 0
    BY <1>0, <1>1 DEF IInv, WritersOK, Writing
  <2> QED
    BY <1>1, <1>2, <2>1, <2>2
<1>6. TablesKept
  BY <1>1, <1>3, <1>4, Tables DEF TablesKept
<1>7. ASSUME NEW u \in Tabs, NEW x \in {tabs[u]}
      PROVE  Replaced(x)'
  <2>1. Replaced(x) /\ TabOK(x, Registered, Len(links))
    BY MeansFacts, TabFacts DEF Means
  <2>2. ASSUME Shown(x, "reset", "done")
        PROVE  x.link # 0 /\ resets'[x.link] > 0 /\ WrittenSince(x.link)'
    <3>1. x.link \in 1..Len(links) /\ resets[x.link] > 0
      BY <2>1, <2>2, Tables DEF Replaced, TabOK
    <3>2. x.link # k
      BY <1>5, <3>1
    <3>3. resets'[x.link] > 0
      BY <1>5, <3>1, <3>2
    <3>4. k \in DOMAIN links' /\ k # x.link /\ resets'[k] > 0
      BY <1>1, <1>2, <1>5, <3>2, Tables
    <3>5. WrittenSince(x.link)'
      BY <3>4 DEF WrittenSince
    <3> QED
      BY <3>1, <3>3, <3>5, Tables
  <2> QED
    BY <2>2 DEF Replaced, Shown
<1>8. Means(r)' /\ r.pc = "idle"
  <2>1. Runs(tab) /\ Posted(tab) /\ Entitled(tab) /\ Signed(tab)
    BY <1>2 DEF Means
  <2>2. Entitled(tab)' /\ Signed(tab)'
    BY <1>1, <1>2, <1>6, <2>1, MeaningKept DEF MInv
  <2>3. Replaced(tab)'
    BY <1>0, <1>7
  <2>4. /\ tab.link # 0 /\ resets'[tab.link] > 0
        /\ users'[Owner(tab.link)'].password = tab.password
    <3>1. tab.link = k /\ k # 0 /\ resets'[k] > 0
      BY <1>0, <1>2, <1>5, Tables
    <3>2. users'[Owner(tab.link)'].password = tab.password
      BY <1>0, <1>1, <1>4 DEF Owner
    <3> QED
      BY <3>1, <3>2
  <2> QED
    BY <1>0, <1>2, <1>3, <2>2, <2>3, <2>4, GrantedMeans
<1>9. TabsMean'
  <2>1. \A u \in Tabs : u # t /\ tabs[u].pc = "send" => ~links'[tabs[u].link].delivered
    BY <1>1, MeansFacts DEF Means, Posted
  <2> QED
    BY <1>1, <1>6, <1>7, <1>8, <2>1, OneTabMeans
<1>10. PostOK'
  <2>1. \A u, v \in Tabs : tabs'[u].pc = "send" /\ tabs'[v].pc = "send"
                           /\ tabs'[u].link = tabs'[v].link => u = v
    BY <1>1, <1>8, SendersKept
  <2> QED
    BY <1>1, <1>6, <2>1, Tables, PostKept DEF MInv
<1>11. AddressesOK'
  BY <1>1, <1>4 DEF MInv, AddressesOK
<1>12. VerifiedByMail'
  BY <1>4, <1>6, MailKept DEF MInv
<1> QED
  BY <1>9, <1>10, <1>11, <1>12 DEF MInv

-----------------------------------------------------------------------------
(* An address is replaced.                                                 *)

\* What a tab means of any account whose address is replaced, once that has made the
\* account muddled if something of the old address is under way.
LEMMA MeaningAfterSetEmail ==
  ASSUME IInv, IInv', AddressesOK, PostOK, NEW n \in Grandfathered,
         NEW u \in Tabs, NEW x, x = tabs[u], Means(x), TabOK(x, Registered, Len(links)),
         UNCHANGED <<links, resets, now>>, Registered' = Registered,
         muddled \subseteq muddled', LinkUnderWay(n) \/ users[n].verified => n \in muddled',
         \A m \in Registered : users'[m].password = users[m].password
                               /\ (m # n => users'[m] = users[m])
  PROVE  Means(x)'
<1>1. x.link \in 0..Len(links) /\ (x.pc # "idle" => Busy(x, Registered))
  BY DEF TabOK
<1>2. x.pc \in {"send", "consume", "mark", "write"} => x.link \in 1..Len(links)
  BY <1>1, Tables DEF Busy
<1>3. \A k \in 1..Len(links) : Owner(k) \in Registered /\ Owner(k)' = Owner(k)
  BY Tables DEF PostOK, Owner
<1>4. Runs(x)
  BY DEF Means
<1>5. Posted(x)'
  <2>1. x.pc \in {"check", "insert"} /\ x.op # "forgot" /\ x.name \notin muddled' =>
          x.address = users'[x.name].email
    <3>1. x.pc \in {"check", "insert"} /\ x.op # "forgot" /\ x.name = n => LinkUnderWay(n)
      BY DEF LinkUnderWay
    <3>2. x.pc \in {"check", "insert"} => x.name \in Registered
      BY <1>1 DEF Busy
    <3> QED
      BY <3>1, <3>2 DEF Means, Posted
  <2>2. x.pc = "mark" /\ Owner(x.link) \notin muddled' =>
          links[x.link].to = users'[Owner(x.link)].email
    <3>1. x.pc = "mark" /\ Owner(x.link) = n => LinkUnderWay(n)
      BY DEF LinkUnderWay, At, Owner
    <3> QED
      BY <1>2, <1>3, <3>1 DEF Means, Posted
  <2> QED
    BY <1>2, <1>3, <2>1, <2>2, Tables DEF Means, Posted
<1>6. Entitled(x)'
  BY DEF Means, Entitled
<1>7. Signed(x)'
  <2>1. x.page = "register" /\ (x.stage = "done" \/ Issuing(x)) =>
          x.name \in Registered' \ Grandfathered /\ x.address = users'[x.name].email
    BY DEF Means, Signed
  <2>2. Shown(x, "register", "done") \/ Shown(x, "settings", "sent") =>
          LinkTo(x.name, x.address)'
    BY DEF Means, Signed, LinkTo
  <2>3. x.pc = "send" /\ x.op \in {"register", "setEmail"} =>
          MailTo(x.link, x.name, x.address)'
    BY DEF Means, Signed, MailTo
  <2>4. Shown(x, "verify", "success") =>
          x.link # 0 /\ (users'[Owner(x.link)'].verified \/ Owner(x.link)' \in muddled')
    BY <1>1, <1>3, Tables DEF Means, Signed
  <2> QED
    BY <2>1, <2>2, <2>3, <2>4 DEF Signed, Shown, Issuing
<1>8. Replaced(x)'
  <2>1. WrittenSince(x.link) => WrittenSince(x.link)'
    BY DEF WrittenSince
  <2>2. Shown(x, "reset", "done") => x.link \in 1..Len(links)
    BY <1>1, Tables DEF Means, Replaced
  <2> QED
    BY <1>3, <2>1, <2>2 DEF Means, Replaced, Shown
<1> QED
  BY <1>4, <1>5, <1>6, <1>7, <1>8 DEF Means, Runs

LEMMA SetEmailMeans ==
  ASSUME IInv, IInv', MInv, NEW t \in Tabs, SetEmail(t)
  PROVE  MInv'
<1>0. PICK tab, n, a : tab = tabs[t] /\ n = tab.name /\ a = tab.address
  OBVIOUS
<1>1. /\ tab.pc = "set" /\ tab.pc # "idle" /\ UNCHANGED <<links, resets, now>>
  BY <1>0 DEF SetEmail, At
<1>2. /\ tab \in Tab /\ tab.op \in Ops /\ TabOK(tab, Registered, Len(links)) /\ Means(tab)
      /\ tab.op = "setEmail" => tab.page = "settings"
  BY <1>0, <1>1, UnderWay
<1>3. /\ n \in Grandfathered /\ n \in Registered /\ a \in Addresses /\ tab.op = "setEmail"
      /\ AddressesOK /\ PostOK /\ muddled \subseteq Registered
  <2>1. Busy(tab, Registered)
    BY <1>1, <1>2 DEF TabOK
  <2> QED
    BY <1>0, <1>1, <1>2, <2>1, Tables DEF Means, Entitled, Runs, Busy, MInv
<1>4. CASE Answer(t, FALSE) /\ UNCHANGED <<users, muddled>>
  BY <1>0, <1>1, <1>4, RefusedKeeps
<1>5. ASSUME users' = [users EXCEPT ![n].email = a, ![n].verified = FALSE],
             muddled' = IF LinkUnderWay(n) \/ users[n].verified
                        THEN muddled \cup {n} ELSE muddled,
             Goto(t, "check")
      PROVE  MInv'
  <2>1. PICK r : /\ tabs' = [tabs EXCEPT ![t] = r] /\ r.op = tab.op /\ r.pc = "check"
                 /\ r.session = tab.session /\ r.stage = tab.stage /\ SamePage(r, tab)
    BY <1>0, <1>2, <1>5, GotoShape
  <2>2. /\ Registered' = Registered /\ users'[n].email = a /\ ~users'[n].verified
        /\ \A m \in Registered : /\ users'[m].password = users[m].password
                                 /\ m # n => users'[m] = users[m]
    <3>1. users = [m \in Registered |-> users[m]] /\ \A m \in Registered : users[m] \in User
      BY DEF IInv, UsersOK
    <3>2. users[n] = [email |-> users[n].email, verified |-> users[n].verified,
                      password |-> users[n].password]
      BY <1>3, <3>1 DEF User
    <3>3. PICK row : row = [users[n] EXCEPT !.email = a, !.verified = FALSE]
      OBVIOUS
    <3>4. row.email = a /\ ~row.verified /\ row.password = users[n].password
      BY <3>2, <3>3
    <3>5. users' = [users EXCEPT ![n] = row]
      BY <1>3, <1>5, <3>1, <3>3
    <3> QED
      BY <1>3, <3>1, <3>4, <3>5 DEF Registered
  <2>3. muddled \subseteq muddled' /\ (LinkUnderWay(n) \/ users[n].verified => n \in muddled')
        /\ muddled' \subseteq muddled \cup {n}
    BY <1>5
  <2>4. ASSUME NEW u \in Tabs, NEW x, x = tabs[u]
        PROVE  Means(x)'
    <3>1. TabOK(x, Registered, Len(links)) /\ Means(x)
      BY <2>4, TabFacts, MeansFacts
    <3> QED
      BY <1>1, <1>3, <2>2, <2>3, <2>4, <3>1, MeaningAfterSetEmail
  <2>5. tabs'[t] = r /\ \A u \in Tabs : u # t => tabs'[u] = tabs[u]
    BY <2>1 DEF IInv, TabsOK
  <2>6. Means(r)'
    <3>1. Means(tab)'
      BY <1>0, <2>4
    <3>2. Runs(r)
      BY <1>2, <1>3, <2>1 DEF Runs, SamePage
    <3>3. Posted(r)' /\ Entitled(r)'
      BY <1>0, <2>1, <2>2, <3>1 DEF Means, Posted, Entitled, SamePage
    <3>4. Signed(r)' /\ Replaced(r)'
      BY <1>2, <1>3, <2>1, <3>1 DEF Means, Signed, Replaced, Shown, SamePage
    <3> QED
      BY <3>2, <3>3, <3>4 DEF Means, Runs
  <2>7. TabsMean'
    <3> SUFFICES ASSUME NEW u \in Tabs, NEW x, x = tabs'[u]
                 PROVE  Means(x)'
      BY DEF TabsMean
    <3>1. CASE u = t
      BY <2>5, <2>6, <3>1
    <3>2. CASE u # t
      BY <2>4, <2>5, <3>2
    <3> QED
      BY <3>1, <3>2
  <2>8. PostOK'
    <3>1. \A u, v \in Tabs : tabs'[u].pc = "send" /\ tabs'[v].pc = "send"
                             /\ tabs'[u].link = tabs'[v].link => u = v
      BY <2>1, SendersKept
    <3>2. ASSUME NEW k \in DOMAIN links
          PROVE  /\ Owner(k) \in Registered
                 /\ links[k].kind = "verification" /\ Alive(k) /\ Owner(k) \notin muddled' =>
                      links[k].to = users'[Owner(k)].email
      <4>1. links[k].kind = "verification" /\ Alive(k) /\ Owner(k) = n => LinkUnderWay(n)
        BY DEF LinkUnderWay, Owner
      <4> QED
        BY <1>3, <2>2, <2>3, <4>1 DEF PostOK
    <3> QED
      BY <1>1, <2>2, <3>1, <3>2 DEF PostOK, At, Owner, Alive
  <2>9. AddressesOK'
    BY <1>3, <2>2, <2>3 DEF AddressesOK
  <2>10. VerifiedByMail'
    BY <1>1, <2>2, <2>3, Tables DEF MInv, VerifiedByMail
  <2> QED
    BY <2>7, <2>8, <2>9, <2>10 DEF MInv
<1> QED
  BY <1>0, <1>4, <1>5 DEF SetEmail

-----------------------------------------------------------------------------
\* A restart answers nobody.
LEMMA CrashMeans ==
  ASSUME IInv, IInv', MInv, Crash
  PROVE  MInv'
<1>1. /\ UNCHANGED <<users, links, muddled, resets, now>>
      /\ tabs' = [t \in Tabs |-> IF Idle(t) THEN tabs[t] ELSE Reply(tabs[t], FALSE)]
  BY DEF Crash
<1>2. TablesKept /\ PasswordsKept /\ AddressesOK' /\ VerifiedByMail' /\ Registered' = Registered
  BY <1>1, SameTables
<1>3. ASSUME NEW t \in Tabs, NEW r, r = tabs'[t]
      PROVE  Means(r) /\ r.pc = "idle"
  <2>1. CASE Idle(t)
    BY <1>1, <1>3, <2>1, MeansFacts DEF Idle
  <2>2. CASE ~Idle(t)
    <3>1. PICK tab : tab = tabs[t]
      OBVIOUS
    <3>2. tab.pc # "idle" /\ r = Reply(tab, FALSE)
      BY <1>1, <1>3, <2>2, <3>1 DEF Idle
    <3>3. tab \in Tab /\ tab.op \in Ops /\ Means(tab)
      BY <3>1, <3>2, UnderWay
    <3> QED
      BY <3>2, <3>3, RefusedMeans
  <2> QED
    BY <2>1, <2>2
<1>4. TabsMean'
  <2> SUFFICES ASSUME NEW t \in Tabs, NEW r, r = tabs'[t]
               PROVE  Means(r)'
    BY DEF TabsMean
  <2>1. Means(r)
    BY <1>3
  <2> QED
    BY <1>1, <1>2, <2>1, ZenonT(30) DEF Means, Runs, Posted, Entitled, Signed, Replaced, WrittenSince,
       LinkTo, MailTo, Shown, Issuing, Owner, Never
<1>5. PostOK'
  <2>1. \A t \in Tabs : tabs'[t].pc = "idle"
    BY <1>3
  <2>2. PostOK /\ Len(links') = Len(links)
    BY <1>1 DEF MInv
  <2> QED
    BY <1>2, <2>1, <2>2, Tables, PostKept
<1> QED
  BY <1>2, <1>4, <1>5 DEF MInv

LEMMA TickMeans ==
  ASSUME IInv, IInv', MInv, Tick
  PROVE  MInv'
<1>1. UNCHANGED <<users, links, tabs, muddled, resets>> /\ now' = now + 1
  BY DEF Tick, history
<1>2. Registered' = Registered
  BY <1>1 DEF Registered
<1>3. TablesKept /\ PasswordsKept
  BY <1>1, <1>2, Tables DEF TablesKept, PasswordsKept
<1>4. TabsMean'
  <2> SUFFICES ASSUME NEW t \in Tabs, NEW r, r = tabs[t]
               PROVE  Means(r)'
    BY <1>1 DEF TabsMean
  <2>1. TabOK(r, Registered, Len(links)) /\ Means(r)
    BY MeansFacts, TabFacts
  <2>2. Runs(r) /\ Posted(r) /\ Entitled(r) /\ Signed(r)
        /\ (r.pc = "send" => ~links'[r.link].delivered)
    BY <1>1, <2>1 DEF Means, Posted
  <2>3. Posted(r)' /\ Entitled(r)' /\ Signed(r)'
    BY <1>3, <2>1, <2>2, MeaningKept DEF MInv
  <2>4. Replaced(r)'
    BY <1>3, ReplacedStill
  <2> QED
    BY <2>2, <2>3, <2>4 DEF Means, Runs
<1>5. PostOK'
  <2>1. \A t, u \in Tabs : tabs'[t].pc = "send" /\ tabs'[u].pc = "send"
                           /\ tabs'[t].link = tabs'[u].link => t = u
    BY <1>1 DEF MInv, PostOK, At
  <2>2. PostOK /\ Len(links') = Len(links)
    BY <1>1 DEF MInv
  <2> QED
    BY <1>3, <2>1, <2>2, Tables, PostKept
<1>6. AddressesOK' /\ VerifiedByMail'
  BY <1>1, <1>2 DEF MInv, AddressesOK, VerifiedByMail, Never
<1> QED
  BY <1>4, <1>5, <1>6 DEF MInv

LEMMA StutterMeans ==
  ASSUME MInv, UNCHANGED vars
  PROVE  MInv'
BY SMTT(30) DEF vars, MInv, TabsMean, PostOK, AddressesOK, VerifiedByMail, Means, Runs, Posted, Entitled,
   Signed, Replaced, WrittenSince, LinkTo, MailTo, Shown, Issuing, Owner, Never, Registered,
   At, Alive

LEMMA InitialMeans ==
  ASSUME Init
  PROVE  MInv
<1>1. PICK session \in Grandfathered \cup {None} : tabs = [t \in Tabs |-> BlankFor(session)]
  BY DEF Init
<1>2. /\ users \in [Grandfathered -> [email: Addresses \cup {None}, verified: {FALSE},
                                      password: {0}]]
      /\ links = <<>> /\ muddled = {}
  BY DEF Init
<1>3. Registered = Grandfathered /\ DOMAIN links = {}
  BY <1>2 DEF Registered
<1>4. BlankFor(session).pc = "idle" /\ BlankFor(session).page = "blank"
      /\ BlankFor(session).session = session
  BY DEF BlankFor, BlankTab
<1>5. TabsMean
  <2>1. Means(BlankFor(session))
    BY <1>3, <1>4, AccountsAssumption, RestMeans
  <2> QED
    BY <1>1, <2>1 DEF TabsMean
<1>6. PostOK
  BY <1>1, <1>3, <1>4 DEF PostOK, At
<1>7. AddressesOK
  BY <1>2, <1>3 DEF AddressesOK
<1>8. VerifiedByMail
  <2>1. \A n \in Registered : ~users[n].verified
    BY <1>2, <1>3
  <2> QED
    BY <2>1 DEF VerifiedByMail
<1> QED
  BY <1>5, <1>6, <1>7, <1>8 DEF MInv

LEMMA StepMeans ==
  ASSUME IInv, MInv, [Next]_vars
  PROVE  MInv'
<1>0. IInv'
  BY Step
<1>1. ASSUME NEW t \in Tabs, PageStep(t)
      PROVE  MInv'
  BY <1>0, <1>1, OpenLinkMeans, SubmitRegistrationMeans, BackMeans, ResendMeans, LoginMeans,
     EndSessionMeans, SubmitAddressMeans, ForgotMeans, SubmitResetMeans DEF PageStep
<1>2. ASSUME NEW t \in Tabs, ServiceStep(t)
      PROVE  MInv'
  BY <1>0, <1>2, CreateUserMeans, CheckCooldownMeans, InsertTokenMeans, SendMailMeans,
     ConsumeVerificationMeans, MarkVerifiedMeans, CheckUnverifiedMeans, SetEmailMeans,
     ConsumeResetMeans, UpdatePasswordMeans, FailMeans DEF ServiceStep
<1> QED
  BY <1>0, <1>1, <1>2, CrashMeans, TickMeans, StutterMeans DEF Next

\* What mails, links and pages say holds of every reachable state.
LEMMA Meaning == Spec => []MInv
<1>1. Init => MInv
  BY InitialMeans
<1>2. IInv /\ MInv /\ [Next]_vars => MInv'
  BY StepMeans
<1> QED
  BY <1>1, <1>2, Invariance, PTL DEF Spec

\* However registrations, resends, changes of address, expiries, failures and restarts
\* interleave: the address of a verified account is one that a mail went to, whose link
\* was opened - unless it replaced an older one of which something was under way.
THEOREM VerifiedWasMailed == Spec => []VerifiedByMail
<1>1. MInv => VerifiedByMail
  BY DEF MInv
<1> QED
  BY <1>1, Meaning, PTL

\* What a page reports is so, and stays so while the page is open.
THEOREM ReportsAreTrue == Spec => []ReportedMeansDone
<1>1. ASSUME IInv, MInv
      PROVE  ReportedMeansDone
  <2> SUFFICES ASSUME NEW t \in Tabs, NEW tab, tab = tabs[t]
               PROVE  /\ Shown(tab, "register", "done") =>
                           tab.name \in Registered /\ LinkTo(tab.name, tab.address)
                      /\ Shown(tab, "settings", "sent") => LinkTo(tab.name, tab.address)
                      /\ Shown(tab, "verify", "success") =>
                           users[Owner(tab.link)].verified \/ Owner(tab.link) \in muddled
                      /\ Shown(tab, "reset", "done") =>
                           \/ users[Owner(tab.link)].password = tab.password
                           \/ \E k \in DOMAIN links : k # tab.link /\ resets[k] > 0
    BY DEF ReportedMeansDone, Shown, Owner
  <2>1. Signed(tab) /\ Replaced(tab)
    BY <1>1, MeansFacts DEF Means
  <2> QED
    BY <2>1 DEF Signed, Replaced, WrittenSince, Shown
<1> QED
  BY <1>1, Invariance, Meaning, PTL

LEMMA EmailsKept ==
  ASSUME IInv, MInv, [Next]_vars, NEW m \in Registered \ Grandfathered
  PROVE  users'[m].email = users[m].email
<1>1. users = [n \in Registered |-> users[n]] /\ \A n \in Registered : users[n] \in User
  BY DEF IInv, UsersOK
<1>2. ASSUME NEW t \in Tabs, CreateUser(t)
      PROVE  users'[m].email = users[m].email
  BY <1>2 DEF CreateUser, Taken
<1>3. ASSUME NEW t \in Tabs, MarkVerified(t)
      PROVE  users'[m].email = users[m].email
  BY <1>1, <1>3 DEF MarkVerified, User
<1>4. ASSUME NEW t \in Tabs, SetEmail(t)
      PROVE  users'[m].email = users[m].email
  <2>1. tabs[t].name \in Grandfathered
    BY <1>4, MeansFacts DEF SetEmail, At, Means, Entitled
  <2> QED
    BY <1>1, <1>4, <2>1 DEF SetEmail
<1>5. ASSUME NEW t \in Tabs, UpdatePassword(t)
      PROVE  users'[m].email = users[m].email
  BY <1>1, <1>5 DEF UpdatePassword, User
<1>6. ASSUME NEW t \in Tabs, PageStep(t)
      PROVE  UNCHANGED users
  BY <1>6 DEF PageStep, OpenLink, SubmitRegistration, BackToCredentials, Resend, Login,
     EndSession, SubmitAddress, Forgot, SubmitReset
<1>7. ASSUME NEW t \in Tabs, ServiceStep(t)
      PROVE  users'[m].email = users[m].email
  BY <1>2, <1>3, <1>4, <1>5, <1>7 DEF ServiceStep, CheckCooldown, InsertToken, SendMail,
     ConsumeVerification, CheckUnverified, ConsumeReset, Fail
<1> QED
  BY <1>6, <1>7 DEF Next, Crash, Tick, vars

\* Only an account from before addresses were asked for ever gets another address:
\* whoever is signed in to any other has verified it, and set-email refuses them.
THEOREM RegisteredKeepAddress == Spec => AddressKept
<1>1. IInv /\ MInv /\ [Next]_vars =>
        \A n \in Registered \ Grandfathered : users'[n].email = users[n].email
  BY EmailsKept
<1> QED
  BY <1>1, Invariance, Meaning, PTL DEF AddressKept, Spec

\* So the exception of VerifiedByMail is of those accounts alone.
THEOREM OnlyOldAccountsMuddled == Spec => [](muddled \subseteq Grandfathered)
<1>1. MInv => muddled \subseteq Grandfathered
  BY DEF MInv, AddressesOK
<1> QED
  BY <1>1, Meaning, PTL

-----------------------------------------------------------------------------
(* The limit on attempts.                                                  *)

\* Attempts are finitely many, and those let through within the last window are among
\* the ones the service still counts.
CountedOK ==
  /\ \A key \in DOMAIN attempts : IsFiniteSet(attempts[key])
  /\ \A key \in DOMAIN allowed :
       /\ IsFiniteSet(allowed[key])
       /\ \A a \in allowed[key] :
            /\ a.time \in Nat /\ a.time <= now
            /\ now - a.time < Window => key \in DOMAIN attempts /\ a \in attempts[key]

LInv == CountedOK /\ AttemptsBounded

\* An attempt is counted, and let through when the window has room for it.
LEMMA CountAttemptKeeps ==
  ASSUME LInv, NEW key, CountAttempt(key), UNCHANGED now, now \in 0..MaxTime
  PROVE  LInv'
<1>0. PICK recent, this, old : /\ recent = Recent(key) /\ this = ThisAttempt
                               /\ old = Of(allowed, key)
  OBVIOUS
<1>1. /\ Window \in Nat /\ MaxAttempts \in Nat /\ now \in Nat /\ this.time = now
      /\ MaxTime \in Nat
  BY <1>0, AccountsAssumption DEF ThisAttempt
<1>2. IsFiniteSet(recent) /\ this \in recent
  <2> DEFINE fresh == {a \in Of(attempts, key) : now - a.time < Window}
  <2>1. IsFiniteSet(Of(attempts, key))
    BY FS_EmptySet DEF Of, LInv, CountedOK
  <2>2. IsFiniteSet(fresh)
    BY <2>1, FS_Subset
  <2>3. recent = fresh \cup {this}
    BY <1>0 DEF Recent
  <2> HIDE DEF fresh
  <2> QED
    BY <2>2, <2>3, FS_AddElement
<1>3. /\ DOMAIN attempts' = DOMAIN attempts \cup {key} /\ attempts'[key] = recent
      /\ \A k \in DOMAIN attempts : k # key => attempts'[k] = attempts[k]
  BY <1>0 DEF CountAttempt, Put
<1>4. /\ IsFiniteSet(old)
      /\ \A a \in old : /\ a.time \in Nat /\ a.time <= now
                        /\ now - a.time < Window => a \in recent
  <2>1. CASE key \in DOMAIN allowed
    <3>1. old = allowed[key]
      BY <1>0, <2>1 DEF Of
    <3>2. \A a \in old : now - a.time < Window => a \in Of(attempts, key)
      BY <2>1, <3>1 DEF LInv, CountedOK, Of
    <3> QED
      BY <1>0, <2>1, <3>1, <3>2 DEF LInv, CountedOK, Recent
  <2>2. CASE key \notin DOMAIN allowed
    BY <1>0, <2>2, FS_EmptySet DEF Of
  <2> QED
    BY <2>1, <2>2
<1>5. CASE ~AttemptAllowed(key)
  <2>1. allowed' = allowed
    BY <1>5 DEF CountAttempt
  <2>2. CountedOK'
    <3>1. \A k \in DOMAIN allowed' : k = key => allowed'[k] = old
      BY <1>0, <2>1 DEF Of
    <3> QED
      BY <1>2, <1>3, <1>4, <2>1, <3>1 DEF LInv, CountedOK
  <2> QED
    BY <2>1, <2>2 DEF LInv, AttemptsBounded
<1>6. CASE AttemptAllowed(key)
  <2>1. PICK new : new = old \cup {this}
    OBVIOUS
  <2>2. /\ DOMAIN allowed' = DOMAIN allowed \cup {key} /\ allowed'[key] = new
        /\ \A k \in DOMAIN allowed : k # key => allowed'[k] = allowed[k]
    BY <1>0, <1>6, <2>1 DEF CountAttempt, Put
  <2>3. IsFiniteSet(new)
    BY <1>4, <2>1, FS_AddElement
  <2>4. \A a \in new : /\ a.time \in Nat /\ a.time <= now
                       /\ now - a.time < Window => a \in recent
    BY <1>1, <1>2, <1>4, <2>1
  <2>5. CountedOK'
    BY <1>2, <1>3, <2>2, <2>3, <2>4 DEF LInv, CountedOK
  <2>6. ASSUME NEW start \in 0..MaxTime
        PROVE  Cardinality({a \in new : a.time \in start..(start + Window - 1)}) <= MaxAttempts
    <3>1. CASE now \in start..(start + Window - 1)
      <4>1. PICK inside : inside = {a \in new : a.time \in start..(start + Window - 1)}
        OBVIOUS
      <4>2. inside \subseteq recent
        BY <1>1, <2>4, <3>1, <4>1
      <4>3. Cardinality(inside) <= Cardinality(recent) /\ IsFiniteSet(inside)
        BY <1>2, <4>2, FS_Subset
      <4>4. Cardinality(recent) <= MaxAttempts
        BY <1>0, <1>6 DEF AttemptAllowed
      <4>5. Cardinality(inside) \in Nat /\ Cardinality(recent) \in Nat
        BY <1>2, <4>3, FS_CardinalityType
      <4> QED
        BY <1>1, <4>1, <4>3, <4>4, <4>5
    <3>2. CASE now \notin start..(start + Window - 1)
      <4>1. {a \in new : a.time \in start..(start + Window - 1)}
              = {a \in old : a.time \in start..(start + Window - 1)}
        BY <1>1, <2>1, <3>2
      <4>2. CASE key \in DOMAIN allowed
        BY <1>0, <4>1, <4>2 DEF LInv, AttemptsBounded, Of
      <4>3. CASE key \notin DOMAIN allowed
        <5>1. {a \in old : a.time \in start..(start + Window - 1)} = {}
          BY <1>0, <4>3 DEF Of
        <5> QED
          BY <1>1, <4>1, <5>1, FS_EmptySet
      <4> QED
        BY <4>2, <4>3
    <3> QED
      BY <3>1, <3>2
  <2>7. AttemptsBounded'
    BY <2>2, <2>6 DEF LInv, AttemptsBounded
  <2> QED
    BY <2>5, <2>7 DEF LInv
<1> QED
  BY <1>5, <1>6

LEMMA StepCounts ==
  ASSUME IInv, LInv, [Next]_vars
  PROVE  LInv'
<1>1. now \in 0..MaxTime /\ now \in Nat
  BY DEF IInv, CountsOK
<1>2. CASE UNCHANGED <<attempts, allowed, now>>
  BY <1>2 DEF LInv, CountedOK, AttemptsBounded
<1>3. ASSUME NEW t \in Tabs, PageStep(t)
      PROVE  LInv'
  <2>1. ASSUME NEW name \in Names, NEW right \in BOOLEAN, Login(t, name, right)
        PROVE  LInv'
    <3>1. CountAttempt(<<"login", name>>) /\ UNCHANGED now
      BY <2>1 DEF Login
    <3> QED
      BY <1>1, <3>1, CountAttemptKeeps
  <2>2. ASSUME NEW address \in Addresses, Forgot(t, address)
        PROVE  LInv'
    <3>1. CountAttempt(<<"forgot", address>>) /\ UNCHANGED now
      BY <2>2 DEF Forgot
    <3> QED
      BY <1>1, <3>1, CountAttemptKeeps
  <2> QED
    BY <1>2, <1>3, <2>1, <2>2 DEF PageStep, OpenLink, SubmitRegistration, BackToCredentials,
       Resend, EndSession, SubmitAddress, SubmitReset, history
<1>4. ASSUME NEW t \in Tabs, ServiceStep(t)
      PROVE  UNCHANGED <<attempts, allowed, now>>
  BY <1>4 DEF ServiceStep, CreateUser, CheckCooldown, InsertToken, SendMail,
     ConsumeVerification, MarkVerified, CheckUnverified, SetEmail, ConsumeReset,
     UpdatePassword, Fail, history
<1>5. CASE Crash
  BY <1>5 DEF Crash, LInv, CountedOK, AttemptsBounded
<1>6. CASE Tick
  <2>1. UNCHANGED <<attempts, allowed>> /\ now' = now + 1 /\ Window \in Nat
    BY <1>6, AccountsAssumption DEF Tick, history
  <2>2. CountedOK'
    BY <1>1, <2>1 DEF LInv, CountedOK
  <2> QED
    BY <2>1, <2>2 DEF LInv, AttemptsBounded
<1> QED
  BY <1>2, <1>3, <1>4, <1>5, <1>6 DEF Next, vars

\* In any window of time, wherever it begins and however the requests are spaced in it,
\* at most MaxAttempts attempts of one key are let through between two restarts.
THEOREM AttemptsLimited == Spec => []AttemptsBounded
<1>1. Init => LInv
  BY DEF Init, LInv, CountedOK, AttemptsBounded
<1>2. IInv /\ LInv /\ [Next]_vars => LInv'
  BY StepCounts
<1>3. LInv => AttemptsBounded
  BY DEF LInv
<1> QED
  BY <1>1, <1>2, <1>3, Invariance, PTL DEF Spec
=============================================================================
