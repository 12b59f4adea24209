------------------------------ MODULE Accounts ------------------------------
(***************************************************************************)
(* Accounts: the auth service's registration, e-mail verification, login,  *)
(* change of address and password reset (services/auth-service/src:        *)
(* server.ts, userStore.ts, tokenStore.ts), and the pages of the frontend  *)
(* that use them (app/(auth), app/settings, lib/auth/client.ts).           *)
(*                                                                         *)
(* A browser tab shows one page and has at most one request under way; two *)
(* tabs are two people, one person twice, one who gave up on a request and *)
(* tries again, or a mail program that opens a link to preview it.         *)
(*                                                                         *)
(* A request runs from await to await: each database statement is one      *)
(* step, and everything else may happen between two.  A handler that       *)
(* writes nothing and only reads one row is one step.                      *)
(*                                                                         *)
(* Time is `now`, in ticks; the service's times are constants in ticks.  A *)
(* password is the number of the request that chose it: what counts is     *)
(* which request's password an account has.                                *)
(***************************************************************************)
EXTENDS Naturals, Sequences, FiniteSets

CONSTANTS
  Names,          \* user names; an account is known by its name
  Grandfathered,  \* accounts made before addresses were asked for
  Addresses,
  Tabs,
  None,
  Cooldown,       \* COOLDOWN_MS
  VerifyTtl, ResetTtl,        \* ttlMs of the two kinds of link
  ReuseGrace,     \* VERIFY_REUSE_GRACE_MS
  Window, MaxAttempts,        \* CREDENTIAL_WINDOW_MS, CREDENTIAL_MAX_ATTEMPTS
  MaxTime, MaxRequests, MaxFaults   \* bounds of the model

ASSUME AccountsAssumption ==
  /\ Grandfathered \subseteq Names
  /\ None \notin Names \cup Addresses
  /\ {Cooldown, VerifyTtl, ResetTtl, ReuseGrace, Window, MaxAttempts,
      MaxTime, MaxRequests, MaxFaults} \subseteq Nat

VARIABLES
  users,     \* table users: [name -> email, verified, password]
  links,     \* both token tables, in the order of insertion
  attempts,  \* credentialAttempts: key -> attempts, in the service's memory
  now,
  tabs,
  sent, faults,   \* number of requests and of failures so far, for the bounds
  \* history variables
  muddled,   \* accounts whose address was set while an older link was alive
  resets,    \* how many passwords each link has written
  allowed    \* key -> attempts let through since the last start

vars == <<users, links, attempts, now, tabs, sent, faults, muddled,
          resets, allowed>>
history == <<muddled, resets, allowed>>

Kinds == {"verification", "reset"}
Ttl(kind) == IF kind = "verification" THEN VerifyTtl ELSE ResetTtl
Registered == DOMAIN users
Never == MaxTime + 1

\* { url, to } of verificationEmail and passwordResetEmail: the mail holds the
\* link of a token, and `to` is where it goes.
Mail(kind, name, to) ==
  [kind |-> kind, user |-> name, to |-> to, created |-> now,
   expires |-> now + Ttl(kind), used |-> Never, delivered |-> FALSE]

-----------------------------------------------------------------------------
(* Pages.                                                                  *)

Pages == [blank    |-> {"form"},   \* any form that nobody has sent
          register |-> {"domain", "credentials", "done"},
          login    |-> {"unverified"},
          verify   |-> {"verifying", "success", "error"},
          forgot   |-> {"sending"},
          reset    |-> {"form", "done"},
          settings |-> {"sending", "sent"}]

\* What a page shows when its request starts, and after a good answer.
FirstStage == [register |-> "domain", verify |-> "verifying", forgot |-> "sending",
               reset |-> "form", settings |-> "sending"]
StageIfOk == [register |-> "done", verify |-> "success", reset |-> "done",
              setEmail |-> "sent"]
BlankTab == [page |-> "blank", stage |-> "form", session |-> None,
             op |-> None, pc |-> "idle", edited |-> FALSE,
             name |-> None, address |-> None, password |-> 0, link |-> 0]
BlankFor(session) == [BlankTab EXCEPT !.session = session]

Idle(t) == tabs[t].pc = "idle"
At(t, pc) == tabs[t].pc = pc

\* What a page shows after an error: mostly its form again.  The answer to "resend"
\* is a notice and changes no page.
AfterError(tab) ==
  CASE tab.op = "resend" -> [tab EXCEPT !.op = None]
    [] tab.op \in {"verify", "reset"} ->
         [BlankFor(tab.session) EXCEPT
            !.page = tab.op, !.stage = IF tab.op = "verify" THEN "error" ELSE "form",
            !.link = IF tab.op = "verify" THEN 0 ELSE tab.link]
    [] tab.op \notin {"resend", "verify", "reset"} -> BlankFor(tab.session)
AfterOk(tab) ==
  IF tab.op \in DOMAIN StageIfOk THEN [tab EXCEPT !.stage = StageIfOk[tab.op], !.op = None]
                                 ELSE AfterError(tab)

Reply(tab, ok) == [IF ok THEN AfterOk(tab) ELSE AfterError(tab) EXCEPT !.pc = "idle"]

Answer(t, ok) == tabs' = [tabs EXCEPT ![t] = Reply(@, ok)]
Goto(t, pc) == tabs' = [tabs EXCEPT ![t].pc = pc]

-----------------------------------------------------------------------------
\* The unique index on email_lower.
AddressesUnique ==
  \A m, n \in Registered : m # n /\ users[m].email = users[n].email => users[m].email = None

\* Grandfathered accounts are there, without an address or with an unverified one
\* whose links have expired; either way they need no verification to be signed in.
Init ==
  /\ users \in [Grandfathered -> [email: Addresses \cup {None}, verified: {FALSE},
                                  password: {0}]]
  /\ AddressesUnique
  /\ links = <<>>
  /\ attempts = <<>>
  /\ now = 0
  /\ \E session \in Grandfathered \cup {None} :
       tabs = [t \in Tabs |-> BlankFor(session)]
  /\ sent = 0 /\ faults = 0
  /\ muddled = {}
  /\ resets = <<>>
  /\ allowed = <<>>

\* A page may be opened by an idle tab, and is opened together with its first
\* request: a form nobody has sent yet is no different from a blank tab.
\* AuthProvider sends someone who is signed in away from the sign-in pages and
\* everybody else away from the settings; the tab's session survives.
Opened(t, page) ==
  [BlankFor(tabs[t].session) EXCEPT !.page = page, !.stage = FirstStage[page]]
MayOpen(t, page) ==
  /\ Idle(t)
  /\ page \in {"register", "login"} => tabs[t].session = None
  /\ page = "settings" => tabs[t].session # None

\* A page sends a request that the service begins at `pc`.
Request(t, tab, op, pc) ==
  /\ sent < MaxRequests
  /\ sent' = sent + 1
  /\ tabs' = [tabs EXCEPT ![t] = [tab EXCEPT !.op = op, !.pc = pc]]

\* A link of a mail is opened.  The verify page sends its request when it mounts.
OpenLink(t, k) ==
  /\ Idle(t) /\ links[k].delivered
  /\ \/ /\ links[k].kind = "verification"
        /\ Request(t, [Opened(t, "verify") EXCEPT !.link = k], "verify", "consume")
     \/ /\ links[k].kind = "reset"
        /\ tabs' = [tabs EXCEPT ![t] = [Opened(t, "reset") EXCEPT !.link = k]]
        /\ UNCHANGED sent
  /\ UNCHANGED <<users, links, attempts, now, history, faults>>

\* register/page.tsx: the form and its checks, the choice of a domain, "Create
\* Account".  (What either side's checks refuse changes nothing.)
SubmitRegistration(t, name, address) ==
  /\ MayOpen(t, "register")
  /\ Request(t, [Opened(t, "register") EXCEPT !.name = name, !.address = address,
                                             !.password = sent + 1],
             "register", "create")
  /\ UNCHANGED <<users, links, attempts, now, history, faults>>

\* "Back" works while the registration is under way, and what is typed then is not
\* what was sent.
BackToCredentials(t) ==
  /\ tabs[t].page = "register" /\ tabs[t].stage = "domain" /\ ~Idle(t)
  /\ tabs' = [tabs EXCEPT ![t].stage = "credentials", ![t].edited = TRUE]
  /\ UNCHANGED <<users, links, attempts, now, sent, history, faults>>

\* Something goes wrong, of what the bound allows.
Fault == faults < MaxFaults /\ faults' = faults + 1

\* findByEmail; the unique index on email_lower.
Owners(address) == {n \in Registered : users[n].email = address}
AddressTaken(address, by) == Owners(address) \ {by} # {}

\* createUser: one INSERT, refused for a name or an address that is taken.
Taken(name, address) == name \in Registered \/ AddressTaken(address, None)

CreateUser(t) ==
  LET tab == tabs[t] IN
  /\ At(t, "create")
  /\ IF Taken(tab.name, tab.address)
     THEN /\ Answer(t, FALSE)
          /\ UNCHANGED users
     ELSE /\ users' = [n \in Registered \cup {tab.name} |->
                         IF n = tab.name THEN [email |-> tab.address, verified |-> FALSE,
                                               password |-> tab.password]
                         ELSE users[n]]
          /\ Goto(t, "check")
  /\ UNCHANGED <<links, attempts, now, sent, history, faults>>

-----------------------------------------------------------------------------
(* issueToken and the mail: sendVerification, and the second half of        *)
(* forgot-password.  tabs[t].name is the account, tabs[t].address where the *)
(* mail goes.                                                               *)

KindOf(op) == IF op = "forgot" THEN "reset" ELSE "verification"

\* SELECT created_at ... LIMIT 1: a link younger than the cool-down refuses.
CoolingDown(kind, name) ==
  \E k \in DOMAIN links :
    links[k].kind = kind /\ links[k].user = name /\ now - links[k].created < Cooldown

CheckCooldown(t) ==
  /\ At(t, "check")
  /\ IF CoolingDown(KindOf(tabs[t].op), tabs[t].name)
     THEN Answer(t, FALSE)
     ELSE Goto(t, "insert")
  /\ UNCHANGED <<users, links, attempts, now, sent, history, faults>>

\* INSERT: the link of this request becomes tabs[t].link.
InsertToken(t) ==
  /\ At(t, "insert")
  /\ links' = Append(links, Mail(KindOf(tabs[t].op), tabs[t].name, tabs[t].address))
  /\ resets' = Append(resets, 0)
  /\ tabs' = [tabs EXCEPT ![t].pc = "send", ![t].link = Len(links) + 1]
  /\ UNCHANGED <<users, attempts, now, sent, muddled, allowed, faults>>

\* emailSender.send: a failure is logged and forgotten, the answer is the same.
SendMail(t, delivered) ==
  /\ At(t, "send")
  /\ IF delivered THEN UNCHANGED faults ELSE Fault
  /\ links' = [links EXCEPT ![tabs[t].link].delivered = delivered]
  /\ Answer(t, TRUE)
  /\ UNCHANGED <<users, attempts, now, sent, history>>

-----------------------------------------------------------------------------
(* Verification.                                                           *)

Alive(k) == links[k].expires > now

\* The UPDATE of consumeVerificationToken: used_at keeps the first use, and a link
\* works again within the grace period.
VerificationUsable(k) ==
  /\ links[k].kind = "verification"
  /\ Alive(k)
  /\ links[k].used = Never \/ now - links[k].used < ReuseGrace

\* Mutant: the answer to a link that no longer works lacks its return.
ConsumeVerificationAnyway(t) ==
  LET k == tabs[t].link IN
  /\ At(t, "consume") /\ tabs[t].op = "verify"
  /\ links' = [links EXCEPT ![k].used = IF VerificationUsable(k) /\ @ = Never THEN now ELSE @]
  /\ Goto(t, "mark")
  /\ UNCHANGED <<users, attempts, now, sent, history, faults>>

\* Mutant: a link that has been used is taken to have verified its account.
ConsumeVerificationOnce(t) ==
  LET k == tabs[t].link IN
  /\ At(t, "consume") /\ tabs[t].op = "verify"
  /\ IF VerificationUsable(k) /\ links[k].used = Never
     THEN /\ links' = [links EXCEPT ![k].used = now]
          /\ Goto(t, "mark")
     ELSE /\ Answer(t, VerificationUsable(k))
          /\ UNCHANGED links
  /\ UNCHANGED <<users, attempts, now, sent, history, faults>>

ConsumeVerification(t) ==
  LET k == tabs[t].link IN
  /\ At(t, "consume") /\ tabs[t].op = "verify"
  /\ IF VerificationUsable(k)
     THEN /\ links' = [links EXCEPT ![k].used = IF @ = Never THEN now ELSE @]
          /\ Goto(t, "mark")
     ELSE /\ Answer(t, FALSE)
          /\ UNCHANGED links
  /\ UNCHANGED <<users, attempts, now, sent, history, faults>>

\* markEmailVerified: whatever address the account has by now.
MarkVerified(t) ==
  /\ At(t, "mark")
  /\ users' = [users EXCEPT ![links[tabs[t].link].user].verified = TRUE]
  /\ Answer(t, TRUE)
  /\ UNCHANGED <<links, attempts, now, sent, history, faults>>

\* resend-verification, by name or address: offered by the register page when it
\* is done, by the login page to someone unverified, and by a verify page that
\* failed.  An account that is unknown, verified or without an address gets the
\* same answer and no mail.
Resend(t, name) ==
  /\ <<tabs[t].page, tabs[t].stage>> \in
       {<<"register", "done">>, <<"login", "unverified">>, <<"verify", "error">>}
  /\ Idle(t)
  /\ tabs[t].page = "verify" \/ name = tabs[t].name
  /\ name \in Registered /\ users[name].email # None /\ ~users[name].verified
  /\ Request(t, [tabs[t] EXCEPT !.name = name, !.address = users[name].email],
             "resend", "check")
  /\ UNCHANGED <<users, links, attempts, now, history, faults>>

-----------------------------------------------------------------------------
(* Login and sessions.                                                     *)

\* The service keeps the times of a key's attempts, two of one moment apart: here an
\* attempt is its request and its time.
ThisAttempt == [request |-> sent + 1, time |-> now]
Of(counted, key) == IF key \in DOMAIN counted THEN counted[key] ELSE {}
Put(counted, key, recent) ==
  [k \in DOMAIN counted \cup {key} |-> IF k = key THEN recent ELSE counted[k]]

\* Mutant: attempts are forgotten a tick too early.
RecentShort(key) ==
  {a \in Of(attempts, key) : now - a.time < Window - 1} \cup {ThisAttempt}

\* credentialAttemptAllowed: prune, push, count - refused attempts count too.
Recent(key) == {a \in Of(attempts, key) : now - a.time < Window} \cup {ThisAttempt}
AttemptAllowed(key) == Cardinality(Recent(key)) <= MaxAttempts

CountAttempt(key) ==
  /\ attempts' = Put(attempts, key, Recent(key))
  /\ allowed' = IF AttemptAllowed(key)
                THEN Put(allowed, key, Of(allowed, key) \cup {ThisAttempt})
                ELSE allowed

\* Mutant: nobody asks whether there is such an account.
LoginUnknown(t, name, right) ==
  /\ MayOpen(t, "login")
  /\ CountAttempt(<<"login", name>>)
  /\ Request(t, BlankFor(IF right THEN name ELSE None),
             None, "idle")
  /\ UNCHANGED <<users, links, now, muddled, resets, faults>>

\* What the login page makes of the answer.
LoginShown(name, ok, unverified) ==
  CASE ok -> BlankFor(name)
    [] unverified -> [BlankTab EXCEPT !.page = "login", !.stage = "unverified", !.name = name]
    [] ~ok /\ ~unverified -> BlankTab

\* Mutant: an unverified address is no reason to refuse.
LoginUnbarred(t, name, right) ==
  LET known == AttemptAllowed(<<"login", name>>) /\ name \in Registered /\ right IN
  /\ MayOpen(t, "login")
  /\ CountAttempt(<<"login", name>>)
  /\ Request(t, LoginShown(name, known, FALSE), None, "idle")
  /\ UNCHANGED <<users, links, now, muddled, resets, faults>>

\* POST /login: the limit, then one row.  Accounts without an address need no
\* verification; an unverified one is offered another mail.
Login(t, name, right) ==
  LET passed == AttemptAllowed(<<"login", name>>)
      known == name \in Registered /\ right
      barred == known /\ users[name].email # None /\ ~users[name].verified
  IN  /\ MayOpen(t, "login")
      /\ CountAttempt(<<"login", name>>)
      /\ Request(t, LoginShown(name, passed /\ known /\ ~barred, passed /\ barred),
                 None, "idle")
      /\ UNCHANGED <<users, links, now, muddled, resets, faults>>

\* logout() and a reload whose /me fails (getSession drops the tokens).
EndSession(t) ==
  /\ tabs[t].session # None /\ Idle(t)
  /\ tabs' = [tabs EXCEPT ![t] = BlankTab]
  /\ UNCHANGED <<users, links, attempts, now, sent, history, faults>>

-----------------------------------------------------------------------------
(* The account's address.                                                  *)

\* settings/page.tsx.  The page offers the form when /email-status, read when it
\* mounted, said that the address is not verified; that may be long ago.
SubmitAddress(t, address) ==
  /\ MayOpen(t, "settings")
  /\ Request(t, [Opened(t, "settings") EXCEPT !.name = tabs[t].session, !.address = address],
             "setEmail", "lookup")
  /\ UNCHANGED <<users, links, attempts, now, history, faults>>

\* POST /set-email, first statement: a verified address is not replaced.
CheckUnverified(t) ==
  LET user == users[tabs[t].name] IN
  /\ At(t, "lookup")
  /\ IF user.email # None /\ user.verified THEN Answer(t, FALSE) ELSE Goto(t, "set")
  /\ UNCHANGED <<users, links, attempts, now, sent, history, faults>>

\* Something of an older address can still verify the account.
LinkUnderWay(name) ==
  \/ \E k \in DOMAIN links :
       links[k].user = name /\ links[k].kind = "verification" /\ Alive(k)
  \/ \E u \in Tabs : /\ tabs[u].pc \in {"check", "insert", "send"} /\ tabs[u].op # "forgot"
                     /\ tabs[u].name = name
  \/ \E u \in Tabs : At(u, "mark") /\ links[tabs[u].link].user = name

\* setEmail: one UPDATE, which also makes the account unverified.
SetEmail(t) ==
  LET name == tabs[t].name IN
  /\ At(t, "set")
  /\ IF AddressTaken(tabs[t].address, name)
     THEN /\ Answer(t, FALSE)
          /\ UNCHANGED <<users, muddled>>
     ELSE /\ users' = [users EXCEPT ![name].email = tabs[t].address,
                                    ![name].verified = FALSE]
          /\ muddled' = IF LinkUnderWay(name) \/ users[name].verified
                        THEN muddled \cup {name} ELSE muddled
          /\ Goto(t, "check")
  /\ UNCHANGED <<links, attempts, now, sent, resets, allowed, faults>>

-----------------------------------------------------------------------------
(* Password reset.                                                         *)

\* forgot-password/page.tsx: "Sending", then the message or the form with an error,
\* neither of which keeps anything.
ForgotSent(t, name, address) ==
  [Opened(t, "forgot") EXCEPT !.name = name, !.address = address]

\* POST /forgot-password: the limit, then the account of the address, if any; the
\* page cannot tell whether there is one.
Forgot(t, address) ==
  LET key == <<"forgot", address>>
      owners == Owners(address)
  IN  /\ MayOpen(t, "forgot")
      /\ CountAttempt(key)
      /\ \/ /\ ~AttemptAllowed(key) \/ owners = {}
            /\ Request(t, BlankFor(tabs[t].session), None, "idle")
         \/ /\ AttemptAllowed(key)
            /\ \E name \in owners :
                 Request(t, ForgotSent(t, name, address), "forgot", "check")
      /\ UNCHANGED <<users, links, now, muddled, resets, faults>>

\* POST /reset-password (of the reset page a link has opened).
SubmitReset(t) ==
  /\ tabs[t].page = "reset" /\ tabs[t].stage = "form" /\ Idle(t)
  /\ Request(t, [tabs[t] EXCEPT !.password = sent + 1], "reset", "consume")
  /\ UNCHANGED <<users, links, attempts, now, history, faults>>

\* Mutant: reset links work again within the grace period, as verification links do.
ResetUsableAgain(k) ==
  /\ links[k].kind = "reset" /\ Alive(k)
  /\ links[k].used = Never \/ now - links[k].used < ReuseGrace

\* The UPDATE of consumeResetToken.
ResetUsable(k) == links[k].kind = "reset" /\ Alive(k) /\ links[k].used = Never

ConsumeReset(t) ==
  LET k == tabs[t].link IN
  /\ At(t, "consume") /\ tabs[t].op = "reset"
  /\ IF ResetUsable(k)
     THEN /\ links' = [links EXCEPT ![k].used = now]
          /\ Goto(t, "write")
     ELSE /\ Answer(t, FALSE)
          /\ UNCHANGED links
  /\ UNCHANGED <<users, attempts, now, sent, history, faults>>

UpdatePassword(t) ==
  LET k == tabs[t].link IN
  /\ At(t, "write")
  /\ users' = [users EXCEPT ![links[k].user].password = tabs[t].password]
  /\ resets' = [resets EXCEPT ![k] = @ + 1]
  /\ Answer(t, TRUE)
  /\ UNCHANGED <<links, attempts, now, sent, muddled, allowed, faults>>

-----------------------------------------------------------------------------
(* Failures.                                                               *)

\* A statement fails: what was done stays done, and the answer is a 500.
Fail(t) ==
  /\ ~Idle(t) /\ Fault
  /\ Answer(t, FALSE)
  /\ UNCHANGED <<users, links, attempts, now, sent, history>>

\* The process ends - a rejected query in /login, which no try surrounds, is
\* enough - and is started again: requests are cut off, the limiter forgets.
Crash ==
  /\ Fault
  /\ \E t \in Tabs : ~Idle(t)
  /\ tabs' = [t \in Tabs |-> IF Idle(t) THEN tabs[t] ELSE Reply(tabs[t], FALSE)]
  /\ attempts' = <<>>
  /\ allowed' = <<>>
  /\ UNCHANGED <<users, links, now, sent, muddled, resets>>

Tick ==
  /\ now < MaxTime
  /\ now' = now + 1
  /\ UNCHANGED <<users, links, attempts, tabs, sent, history, faults>>

-----------------------------------------------------------------------------
PageStep(t) ==
  \/ \E k \in DOMAIN links : OpenLink(t, k)
  \/ \E n \in Names, a \in Addresses : SubmitRegistration(t, n, a)
  \/ BackToCredentials(t)
  \/ \E n \in Names : Resend(t, n)
  \/ \E n \in Names, right \in BOOLEAN : Login(t, n, right)
  \/ EndSession(t)
  \/ \E a \in Addresses : SubmitAddress(t, a)
  \/ \E a \in Addresses : Forgot(t, a)
  \/ SubmitReset(t)

ServiceStep(t) ==
  \/ CreateUser(t)
  \/ CheckCooldown(t)
  \/ InsertToken(t)
  \/ \E delivered \in BOOLEAN : SendMail(t, delivered)
  \/ ConsumeVerification(t)
  \/ MarkVerified(t)
  \/ CheckUnverified(t)
  \/ SetEmail(t)
  \/ ConsumeReset(t)
  \/ UpdatePassword(t)
  \/ Fail(t)

Next ==
  \/ \E t \in Tabs : PageStep(t) \/ ServiceStep(t)
  \/ Crash
  \/ Tick

Spec == Init /\ [][Next]_vars

-----------------------------------------------------------------------------
(* Properties.                                                             *)

\* The state has its type; a link has at most one request writing for it.
Link == [kind: Kinds, user: Names, to: Addresses, created: Nat, expires: Nat,
         used: 0..Never, delivered: BOOLEAN]
TypeOK ==
  /\ Registered \subseteq Names
  /\ \A n \in Registered :
       users[n] \in [email: Addresses \cup {None}, verified: BOOLEAN, password: 0..MaxRequests]
  /\ links \in Seq(Link) /\ resets \in Seq(Nat) /\ Len(resets) = Len(links)
  /\ \A t \in Tabs : /\ tabs[t].page \in DOMAIN Pages
                     /\ tabs[t].stage \in Pages[tabs[t].page]
                     /\ tabs[t].session \in Registered \cup {None}
                     /\ tabs[t].link \in 0..Len(links)
  /\ muddled \subseteq Registered
  /\ now \in 0..MaxTime /\ sent \in 0..MaxRequests /\ faults \in 0..MaxFaults

\* A verified address is one that was written to: some verification link went to
\* that very address and has been opened.  Links belong to the account and not to
\* the address (tokenStore.ts), so this holds for an account whose address was not
\* replaced while an older link of it could still be opened; expiry and the reset
\* of email_verified_at are what makes it hold across several addresses.
VerifiedByMail ==
  \A n \in Registered \ muddled : users[n].verified =>
    \E k \in DOMAIN links :
      /\ links[k].user = n /\ links[k].kind = "verification"
      /\ links[k].delivered /\ links[k].used # Never
      /\ links[k].to = users[n].email

\* An account that was registered with an address keeps it: whoever is signed in to it
\* has verified it, and set-email, which checks that in one statement and writes in
\* another, refuses them.  Only accounts from before addresses were asked for get one.
AddressKept ==
  [][\A n \in Registered \ Grandfathered : users'[n].email = users[n].email]_vars

\* "This link ... can be used once" (the reset mail): whatever requests race for a
\* link, fail or are sent again, it writes at most one password.
OneResetPerLink == \A k \in DOMAIN links : resets[k] <= 1

\* In any window, however requests are spaced, at most MaxAttempts attempts of one
\* key are let through between two starts of the service.
AttemptsBounded ==
  \A key \in DOMAIN allowed, start \in 0..MaxTime :
    Cardinality({a \in allowed[key] : a.time \in start..(start + Window - 1)}) <= MaxAttempts

\* What a page reports is so: "We sent a verification link to ..." and "Verification
\* email sent" mean that such a link exists, "You're verified" that the account is
\* (unless its address was replaced meanwhile), "Password updated" that the new
\* password holds until another link replaces it.  The register page says it of the
\* address on the form, so this holds when nothing else was typed meanwhile.
LinkTo(name, address) ==
  \E k \in DOMAIN links :
    links[k].kind = "verification" /\ links[k].user = name /\ links[k].to = address
ReportedMeansDone ==
  \A t \in Tabs :
    LET tab == tabs[t]
        Shows(page, stage) == tab.page = page /\ tab.stage = stage
    IN  /\ Shows("register", "done") /\ ~tab.edited =>
             tab.name \in Registered /\ LinkTo(tab.name, tab.address)
        /\ Shows("settings", "sent") => LinkTo(tab.name, tab.address) \/ ~Idle(t)
        /\ Shows("verify", "success") =>
             LET owner == links[tab.link].user
             IN  users[owner].verified \/ owner \in muddled
        /\ Shows("reset", "done") =>
             \/ users[links[tab.link].user].password = tab.password
             \/ \E k \in DOMAIN links : k # tab.link /\ resets[k] > 0
=============================================================================
