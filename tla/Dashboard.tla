------------------------------- MODULE Dashboard -------------------------------
(***************************************************************************)
(* One tab of the dashboard (src/frontend/src/App.jsx, apiClient.js)       *)
(* against the API's check of sessions and CSRF tokens                     *)
(* (middleware/authMiddleware.js, utils/sessionCookieUtils.js).  The       *)
(* cookie belongs to the browser: other tabs sign in and out as well.      *)
(*                                                                         *)
(* A request takes the cookie when it is sent, and is judged and answered  *)
(* later.  A session never becomes valid again, so a request whose cookie  *)
(* was valid when it was sent may be let through, and is refused if it is  *)
(* judged after the session ended.                                         *)
(* Effects load what is shown; when their dependencies change, React       *)
(* cancels them and runs them again.                                       *)
(* Handlers of buttons are not cancelled, and send their further requests  *)
(* with the CSRF token of the session they were started under.             *)
(* A session, and the CSRF token derived from its token, is a number.      *)
(***************************************************************************)
EXTENDS Naturals, FiniteSets

CONSTANTS
  Accounts,
  Codes,         \* short codes
  NoCode,        \* nothing selected
  MaxSessions,   \* bound: sessions issued
  MaxFlights,    \* bound: the user signs in or out or selects a link with fewer requests in flight
  MaxQuiet       \* bound: the user does anything else with fewer requests in flight

ASSUME DashboardAssumption ==
  NoCode \notin Codes /\ MaxSessions \in Nat \ {0} /\ MaxFlights \in Nat /\ MaxQuiet \in Nat

VARIABLES
  account,   \* account[s]: whose session s is, for the sessions issued
  issued,    \* number of sessions issued
  valid,     \* sessions the server knows
  cookie,    \* session of the browser's cookie, 0 for none
  ui,        \* React's state
  flights    \* requests not yet answered

vars == <<account, issued, valid, cookie, ui, flights>>
server == <<account, issued, valid>>

Sessions == 1..MaxSessions
Maybe == 0..MaxSessions

\* links are the usable ones of the list shown.  What is loaded carries the session whose cookie
\* answered it; what a button's handler brings after the tab's session has changed carries 0.
Ui == [authLoading : BOOLEAN, session : Maybe, links : SUBSET Codes, linksOf : Maybe,
       selected : Codes \cup {NoCode}, analytics : [code : Codes \cup {NoCode}, of : Maybe],
       billing : Maybe]

NoAnalytics == [code |-> NoCode, of |-> 0]
SignedOut == [authLoading |-> FALSE, session |-> 0, links |-> {}, linksOf |-> 0,
              selected |-> NoCode, analytics |-> NoAnalytics, billing |-> 0]

\* The API answers a load for the account of the cookie: only writes are held against a CSRF token.
Label(f, session) == IF f.by = "effect" \/ f.session = session THEN f.cookie ELSE 0

Loads == {"links", "analytics", "billing"}
Writes == {"logout", "create", "expire", "health", "checkout", "cancel", "sync",
           "domain"}
Public == {"legacy", "me", "login", "reset"}

\* by: the handler a request belongs to, or "effect".  session: the one shown when the handler or
\* the effect began.  cookie: 0 unless it was valid when the request was sent.
Flight == [what : Loads \cup Writes \cup Public,
           by : {"effect", "restore", "auth", "refresh"} \cup Writes,
           session : Maybe, cookie : Maybe, code : Codes \cup {NoCode},
           cancelled : BOOLEAN]

\* The session whose cookie a request takes along.
Carried == IF cookie \in valid THEN cookie ELSE 0

SendWith(carried, what, by, session, code) ==
  [what |-> what, by |-> by, session |-> session, code |-> code,
   cookie |-> carried, cancelled |-> FALSE]

Send(what, by, session, code) == SendWith(Carried, what, by, session, code)

Init ==
  /\ account \in [Sessions -> Accounts]
  /\ issued \in {0, 1}
  /\ valid \in SUBSET (1..issued)
  /\ cookie \in 0..issued
  /\ ui = [SignedOut EXCEPT !.authLoading = TRUE]
  /\ \E what \in {"legacy", "me"} : flights = {Send(what, "restore", 0, NoCode)}

-----------------------------------------------------------------------------
(* Effects *)

Settled_KeepsSelection(next) == {next}

\* The selection follows the links, whose order is not modelled; analytics are dropped with it.
Settled(next) ==
  LET selections == IF next.selected \in next.links THEN {next.selected}
                    ELSE IF next.links = {} THEN {NoCode} ELSE next.links
  IN {[next EXCEPT !.selected = selected,
                   !.analytics = IF selected = NoCode THEN NoAnalytics ELSE @] :
        selected \in selections}

Cancelled_Not(f, next) == f

\* What an effect's cleanup does: links and billing depend on the session, analytics on the selection too.
Cancelled(f, next) ==
  [f EXCEPT !.cancelled =
     \/ @
     \/ f.by = "effect" /\ next.session # ui.session
     \/ f.by = "effect" /\ f.what = "analytics" /\ next.selected # ui.selected]

\* The loads React starts when next replaces ui.
Started(next, carried) ==
  LET fresh == next.session # ui.session IN
  {SendWith(carried, what, "effect", next.session, NoCode) :
     what \in IF fresh /\ next.session # 0 THEN {"links", "billing"} ELSE {}}
  \cup (IF next.session # 0 /\ next.selected # NoCode /\ (fresh \/ next.selected # ui.selected)
        THEN {SendWith(carried, "analytics", "effect", next.session, next.selected)} ELSE {})

\* A state change of the tab with all its effects; rest are the requests that stay in flight.
CommitWith(carried, next, rest) ==
  \E settled \in Settled(next) :
    /\ ui' = settled
    /\ flights' = {Cancelled(f, settled) : f \in rest} \cup Started(settled, carried)

Commit(next, rest) == CommitWith(Carried, next, rest)

-----------------------------------------------------------------------------
(* The user *)

Idle(by) == \A f \in flights : f.by # by
MayAct(max) == Cardinality(flights) < max

Asks(what, by, code) ==
  /\ Idle(by)
  /\ MayAct(IF by \in {"auth", "logout"} THEN MaxFlights ELSE MaxQuiet)
  /\ flights' = flights \cup {Send(what, by, ui.session, code)}
  /\ UNCHANGED <<server, cookie, ui>>

\* submitAuth for login and register, whose form waits for authLoading.
SubmitAuth == ui.session = 0 /\ ~ui.authLoading /\ Asks("login", "auth", NoCode)

\* The reset page opens for signed-in users too.
SubmitReset == ~ui.authLoading /\ Asks("reset", "auth", NoCode)

Logout == ui.session # 0 /\ Asks("logout", "logout", NoCode)
CreateLink == ui.session # 0 /\ Asks("create", "create", NoCode)
ExpireCurrentLink == ui.session # 0 /\ ui.selected # NoCode /\ Asks("expire", "expire", ui.selected)
RefreshHealth == ui.session # 0 /\ ui.selected # NoCode /\ Asks("health", "health", ui.selected)
StartPlanCheckout == ui.session # 0 /\ Asks("checkout", "checkout", NoCode)
CancelCurrentSubscription == ui.session # 0 /\ Asks("cancel", "cancel", NoCode)

\* With a pending payment the provider is asked first.
RefreshBillingSummary ==
  ui.session # 0 /\ \E what \in {"sync", "billing"} : Asks(what, "refresh", NoCode)

\* Add, verify, make primary and remove, of a custom or of the managed e-mail domain.
ChangeDomain == ui.session # 0 /\ Asks("domain", "domain", NoCode)

SelectLink(code) ==
  /\ MayAct(MaxFlights) /\ code \in ui.links \ {ui.selected}
  /\ Commit([ui EXCEPT !.selected = code], flights)
  /\ UNCHANGED <<server, cookie>>

\* expiresAt passes: the countdown of the selected link, isUsableLink.
LinkEnds ==
  /\ ui.selected # NoCode
  /\ Commit([ui EXCEPT !.links = @ \ {ui.selected}], flights)
  /\ UNCHANGED <<server, cookie>>

-----------------------------------------------------------------------------
(* The server *)
(* Every refusal but a 401 is the same to the tab: 500. *)

\* deriveCsrfToken of the cookie's session, against the token the tab sent.
CsrfTokenValid(f) == f.session = f.cookie

\* What requireAuth lets through.
LetThrough(f) ==
  \/ f.what \in Public \ {"me"}
  \/ f.cookie # 0 /\ (f.what \in Writes => CsrfTokenValid(f))

\* A handler may fail for reasons of its own, or its answer be lost.
Statuses(f) ==
  {500} \cup (IF LetThrough(f) THEN {200} ELSE {})
        \cup (IF f.cookie \notin valid /\ f.what \notin Public THEN {401} ELSE {})

\* Another tab signs in, which ends the session of the cookie, or out; a session ends by itself or by a reset elsewhere.
OtherTabSignsIn ==
  /\ issued < MaxSessions
  /\ issued' = issued + 1
  /\ valid' = (valid \ {cookie}) \cup {issued + 1}
  /\ cookie' = issued + 1
  /\ UNCHANGED <<account, ui, flights>>

OtherTabSignsOut ==
  /\ cookie \in valid
  /\ valid' = valid \ {cookie}
  /\ cookie' = 0
  /\ UNCHANGED <<account, issued, ui, flights>>

SessionEnds(s) ==
  /\ s \in valid
  /\ valid' = valid \ {s}
  /\ UNCHANGED <<account, issued, cookie, ui, flights>>

-----------------------------------------------------------------------------
(* Answers *)

\* authorizedFetch: a 401 ends the session of the tab, whoever gets it.
Outcome(status, shown) ==
  CASE status = 200 -> shown [] status = 401 -> SignedOut [] OTHER -> ui

\* Two handlers go on after their last loads fail.
GoesOn(f) == <<f.by, f.what>> \in {<<"create", "analytics">>, <<"expire", "billing">>}

Unauthorized(f) ==
  /\ 401 \in Statuses(f) /\ f.what # "logout" /\ ~GoesOn(f)
  /\ Commit(SignedOut, flights \ {f})
  /\ UNCHANGED <<server, cookie>>

\* Errors are shown, and logged-out and cancelled answers dropped: nothing else changes.
Dropped(f) ==
  /\ \/ f.what \notin {"logout", "legacy", "me"} /\ ~GoesOn(f)
     \/ f.cancelled
  /\ Commit(ui, flights \ {f})
  /\ UNCHANGED <<server, cookie>>

RestoreWith(f, carried) ==
  Commit(ui, (flights \ {f}) \cup {SendWith(carried, "me", "restore", 0, NoCode)})

\* loadSession.  A legacy token is revoked first, as far as possible, which clears the cookie too;
\* both requests have a time limit.
RestoreAnswered(f) ==
  /\ f.by = "restore"
  /\ \/ /\ f.what = "legacy"
        /\ \/ UNCHANGED cookie /\ RestoreWith(f, Carried)
           \/ cookie' = 0 /\ RestoreWith(f, 0)
     \/ /\ f.what = "me"
        /\ \E session \in {0, f.cookie} :
             Commit([SignedOut EXCEPT !.session = session], flights \ {f})
        /\ UNCHANGED cookie
  /\ UNCHANGED server

\* issueSession ends the session of the request's cookie; the answer sets the cookie.
SignedIn(f) ==
  /\ 200 \in Statuses(f) /\ f.what = "login" /\ issued < MaxSessions
  /\ issued' = issued + 1
  /\ valid' = (valid \ {f.cookie}) \cup {issued + 1}
  /\ cookie' = issued + 1
  /\ CommitWith(issued + 1, [ui EXCEPT !.session = issued + 1], flights \ {f})
  /\ UNCHANGED account

\* resetPassword ends the sessions of one account and clears the cookie.
PasswordReset(f) ==
  /\ 200 \in Statuses(f) /\ f.what = "reset"
  /\ \E a \in Accounts : valid' = {s \in valid : account[s] # a}
  /\ cookie' = 0
  /\ Commit([SignedOut EXCEPT !.authLoading = ui.authLoading], flights \ {f})
  /\ UNCHANGED <<account, issued>>

\* The tab signs out whatever the answer; the server clears the cookie of a request it lets through.
LogoutAnswered(f) ==
  /\ f.what = "logout"
  /\ \/ 200 \in Statuses(f) /\ cookie' = 0 /\ valid' = valid \ {f.cookie}
     \/ UNCHANGED <<cookie, valid>>
  /\ Commit(SignedOut, flights \ {f})
  /\ UNCHANGED <<account, issued>>

\* The list replaces the shown one; whether the selection survives is Settled.
LinksLoaded(f) ==
  /\ 200 \in Statuses(f) /\ f.what = "links" /\ ~f.cancelled
  /\ \E links \in SUBSET Codes :
       Commit([ui EXCEPT !.links = links, !.linksOf = Label(f, ui.session)], flights \ {f})
  /\ UNCHANGED <<server, cookie>>

AnalyticsShown(f) == [ui EXCEPT !.analytics = [code |-> f.code, of |-> Label(f, ui.session)]]

\* applyBillingSummary; the plan shown with the workspace comes from the same answer.
BillingShown(f) == [ui EXCEPT !.billing = Label(f, ui.session)]

\* An effect's load, or the last request of refreshHealth and of refreshBillingSummary.
AnalyticsLoaded(f) ==
  /\ 200 \in Statuses(f) /\ f.what = "analytics" /\ f.by # "create" /\ ~f.cancelled
  /\ Commit(AnalyticsShown(f), flights \ {f})
  /\ UNCHANGED <<server, cookie>>

BillingLoaded(f) ==
  /\ 200 \in Statuses(f) /\ f.what = "billing" /\ f.by # "expire" /\ ~f.cancelled
  /\ Commit(BillingShown(f), flights \ {f})
  /\ UNCHANGED <<server, cookie>>

\* The handler goes on with another request, under the session it began with.
Continues(f, next, what, code) ==
  Commit(next, (flights \ {f}) \cup {Send(what, f.by, f.session, code)})

Upserted(code, usable) == [ui EXCEPT !.links = IF usable THEN @ \cup {code} ELSE @ \ {code}]

\* createLink: the new link is shown and selected, then its analytics and the billing summary are loaded.
LinkCreated(f) ==
  /\ f.by = "create"
  /\ \/ /\ 200 \in Statuses(f) /\ f.what = "create"
        /\ \E code \in Codes :
             /\ code \notin ui.links
             /\ Continues(f, [Upserted(code, TRUE) EXCEPT !.selected = code], "analytics", code)
     \/ /\ f.what = "analytics"
        /\ \E status \in Statuses(f) :
             Continues(f, Outcome(status, AnalyticsShown(f)), "billing", NoCode)
  /\ UNCHANGED <<server, cookie>>

\* expireCurrentLink: the summary is refreshed, then the link is shown as ended, in the list of when the button was pressed: any list here.
LinkExpired(f) ==
  /\ f.by = "expire"
  /\ \/ 200 \in Statuses(f) /\ f.what = "expire" /\ Continues(f, ui, "billing", f.code)
     \/ /\ f.what = "billing"
        /\ \E status \in Statuses(f), links \in SUBSET (Codes \ {f.code}) :
             LET shown == Outcome(status, BillingShown(f))
             IN Commit([shown EXCEPT !.links = links, !.selected = NoCode,
                                     !.linksOf = IF f.session = shown.session THEN @ ELSE 0],
                       flights \ {f})
  /\ UNCHANGED <<server, cookie>>

\* refreshHealth shows the link it got back, then loads its analytics.
HealthRefreshed(f) ==
  /\ 200 \in Statuses(f) /\ f.what = "health"
  /\ \E usable \in BOOLEAN : Continues(f, Upserted(f.code, usable), "analytics", f.code)
  /\ UNCHANGED <<server, cookie>>

\* sync and cancel go on to load the summary; a checkout leaves the page.
BillingChanged(f) ==
  /\ 200 \in Statuses(f) /\ f.what \in {"sync", "cancel"}
  /\ Continues(f, ui, "billing", NoCode)
  /\ UNCHANGED <<server, cookie>>

\* A checkout leaves the page; applyWorkspaceSettings changes the workspace shown, which is not tracked.
CheckoutOrDomainChanged(f) ==
  /\ 200 \in Statuses(f) /\ f.what \in {"checkout", "domain"}
  /\ Commit(ui, flights \ {f})
  /\ UNCHANGED <<server, cookie>>

Answered(f) ==
  \/ Unauthorized(f) \/ Dropped(f) \/ RestoreAnswered(f) \/ SignedIn(f) \/ PasswordReset(f)
  \/ LogoutAnswered(f) \/ LinksLoaded(f) \/ AnalyticsLoaded(f) \/ BillingLoaded(f)
  \/ LinkCreated(f) \/ LinkExpired(f) \/ HealthRefreshed(f) \/ BillingChanged(f)
  \/ CheckoutOrDomainChanged(f)

UserAction ==
  \/ SubmitAuth \/ SubmitReset \/ Logout \/ CreateLink \/ ExpireCurrentLink \/ RefreshHealth
  \/ StartPlanCheckout \/ CancelCurrentSubscription \/ RefreshBillingSummary
  \/ ChangeDomain \/ \E code \in Codes : SelectLink(code)

Next ==
  \/ UserAction \/ LinkEnds
  \/ \E f \in flights : Answered(f)
  \/ OtherTabSignsIn \/ OtherTabSignsOut \/ \E s \in Sessions : SessionEnds(s)

Spec == Init /\ [][Next]_vars

-----------------------------------------------------------------------------
TypeOK ==
  /\ account \in [Sessions -> Accounts] /\ issued \in Maybe
  /\ valid \subseteq Sessions /\ cookie \in Maybe
  /\ ui \in Ui /\ flights \subseteq Flight
  /\ ui.selected = NoCode <=> ui.links = {}
  /\ ui.selected # NoCode => ui.selected \in ui.links

(***************************************************************************)
(* While the browser's cookie is that of the session a tab shows, whatever *)
(* effects have loaded is of that session, however late it was answered.   *)
(* Once another tab has replaced the cookie, GETs are answered for the new *)
(* one, so the tab may show data of a later session as its own; never that *)
(* of an earlier one, nor any when it is signed out.                       *)
(***************************************************************************)
OwnData ==
  \A of \in {ui.linksOf, ui.billing, ui.analytics.of} \ {0} :
    \/ of = ui.session
    \/ ui.session \in 1..(of - 1) /\ cookie # ui.session
=============================================================================
