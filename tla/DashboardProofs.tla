---------------------------- MODULE DashboardProofs ----------------------------
(***************************************************************************)
(* Proofs about a tab of the dashboard: while the browser's cookie is that *)
(* of the session it shows, its data is of that session, and it is never   *)
(* that of an earlier one, for any number of accounts, sessions, links and *)
(* requests, and whatever other tabs do.                                   *)
(***************************************************************************)
EXTENDS Dashboard, TLAPS

USE DashboardAssumption

\* What the cookie of session "of" brought may be shown under a session while the cookie is c.
OwnedBy(of, session, c) ==
  of = 0 \/ of = session \/ (session \in 1..(of - 1) /\ c # session)

\* OwnData is Own(ui, cookie).
Own(shown, c) ==
  \A of \in {shown.linksOf, shown.billing, shown.analytics.of} : OwnedBy(of, shown.session, c)

\* The page as it is until the session has been restored.
Loading == [SignedOut EXCEPT !.authLoading = TRUE]

\* Until the session has been restored nothing else is asked for.
RestoringOK(shown, requests) ==
  shown.authLoading => shown = Loading /\ \A f \in requests : f.by = "restore"

\* A session comes from the one restore and the one sign-in: while either waits, none is shown.
\* The health of a selected link is asked for, and loads and writes under a session.
RequestsOK(shown, requests) ==
  /\ \A f \in requests :
       /\ f.by = "restore" => shown.authLoading /\ f.what \in {"legacy", "me"}
       /\ f.what = "login" => f.by = "auth" /\ shown.session = 0
       /\ f.what = "health" => f.code \in Codes
       /\ f.what \in Loads \cup Writes => f.session # 0
  /\ \A f, g \in requests : f.by = g.by /\ f.by \in {"restore", "auth"} => f = g

\* An effect's load that has not been cancelled began under the session shown.
EffectsOK(session, requests) ==
  \A f \in requests :
    /\ f.by = "effect" => f.what \in Loads /\ (f.cancelled \/ f.session = session)
    /\ f.cancelled => f.by = "effect"

(***************************************************************************)
(* Sessions are issued in order, n of them, and the cookie c only goes to  *)
(* a new one or away.  So a request was sent with the cookie of the        *)
(* session it was sent under, or with a later one, and then the cookie     *)
(* never comes back to the earlier one.                                    *)
(***************************************************************************)
CookieOK(session, requests, c, n) ==
  /\ session <= n /\ c <= n /\ (c = 0 \/ session <= c)
  /\ \A f \in requests :
       /\ f.session <= n /\ f.cookie <= n
       /\ c = 0 \/ (f.session <= c /\ f.cookie <= c)
       /\ f.session # 0 => OwnedBy(f.cookie, f.session, c)

TabInv ==
  /\ RestoringOK(ui, flights) /\ RequestsOK(ui, flights) /\ EffectsOK(ui.session, flights)
  /\ CookieOK(ui.session, flights, cookie, issued)

IInv == TypeOK /\ TabInv /\ OwnData

\* The part of the type invariant that commits change.
PageOK ==
  /\ ui \in Ui /\ flights \subseteq Flight
  /\ ui.selected = NoCode <=> ui.links = {}
  /\ ui.selected # NoCode => ui.selected \in ui.links

ServerOK ==
  /\ account \in [Sessions -> Accounts] /\ issued \in Maybe
  /\ valid \subseteq Sessions /\ cookie \in Maybe

LEMMA TypeParts == TypeOK <=> PageOK /\ ServerOK
  BY DEF TypeOK, PageOK, ServerOK

LEMMA Together ==
  ASSUME PageOK', ServerOK', TabInv', OwnData'
  PROVE  IInv'
  BY DEF IInv, TypeOK, PageOK, ServerOK

LEMMA OwnIsShown == OwnData <=> Own(ui, cookie)
  BY DEF OwnData, Own, OwnedBy

LEMMA SignedOutIsUi ==
  /\ SignedOut \in Ui /\ ~SignedOut.authLoading /\ SignedOut.session = 0
  /\ \A c : Own(SignedOut, c)
  BY DEF SignedOut, Ui, NoAnalytics, Maybe, Own, OwnedBy

LEMMA CarriedIsSession == ServerOK => Carried \in Maybe /\ Carried \in {0, cookie}
  BY DEF ServerOK, Carried, Maybe

\* The cookie goes away.
LEMMA CookieGone ==
  ASSUME NEW c \in Maybe, NEW n \in Maybe
  PROVE  /\ \A shown \in Ui : Own(shown, c) => Own(shown, 0)
         /\ \A session \in Maybe, requests \in SUBSET Flight :
              CookieOK(session, requests, c, n) => CookieOK(session, requests, 0, n)
<1>1. \A of, session \in Maybe : OwnedBy(of, session, c) => OwnedBy(of, session, 0)
  BY DEF OwnedBy, Maybe
<1>2. \A shown \in Ui : Own(shown, c) => Own(shown, 0)
  BY <1>1 DEF Own, Ui
<1>3. ASSUME NEW session \in Maybe, NEW requests \in SUBSET Flight,
             CookieOK(session, requests, c, n)
      PROVE  CookieOK(session, requests, 0, n)
  <2>1. \A f \in requests : f.session \in Maybe /\ f.cookie \in Maybe
    BY DEF Flight
  <2>2. 0 <= n
    BY DEF Maybe
  <2> QED
    BY <1>1, <1>3, <2>1, <2>2 DEF CookieOK
<1> QED
  BY <1>2, <1>3

\* A session is issued, and the cookie becomes its own.
LEMMA CookieReplaced ==
  ASSUME NEW c \in Maybe, NEW n \in Maybe, NEW session \in Maybe,
         NEW requests \in SUBSET Flight, CookieOK(session, requests, c, n)
  PROVE  /\ CookieOK(session, requests, n + 1, n + 1)
         /\ \A shown \in Ui : shown.session = session /\ Own(shown, c) => Own(shown, n + 1)
<1>1. \A of \in Maybe, s \in Maybe : s <= n /\ OwnedBy(of, s, c) => OwnedBy(of, s, n + 1)
  BY DEF OwnedBy, Maybe
<1>2. \A f \in requests : f.session \in Maybe /\ f.cookie \in Maybe
  BY DEF Flight
<1>3. \A s \in Maybe : s <= n => s <= n + 1
  BY DEF Maybe
<1>4. n + 1 <= n + 1
  BY DEF Maybe
<1>5. CookieOK(session, requests, n + 1, n + 1)
  BY <1>1, <1>2, <1>3, <1>4 DEF CookieOK
<1>6. ASSUME NEW shown \in Ui, shown.session = session, Own(shown, c)
      PROVE  Own(shown, n + 1)
  <2>1. \A of \in {shown.linksOf, shown.billing, shown.analytics.of} : of \in Maybe
    BY DEF Ui
  <2>2. session <= n
    BY DEF CookieOK
  <2> QED
    BY <1>1, <1>6, <2>1, <2>2 DEF Own
<1> QED
  BY <1>5, <1>6

\* What a request sent with the cookie c may bring, under any session there has been.
LEMMA CookieSent ==
  ASSUME NEW c \in Maybe, NEW session \in Maybe, c = 0 \/ session <= c, session # 0,
         NEW carried \in {0, c}
  PROVE  OwnedBy(carried, session, c)
  BY DEF OwnedBy, Maybe

\* What the effect that keeps the selection may change of a page.
LEMMA SettledKeeps ==
  ASSUME NEW next \in Ui, NEW settled \in Settled(next)
  PROVE  /\ settled \in Ui
         /\ settled.session = next.session /\ settled.authLoading = next.authLoading
         /\ settled.selected = NoCode <=> settled.links = {}
         /\ settled.selected # NoCode => settled.selected \in settled.links
         /\ \A c : Own(next, c) => Own(settled, c)
         /\ next = Loading => settled = Loading
<1>1. PICK selected \in IF next.selected \in next.links THEN {next.selected}
                      ELSE IF next.links = {} THEN {NoCode} ELSE next.links :
        settled = [next EXCEPT !.selected = selected,
                     !.analytics = IF selected = NoCode THEN NoAnalytics ELSE @]
  BY DEF Settled
<1>2. /\ settled.session = next.session /\ settled.authLoading = next.authLoading
      /\ settled.links = next.links /\ settled.selected = selected
      /\ settled.linksOf = next.linksOf /\ settled.billing = next.billing
      /\ settled.analytics = IF selected = NoCode THEN NoAnalytics ELSE next.analytics
  BY <1>1 DEF Ui
<1>3. /\ selected \in Codes \cup {NoCode}
      /\ selected = NoCode <=> next.links = {}
      /\ selected # NoCode => selected \in next.links
  BY DEF Ui
<1>4. NoAnalytics \in [code : Codes \cup {NoCode}, of : Maybe] /\ NoAnalytics.of = 0
  BY DEF NoAnalytics, Maybe
<1>5. settled \in Ui
  BY <1>1, <1>3, <1>4 DEF Ui
<1>6. ASSUME NEW c, Own(next, c)
      PROVE  Own(settled, c)
  BY <1>2, <1>4, <1>6 DEF Own, OwnedBy
<1>7. ASSUME next = Loading
      PROVE  settled = Loading
  <2>1. next.links = {} /\ next.selected = NoCode /\ next.analytics = NoAnalytics
    BY <1>7 DEF Loading, SignedOut
  <2>2. selected = NoCode
    BY <1>3, <2>1
  <2>3. settled = [next EXCEPT !.selected = next.selected, !.analytics = next.analytics]
    BY <1>1, <2>1, <2>2
  <2>4. settled = next
    BY <2>3 DEF Ui
  <2> QED
    BY <1>7, <2>4
<1> QED
  BY <1>2, <1>3, <1>5, <1>6, <1>7

\* A cleanup cancels, and changes nothing else.
LEMMA CancelledKeeps ==
  ASSUME NEW f \in Flight, NEW next
  PROVE  /\ Cancelled(f, next) \in Flight
         /\ Cancelled(f, next).by = f.by /\ Cancelled(f, next).what = f.what
         /\ Cancelled(f, next).session = f.session /\ Cancelled(f, next).cookie = f.cookie
         /\ Cancelled(f, next).cancelled <=>
              \/ f.cancelled
              \/ f.by = "effect" /\ next.session # ui.session
              \/ f.by = "effect" /\ f.what = "analytics" /\ next.selected # ui.selected
         /\ f.by # "effect" => Cancelled(f, next) = f
  BY DEF Cancelled, Flight

LEMMA StartedLoads ==
  ASSUME NEW carried \in Maybe, NEW next \in Ui, NEW f \in Started(next, carried)
  PROVE  /\ f \in Flight /\ f.by = "effect" /\ f.what \in Loads
         /\ f.session = next.session /\ f.session # 0 /\ f.cookie = carried /\ ~f.cancelled
<1>1. PICK what \in Loads, code \in Codes \cup {NoCode} :
        next.session # 0 /\ f = SendWith(carried, what, "effect", next.session, code)
  BY DEF Started, Loads, Ui
<1> QED
  BY <1>1 DEF SendWith, Flight, Ui

-----------------------------------------------------------------------------
(* Commits *)

(***************************************************************************)
(* A commit of a page whose session has changed cancels the effects'       *)
(* loads; the requests left, and one that goes on, are still what they     *)
(* may be.                                                                 *)
(***************************************************************************)
LEMMA Committed ==
  ASSUME NEW carried \in Maybe, NEW next \in Ui, NEW rest \in SUBSET Flight,
         NEW c \in Maybe, NEW n \in Maybe, cookie' = c, issued' = n,
         CommitWith(carried, next, rest), next.session = 0 \/ carried \in {0, c},
         Own(next, c), RestoringOK(next, rest), RequestsOK(next, rest),
         EffectsOK(ui.session, rest), CookieOK(next.session, rest, c, n)
  PROVE  PageOK' /\ TabInv' /\ OwnData'
<1>1. PICK settled \in Settled(next) :
        /\ ui' = settled
        /\ flights' = {Cancelled(f, settled) : f \in rest} \cup Started(settled, carried)
  BY DEF CommitWith
<1>2. /\ settled \in Ui
      /\ settled.session = next.session /\ settled.authLoading = next.authLoading
      /\ settled.selected = NoCode <=> settled.links = {}
      /\ settled.selected # NoCode => settled.selected \in settled.links
      /\ Own(settled, c)
      /\ next = Loading => settled = Loading
  BY SettledKeeps
<1>3. \A f \in Started(settled, carried) :
        /\ f \in Flight /\ f.by = "effect" /\ f.what \in Loads
        /\ f.session = settled.session /\ f.session # 0 /\ f.cookie = carried /\ ~f.cancelled
  BY <1>2, StartedLoads
<1>4. settled.authLoading => Started(settled, carried) = {}
  BY <1>2 DEF RestoringOK, Started, Loading, SignedOut
<1>5. ASSUME NEW f \in flights'
      PROVE  \/ f \in Started(settled, carried)
             \/ \E g \in rest :
                  /\ f \in Flight /\ f.by = g.by /\ f.what = g.what /\ f.session = g.session
                  /\ f.cookie = g.cookie
                  /\ g.cancelled => f.cancelled
                  /\ f.cancelled => g.cancelled \/ g.by = "effect"
                  /\ g.by = "effect" /\ settled.session # ui.session => f.cancelled
                  /\ f.by # "effect" => f = g
  <2>1. CASE f \in Started(settled, carried)
    BY <2>1
  <2>2. CASE \E g \in rest : f = Cancelled(g, settled)
    <3>1. PICK g \in rest : f = Cancelled(g, settled)
      BY <2>2
    <3>2. g \in Flight
      OBVIOUS
    <3>3. /\ f \in Flight /\ f.by = g.by /\ f.what = g.what /\ f.session = g.session
          /\ f.cookie = g.cookie
          /\ f.cancelled <=>
               \/ g.cancelled
               \/ g.by = "effect" /\ settled.session # ui.session
               \/ g.by = "effect" /\ g.what = "analytics" /\ settled.selected # ui.selected
          /\ g.by # "effect" => f = g
      BY <3>1, <3>2, CancelledKeeps
    <3> QED
      BY <3>3
  <2> QED
    BY <1>1, <2>1, <2>2
<1>6. PageOK'
  BY <1>1, <1>2, <1>3, <1>5 DEF PageOK
<1>7. RestoringOK(settled, flights')
  BY <1>2, <1>4, <1>5 DEF RestoringOK
<1>8. EffectsOK(settled.session, flights')
  BY <1>3, <1>5 DEF EffectsOK
<1>9. RequestsOK(settled, flights')
  <2>1. \A f \in flights' : f.by # "effect" => f \in rest
    BY <1>3, <1>5
  <2>2. "login" \notin Loads /\ "health" \notin Loads
    BY DEF Loads
  <2>3. \A f \in flights' : f.what \in Loads \cup Writes => f.session # 0
    BY <1>3, <1>5 DEF RequestsOK
  <2> QED
    BY <1>2, <1>8, <2>1, <2>2, <2>3 DEF RequestsOK, EffectsOK
<1>10. CookieOK(settled.session, flights', c, n)
  <2>1. ASSUME NEW f \in Started(settled, carried)
        PROVE  /\ f.session <= n /\ f.cookie <= n
               /\ c = 0 \/ (f.session <= c /\ f.cookie <= c)
               /\ OwnedBy(f.cookie, f.session, c)
    <3>1. /\ f.session = next.session /\ f.session # 0 /\ f.cookie = carried
          /\ carried \in {0, c} /\ f.session \in Maybe
      BY <1>2, <1>3 DEF Flight
    <3>2. f.session <= n /\ c <= n /\ (c = 0 \/ f.session <= c)
      BY <3>1 DEF CookieOK
    <3>3. OwnedBy(carried, f.session, c)
      BY <3>1, <3>2, CookieSent
    <3>4. carried <= n /\ (c = 0 \/ carried <= c)
      BY <3>1, <3>2 DEF Maybe
    <3> QED
      BY <3>1, <3>2, <3>3, <3>4
  <2> QED
    BY <1>2, <1>5, <2>1 DEF CookieOK
<1>11. OwnData'
  BY <1>1, <1>2 DEF OwnData, Own, OwnedBy
<1> QED
  BY <1>1, <1>2, <1>6, <1>7, <1>8, <1>9, <1>10, <1>11 DEF TabInv

\* A page put together from what is shown.
LEMMA ShownIsUi ==
  ASSUME IInv
  PROVE  ui \in Ui /\ Own(ui, cookie) /\ flights \subseteq Flight
  BY OwnIsShown DEF IInv, TypeOK

\* What the invariant says of the cookie.
LEMMA CookieNow ==
  ASSUME IInv
  PROVE  /\ cookie \in Maybe /\ issued \in Maybe
         /\ Carried \in Maybe /\ Carried \in {0, cookie}
         /\ CookieOK(ui.session, flights, cookie, issued)
  BY CarriedIsSession, TypeParts DEF IInv, TabInv, ServerOK

LEMMA NoRestore ==
  ASSUME IInv, NEW f \in flights, f.by # "restore"
  PROVE  ~ui.authLoading
  BY DEF IInv, TabInv, RestoringOK

\* Once the session has been restored, an answered request goes, and at most one takes its place.
LEMMA Answers ==
  ASSUME IInv, NEW f \in flights, f.by # "restore", NEW next \in Ui,
         ~next.authLoading, next.session \in {0, ui.session}, Own(next, cookie),
         NEW new \in SUBSET Flight, CommitWith(Carried, next, (flights \ {f}) \cup new),
         issued' = issued, cookie' \in {0, cookie}, next.session = 0 \/ cookie' = cookie,
         \A g \in new : /\ g.by = f.by /\ g.by # "effect" /\ g.what \in Loads /\ ~g.cancelled
                        /\ g.session = f.session /\ g.session # 0 /\ g.cookie = Carried,
         \A g, h \in new : g = h
  PROVE  PageOK' /\ TabInv' /\ OwnData'
<1> DEFINE rest == (flights \ {f}) \cup new
<1>1. /\ rest \in SUBSET Flight /\ Carried \in Maybe /\ f \in Flight
      /\ RestoringOK(ui, flights) /\ RequestsOK(ui, flights) /\ EffectsOK(ui.session, flights)
  BY TypeParts, CarriedIsSession DEF IInv, PageOK, TabInv
<1>2. ~ui.authLoading
  BY NoRestore
<1>3. \A g \in rest : \/ g \in flights /\ g # f
                      \/ g \in new /\ g.by = f.by
  OBVIOUS
<1>4. RestoringOK(next, rest)
  BY DEF RestoringOK
<1>5. EffectsOK(ui.session, rest)
  BY <1>1, <1>3 DEF EffectsOK
<1>6. RequestsOK(next, rest)
  <2>1. \A g \in rest :
          /\ g.by # "restore"
          /\ g.what = "login" => g.by = "auth" /\ next.session = 0
          /\ g.what = "health" => g.code \in Codes
          /\ g.what \in Loads \cup Writes => g.session # 0
    BY <1>1, <1>2, <1>3 DEF RequestsOK, Loads
  <2>2. \A g, h \in rest : g.by = h.by /\ g.by \in {"restore", "auth"} => g = h
    BY <1>1, <1>3 DEF RequestsOK
  <2> QED
    BY <2>1, <2>2 DEF RequestsOK
<1>7. CookieOK(next.session, rest, cookie, issued)
  <2>1. /\ CookieOK(ui.session, flights, cookie, issued)
        /\ cookie \in Maybe /\ issued \in Maybe /\ ui.session \in Maybe
    BY CookieNow, ShownIsUi DEF Ui
  <2>2. /\ next.session <= issued /\ cookie <= issued
        /\ cookie = 0 \/ next.session <= cookie
    BY <2>1 DEF CookieOK, Maybe
  <2>3. ASSUME NEW g \in new
        PROVE  /\ g.session <= issued /\ g.cookie <= issued
               /\ cookie = 0 \/ (g.session <= cookie /\ g.cookie <= cookie)
               /\ OwnedBy(g.cookie, g.session, cookie)
    <3>1. /\ g.session = f.session /\ g.session # 0 /\ g.cookie \in {0, cookie}
          /\ g.session \in Maybe
      BY CookieNow DEF Flight
    <3>2. g.session <= issued /\ (cookie = 0 \/ g.session <= cookie)
      BY <2>1, <3>1 DEF CookieOK
    <3>3. OwnedBy(g.cookie, g.session, cookie)
      BY <2>1, <3>1, <3>2, CookieSent
    <3>4. g.cookie <= issued /\ (cookie = 0 \/ g.cookie <= cookie)
      BY <2>1, <2>2, <3>1 DEF Maybe
    <3> QED
      BY <3>2, <3>3, <3>4
  <2> QED
    BY <1>3, <2>1, <2>2, <2>3 DEF CookieOK
<1> HIDE DEF rest
<1>8. PICK c \in {0, cookie} : cookie' = c
  OBVIOUS
<1>9. /\ c \in Maybe /\ issued \in Maybe /\ cookie \in Maybe
      /\ next.session = 0 \/ Carried \in {0, c}
  BY <1>8, CookieNow DEF Maybe
<1>10. next.session \in Maybe
  BY DEF Ui
<1>11. Own(next, c) /\ CookieOK(next.session, rest, c, issued)
  BY <1>1, <1>7, <1>8, <1>9, <1>10, CookieGone
<1>12. CommitWith(Carried, next, rest)
  BY DEF rest
<1> QED
  BY <1>1, <1>4, <1>5, <1>6, <1>8, <1>9, <1>11, <1>12, Committed

\* The request that takes the place of one it is sent for.
LEMMA SendIsFlight ==
  ASSUME IInv, NEW what \in Loads \cup Writes \cup Public,
         NEW by \in {"effect", "restore", "auth", "refresh"} \cup Writes,
         NEW session \in Maybe, NEW code \in Codes \cup {NoCode}
  PROVE  LET sent == Send(what, by, session, code)
         IN  /\ sent \in Flight /\ sent.what = what /\ sent.by = by
             /\ sent.session = session /\ sent.cookie = Carried
             /\ sent.code = code /\ ~sent.cancelled
<1>1. Carried \in Maybe
  BY CarriedIsSession, TypeParts DEF IInv
<1> QED
  BY <1>1 DEF Send, SendWith, Flight

-----------------------------------------------------------------------------
(* The user and the server *)

\* Only the server and the browser move.
LEMMA ServerStep ==
  ASSUME IInv, ServerOK', UNCHANGED <<ui, flights>>,
         \/ issued' = issued /\ cookie' \in {0, cookie}
         \/ issued' = issued + 1 /\ cookie' = issued + 1
  PROVE  IInv'
<1>1. /\ ui \in Ui /\ ui.session \in Maybe /\ flights \in SUBSET Flight /\ Own(ui, cookie)
      /\ cookie \in Maybe /\ issued \in Maybe
      /\ CookieOK(ui.session, flights, cookie, issued)
  BY ShownIsUi, CookieNow DEF Ui
<1>2. PICK c, n : /\ cookie' = c /\ issued' = n
                  /\ \/ c \in {0, cookie} /\ n = issued
                     \/ c = issued + 1 /\ n = issued + 1
  OBVIOUS
<1>3. Own(ui, c) /\ CookieOK(ui.session, flights, c, n)
  BY <1>1, <1>2, CookieGone, CookieReplaced
<1>4. OwnData'
  BY <1>2, <1>3 DEF OwnData, Own, OwnedBy
<1>5. PageOK'
  BY TypeParts DEF IInv, PageOK
<1>6. TabInv'
  BY <1>2, <1>3 DEF IInv, TabInv
<1> QED
  BY <1>4, <1>5, <1>6, Together

\* A button asks for something of its own, with nothing of its handler under way.
LEMMA AsksStep ==
  ASSUME IInv, NEW what \in Writes \cup {"login", "reset", "billing"},
         NEW by \in {"auth", "refresh"} \cup Writes, NEW code \in Codes \cup {NoCode},
         Asks(what, by, code), ~ui.authLoading,
         what = "login" => by = "auth" /\ ui.session = 0,
         what \notin {"login", "reset"} => ui.session # 0,
         what = "health" => code \in Codes
  PROVE  IInv'
<1> DEFINE f == Send(what, by, ui.session, code)
<1>1. /\ f \in Flight /\ f.what = what /\ f.by = by /\ f.code = code /\ ~f.cancelled
      /\ f.session = ui.session /\ f.cookie = Carried
  <2>1. ui.session \in Maybe
    BY ShownIsUi DEF Ui
  <2>2. what \in Loads \cup Writes \cup Public
    BY DEF Loads, Public
  <2> QED
    BY <2>1, <2>2, SendIsFlight
<1> HIDE DEF f
<1>2. /\ flights' = flights \cup {f} /\ UNCHANGED <<account, issued, valid, cookie, ui>>
      /\ \A g \in flights : g.by # by
  BY DEF Asks, Idle, server, f
<1>3. by \notin {"effect", "restore"}
  BY DEF Writes
<1>4. TypeOK'
  BY <1>1, <1>2 DEF IInv, TypeOK
<1>5. TabInv'
  <2>1. RestoringOK(ui', flights') /\ RequestsOK(ui', flights') /\ EffectsOK(ui'.session, flights')
    BY <1>1, <1>2, <1>3 DEF IInv, TabInv, RestoringOK, RequestsOK, EffectsOK, Loads, Writes
  <2>2. CookieOK(ui.session, flights, cookie, issued) /\ Carried \in {0, cookie}
        /\ cookie \in Maybe /\ issued \in Maybe /\ ui.session \in Maybe
    BY CookieNow, ShownIsUi DEF Ui
  <2>3. f.session # 0 => OwnedBy(f.cookie, f.session, cookie)
    BY <1>1, <2>2, CookieSent DEF CookieOK
  <2>4. /\ f.session <= issued /\ f.cookie <= issued
        /\ cookie = 0 \/ (f.session <= cookie /\ f.cookie <= cookie)
    BY <1>1, <2>2 DEF CookieOK, Maybe
  <2>5. CookieOK(ui.session, flights \cup {f}, cookie, issued)
    BY <2>2, <2>3, <2>4 DEF CookieOK
  <2> QED
    BY <1>2, <2>1, <2>5 DEF TabInv
<1>6. OwnData'
  BY <1>2 DEF IInv, OwnData
<1> QED
  BY <1>4, <1>5, <1>6 DEF IInv

\* The page changes, but not whose it is.
LEMMA PageStep ==
  ASSUME IInv, NEW next \in Ui, next.session = ui.session, Own(next, cookie),
         ~ui.authLoading, ~next.authLoading,
         Commit(next, flights), UNCHANGED <<server, cookie>>
  PROVE  IInv'
<1>1. CommitWith(Carried, next, flights) /\ UNCHANGED <<account, issued, valid, cookie>>
  BY DEF Commit, server
<1>2. /\ RestoringOK(next, flights) /\ RequestsOK(next, flights)
      /\ EffectsOK(ui.session, flights)
  BY DEF IInv, TabInv, RestoringOK, RequestsOK
<1>3. PageOK' /\ TabInv' /\ OwnData'
  BY <1>1, <1>2, Committed, ShownIsUi, CookieNow
<1> QED
  BY <1>1, <1>3, TypeParts DEF IInv, TypeOK, PageOK

\* Before the session is restored no link is shown.
LEMMA NothingLoading == IInv /\ ui.authLoading => ui.links = {} /\ ui.session = 0
  BY DEF IInv, TabInv, RestoringOK, Loading, SignedOut

LEMMA UserStep ==
  ASSUME IInv, UserAction
  PROVE  IInv'
<1>1. ui.session # 0 => ~ui.authLoading
  BY NothingLoading
<1>2. ui.selected \in Codes \cup {NoCode} /\ NoCode \in Codes \cup {NoCode}
  BY ShownIsUi DEF Ui
<1>3. ASSUME NEW code \in Codes, SelectLink(code)
      PROVE  IInv'
  <2> DEFINE next == [ui EXCEPT !.selected = code]
  <2>1. /\ next \in Ui /\ Own(next, cookie)
        /\ next.session = ui.session /\ next.authLoading = ui.authLoading
    BY ShownIsUi DEF Ui, Own
  <2>2. Commit(next, flights) /\ UNCHANGED <<server, cookie>> /\ code \in ui.links
    BY <1>3 DEF SelectLink
  <2> HIDE DEF next
  <2> QED
    BY <2>1, <2>2, NothingLoading, PageStep
<1>4. PICK what \in Writes \cup {"login", "reset", "billing"},
           by \in {"auth", "refresh"} \cup Writes,
           code \in Codes \cup {NoCode} :
        \/ \E c \in Codes : SelectLink(c)
        \/ /\ Asks(what, by, code) /\ ~ui.authLoading
           /\ what = "login" => by = "auth" /\ ui.session = 0
           /\ what \notin {"login", "reset"} => ui.session # 0
           /\ what = "health" => code \in Codes
  <2> USE <1>1, <1>2 DEF Writes
  <2>1. CASE SubmitAuth
    BY <2>1 DEF SubmitAuth
  <2>2. CASE SubmitReset
    BY <2>2 DEF SubmitReset
  <2>3. CASE Logout \/ CreateLink
    BY <2>3 DEF Logout, CreateLink
  <2>4. CASE ExpireCurrentLink \/ RefreshHealth
    BY <2>4 DEF ExpireCurrentLink, RefreshHealth
  <2>5. CASE StartPlanCheckout \/ CancelCurrentSubscription
    BY <2>5 DEF StartPlanCheckout, CancelCurrentSubscription
  <2>6. CASE RefreshBillingSummary
    BY <2>6 DEF RefreshBillingSummary
  <2>7. CASE ChangeDomain
    BY <2>7 DEF ChangeDomain
  <2>8. CASE \E c \in Codes : SelectLink(c)
    BY <2>8
  <2> QED
    BY <2>1, <2>2, <2>3, <2>4, <2>5, <2>6, <2>7, <2>8 DEF UserAction
<1> QED
  BY <1>3, <1>4, AsksStep

\* The countdown of the selected link ends.
LEMMA LinkEndsStep ==
  ASSUME IInv, LinkEnds
  PROVE  IInv'
<1> DEFINE next == [ui EXCEPT !.links = @ \ {ui.selected}]
<1>1. /\ next \in Ui /\ Own(next, cookie)
      /\ next.session = ui.session /\ next.authLoading = ui.authLoading
  BY ShownIsUi DEF Ui, Own
<1>2. Commit(next, flights) /\ UNCHANGED <<server, cookie>> /\ ui.links # {}
  BY DEF LinkEnds, IInv, TypeOK
<1> HIDE DEF next
<1> QED
  BY <1>1, <1>2, NothingLoading, PageStep

LEMMA OtherTabsStep ==
  ASSUME IInv,
         OtherTabSignsIn \/ OtherTabSignsOut \/ \E s \in Sessions : SessionEnds(s)
  PROVE  IInv'
<1>1. ServerOK
  BY TypeParts DEF IInv
<1>2. /\ ServerOK' /\ UNCHANGED <<ui, flights>>
      /\ \/ issued' = issued /\ cookie' \in {0, cookie}
         \/ issued' = issued + 1 /\ cookie' = issued + 1
  <2>1. CASE OtherTabSignsIn
    BY <1>1, <2>1 DEF OtherTabSignsIn, ServerOK, Sessions, Maybe
  <2>2. CASE OtherTabSignsOut
    BY <1>1, <2>2 DEF OtherTabSignsOut, ServerOK, Maybe
  <2>3. CASE \E s \in Sessions : SessionEnds(s)
    BY <1>1, <2>3 DEF SessionEnds, ServerOK
  <2> QED
    BY <2>1, <2>2, <2>3
<1> QED
  BY <1>2, ServerStep

-----------------------------------------------------------------------------
(* Answers *)

\* An answer that changes at most the page.
LEMMA AnswerStep ==
  ASSUME IInv, NEW f \in flights, f.by # "restore", NEW next \in Ui,
         ~next.authLoading, next.session \in {0, ui.session}, Own(next, cookie),
         Commit(next, flights \ {f}), ServerOK',
         issued' = issued, cookie' \in {0, cookie}, next.session = 0 \/ cookie' = cookie
  PROVE  IInv'
<1> DEFINE new == {}
<1>1. new \in SUBSET Flight /\ CommitWith(Carried, next, (flights \ {f}) \cup new)
  BY DEF Commit
<1>2. PageOK' /\ TabInv' /\ OwnData'
  BY <1>1, Answers
<1> QED
  BY <1>2, Together

\* The handler of an answered request goes on.
LEMMA ContinueStep ==
  ASSUME IInv, NEW f \in flights, f.by \notin {"restore", "effect"}, NEW next \in Ui,
         f.session # 0, ~next.authLoading, next.session \in {0, ui.session}, Own(next, cookie),
         NEW what \in Loads, NEW code \in Codes \cup {NoCode},
         Continues(f, next, what, code), UNCHANGED <<server, cookie>>
  PROVE  IInv'
<1> DEFINE g == Send(what, f.by, f.session, code)
           new == {g}
<1>1. what # "login" /\ what \in Loads \cup Writes \cup Public
  BY DEF Loads
<1>2. /\ f.by \in {"effect", "restore", "auth", "refresh"} \cup Writes
      /\ f.session \in Maybe
  BY ShownIsUi DEF Flight
<1>3. /\ g \in Flight /\ g.what = what /\ g.by = f.by /\ ~g.cancelled
      /\ g.session = f.session /\ g.cookie = Carried
  <2>1. PICK by \in {"effect", "restore", "auth", "refresh"} \cup Writes, session \in Maybe :
          by = f.by /\ session = f.session
    BY <1>2
  <2>2. LET sent == Send(what, by, session, code)
        IN  /\ sent \in Flight /\ sent.what = what /\ sent.by = by /\ ~sent.cancelled
            /\ sent.session = session /\ sent.cookie = Carried
    BY <1>1, SendIsFlight
  <2>3. g = Send(what, by, session, code)
    BY <2>1
  <2> QED
    BY <2>1, <2>2, <2>3
<1>4. CommitWith(Carried, next, (flights \ {f}) \cup new)
  BY DEF Continues, Commit
<1> HIDE DEF g
<1>5. new \in SUBSET Flight /\ \A h \in new : h = g
  BY <1>3
<1> HIDE DEF new
<1>6. UNCHANGED <<account, issued, valid, cookie>>
  BY DEF server
<1>7. PageOK' /\ TabInv' /\ OwnData'
  <2>1. \A h \in new : /\ h.by = f.by /\ h.by # "effect" /\ h.what \in Loads /\ ~h.cancelled
                       /\ h.session = f.session /\ h.session # 0 /\ h.cookie = Carried
    BY <1>3, <1>5
  <2>2. \A h, k \in new : h = k
    BY <1>5
  <2>3. issued' = issued /\ cookie' \in {0, cookie} /\ (next.session = 0 \/ cookie' = cookie)
    BY <1>6
  <2> QED
    BY <1>4, <1>5, <2>1, <2>2, <2>3, Answers
<1> QED
  BY <1>6, <1>7, TypeParts DEF IInv, TypeOK, PageOK

\* What is asked for before the session is restored is known by its kind.
LEMMA NotRestoring ==
  ASSUME IInv, NEW f \in flights, f.what \notin {"legacy", "me"}
  PROVE  f.by # "restore" /\ ~ui.authLoading
<1>1. f.by # "restore"
  BY DEF IInv, TabInv, RequestsOK
<1> QED
  BY <1>1, NoRestore

\* What an answer is labelled with.
LEMMA LabelIsOwn ==
  ASSUME IInv, NEW f \in flights, f.what \in Loads, f.by # "effect" \/ ~f.cancelled
  PROVE  Label(f, ui.session) \in Maybe /\ OwnedBy(Label(f, ui.session), ui.session, cookie)
<1>1. f.session # 0 /\ OwnedBy(f.cookie, f.session, cookie)
  BY DEF IInv, TabInv, RequestsOK, CookieOK
<1>2. f.by = "effect" => f.session = ui.session
  BY DEF IInv, TabInv, EffectsOK
<1>3. f.cookie \in Maybe /\ 0 \in Maybe
  BY ShownIsUi DEF Flight, Maybe
<1> QED
  BY <1>1, <1>2, <1>3 DEF Label, OwnedBy

\* Only handlers and effects of a session load and write.
LEMMA UnderSession ==
  ASSUME IInv, NEW f \in flights, f.what \in Loads \cup Writes
  PROVE  f.session # 0
  BY DEF IInv, TabInv, RequestsOK

LEMMA ServerStays ==
  ASSUME IInv, UNCHANGED <<server, cookie>>
  PROVE  ServerOK'
  BY TypeParts DEF IInv, ServerOK, server

\* An answer without data of its own: errors, sign-outs, and what leaves the page.
LEMMA PlainAnswers ==
  ASSUME IInv, NEW f \in flights,
         \/ Unauthorized(f) \/ Dropped(f) \/ PasswordReset(f)
         \/ LogoutAnswered(f) \/ CheckoutOrDomainChanged(f)
  PROVE  IInv'
<1>1. f.cancelled => f.by = "effect"
  BY DEF IInv, TabInv, EffectsOK
<1>2. f.by # "restore" /\ ~ui.authLoading
  BY <1>1, NotRestoring, NoRestore
     DEF Unauthorized, Statuses, Public, Dropped, PasswordReset, LogoutAnswered,
         CheckoutOrDomainChanged
<1>3. ServerOK
  BY TypeParts DEF IInv
<1>4. /\ ServerOK' /\ issued' = issued /\ cookie' \in {0, cookie}
      /\ PasswordReset(f) \/ LogoutAnswered(f) \/ cookie' = cookie
  <2>1. CASE PasswordReset(f)
    BY <1>3, <2>1 DEF PasswordReset, ServerOK, Maybe
  <2>2. CASE LogoutAnswered(f)
    BY <1>3, <2>2 DEF LogoutAnswered, ServerOK, Maybe
  <2>3. CASE UNCHANGED <<server, cookie>>
    BY <2>3, ServerStays DEF server
  <2> QED
    BY <2>1, <2>2, <2>3 DEF Unauthorized, Dropped, CheckoutOrDomainChanged
<1>5. PICK next \in {ui, SignedOut, [SignedOut EXCEPT !.authLoading = ui.authLoading]} :
        /\ Commit(next, flights \ {f})
        /\ PasswordReset(f) \/ LogoutAnswered(f) =>
             next \in {SignedOut, [SignedOut EXCEPT !.authLoading = ui.authLoading]}
  BY DEF Unauthorized, Dropped, PasswordReset, LogoutAnswered, CheckoutOrDomainChanged
<1>6. /\ next \in Ui /\ ~next.authLoading /\ Own(next, cookie)
      /\ next.session \in {0, ui.session}
  <2>1. CASE next = [SignedOut EXCEPT !.authLoading = ui.authLoading]
    <3>1. /\ next.authLoading = ui.authLoading /\ next.session = 0
          /\ next.linksOf = 0 /\ next.billing = 0 /\ next.analytics.of = 0
      BY <2>1 DEF SignedOut, NoAnalytics
    <3>2. next \in Ui
      BY <2>1, SignedOutIsUi, ShownIsUi DEF Ui
    <3> QED
      BY <1>2, <3>1, <3>2 DEF Own, OwnedBy
  <2>2. CASE next = ui
    BY <1>2, <2>2, ShownIsUi
  <2>3. CASE next = SignedOut
    BY <2>3, SignedOutIsUi
  <2> QED
    BY <1>5, <2>1, <2>2, <2>3
<1>7. next.session = 0 \/ cookie' = cookie
  BY <1>4, <1>5 DEF SignedOut
<1> QED
  BY <1>2, <1>4, <1>5, <1>6, <1>7, AnswerStep

\* The session the tab begins with: that of the cookie, or none.
LEMMA RestoreStep ==
  ASSUME IInv, NEW f \in flights, RestoreAnswered(f)
  PROVE  IInv'
<1>1. f \in Flight /\ f.by = "restore" /\ ui.authLoading /\ f.what \in {"legacy", "me"}
  BY ShownIsUi DEF RestoreAnswered, IInv, TabInv, RequestsOK
<1>2. \A g \in flights : g = f
  BY <1>1 DEF IInv, TabInv, RestoringOK, RequestsOK
<1>3. /\ Carried \in Maybe /\ Carried \in {0, cookie} /\ 0 \in Maybe
      /\ cookie \in Maybe /\ issued \in Maybe
      /\ CookieOK(ui.session, flights, cookie, issued)
      /\ UNCHANGED server /\ issued' = issued
  BY CookieNow DEF RestoreAnswered, server, Maybe
<1>4. PICK c \in {0, cookie} : cookie' = c
  BY DEF RestoreAnswered
<1>5. PageOK' /\ TabInv' /\ OwnData'
  <2>1. CASE f.what = "legacy"
    <3>1. PICK carried \in {0, Carried} :
            CommitWith(Carried, ui, {SendWith(carried, "me", "restore", 0, NoCode)})
      BY <1>2, <2>1 DEF RestoreAnswered, RestoreWith, Commit
    <3> DEFINE g == SendWith(carried, "me", "restore", 0, NoCode)
    <3>2. /\ g \in Flight /\ g.what = "me" /\ g.by = "restore" /\ ~g.cancelled
          /\ g.session = 0 /\ g.cookie = carried
      BY <1>3 DEF SendWith, Flight, Public
    <3>3. carried \in {0, c} \/ c = 0
      BY <1>3, <1>4
    <3> HIDE DEF g
    <3>4. CommitWith(Carried, ui, {g})
      BY <3>1 DEF g
    <3>5. /\ RestoringOK(ui, {g}) /\ RequestsOK(ui, {g}) /\ EffectsOK(ui.session, {g})
          /\ ui.session = 0
      BY <1>1, <3>2
         DEF IInv, TabInv, RestoringOK, RequestsOK, EffectsOK, Loads, Writes, Loading, SignedOut
    <3>6. CookieOK(ui.session, {g}, c, issued)
      <4>1. carried \in {0, cookie} /\ carried \in Maybe /\ cookie <= issued
        BY <1>3 DEF CookieOK
      <4> QED
        BY <1>3, <1>4, <3>2, <3>3, <3>5, <4>1 DEF CookieOK, Maybe
    <3>7. {g} \in SUBSET Flight /\ c \in Maybe /\ ui \in Ui /\ Own(ui, c)
      BY <1>3, <1>4, <3>2, ShownIsUi, CookieGone
    <3> QED
      BY <1>3, <1>4, <3>4, <3>5, <3>6, <3>7, Committed
  <2>2. CASE f.what # "legacy"
    <3>1. PICK session \in {0, f.cookie} :
            CommitWith(Carried, [SignedOut EXCEPT !.session = session], {}) /\ cookie' = cookie
      BY <1>2, <2>2 DEF RestoreAnswered, Commit
    <3> DEFINE next == [SignedOut EXCEPT !.session = session]
    <3>2. session \in Maybe
      BY <1>1 DEF Flight, Maybe
    <3>3. next \in Ui /\ ~next.authLoading /\ Own(next, cookie) /\ next.session = session
      <4>1. next \in Ui /\ next.session = session
        BY <3>2, SignedOutIsUi DEF Ui
      <4>2. /\ ~next.authLoading /\ next.linksOf = 0 /\ next.billing = 0
            /\ next.analytics.of = 0
        BY DEF SignedOut, NoAnalytics
      <4> QED
        BY <4>1, <4>2 DEF Own, OwnedBy
    <3> HIDE DEF next
    <3>4. RestoringOK(next, {}) /\ RequestsOK(next, {}) /\ EffectsOK(ui.session, {})
      BY <3>3 DEF RestoringOK, RequestsOK, EffectsOK
    <3>5. CookieOK(next.session, {}, cookie, issued)
      BY <1>3, <3>2, <3>3 DEF CookieOK, Maybe
    <3>6. CommitWith(Carried, next, {}) /\ {} \in SUBSET Flight
      BY <3>1 DEF next
    <3> QED
      BY <1>3, <3>1, <3>3, <3>4, <3>5, <3>6, Committed
  <2> QED
    BY <2>1, <2>2
<1>6. ServerOK'
  <2>1. cookie' \in Maybe
    BY <1>3, <1>4
  <2> QED
    BY <1>3, <2>1, TypeParts DEF IInv, ServerOK, server
<1> QED
  BY <1>5, <1>6, Together

\* A sign-in is answered while no session is shown, so nothing is shown that could be another's.
LEMMA SignedInStep ==
  ASSUME IInv, NEW f \in flights, SignedIn(f)
  PROVE  IInv'
<1> DEFINE next == [ui EXCEPT !.session = issued + 1]
           rest == flights \ {f}
<1>1. /\ f.what = "login" /\ f.by = "auth" /\ ui.session = 0 /\ ~ui.authLoading
      /\ issued + 1 \in Maybe
  <2>1. f.what = "login" /\ issued < MaxSessions /\ issued \in Maybe
    BY DEF SignedIn, IInv, TypeOK
  <2>2. issued + 1 \in Maybe
    BY <2>1 DEF Maybe
  <2> QED
    BY <2>1, <2>2, NotRestoring DEF IInv, TabInv, RequestsOK
<1>2. /\ next \in Ui /\ ~next.authLoading /\ next.session = issued + 1
      /\ {next.linksOf, next.billing, next.analytics.of} =
           {ui.linksOf, ui.billing, ui.analytics.of}
  BY <1>1, ShownIsUi DEF Ui
<1>3. CommitWith(issued + 1, next, rest)
  BY DEF SignedIn
<1>4. rest \in SUBSET Flight
  BY ShownIsUi
<1> HIDE DEF next
<1>5. Own(next, issued + 1)
  <2>1. \A of \in {ui.linksOf, ui.billing, ui.analytics.of} : of = 0
    BY <1>1, ShownIsUi DEF Own, OwnedBy, Ui, Maybe
  <2> QED
    BY <1>2, <2>1 DEF Own, OwnedBy
<1>6. RestoringOK(next, rest) /\ EffectsOK(ui.session, rest)
  BY <1>2 DEF RestoringOK, EffectsOK, IInv, TabInv
<1>7. RequestsOK(next, rest)
  BY <1>1 DEF RequestsOK, IInv, TabInv
<1>8. CookieOK(next.session, rest, issued + 1, issued + 1)
  <2>1. CookieOK(ui.session, flights, issued + 1, issued + 1)
    BY CookieNow, CookieReplaced, ShownIsUi DEF Ui
  <2> QED
    BY <1>1, <1>2, <2>1 DEF CookieOK, Maybe
<1>9. issued' = issued + 1 /\ cookie' = issued + 1
  BY DEF SignedIn
<1> HIDE DEF rest
<1>10. PageOK' /\ TabInv' /\ OwnData'
  BY <1>1, <1>2, <1>3, <1>4, <1>5, <1>6, <1>7, <1>8, <1>9, Committed
<1>11. ServerOK'
  BY <1>1, TypeParts DEF IInv, ServerOK, SignedIn, Sessions, Maybe
<1> QED
  BY <1>10, <1>11, Together

\* The page of somebody, or a page signed out.
PageOf(next) ==
  /\ next \in Ui /\ Own(next, cookie) /\ next.authLoading = ui.authLoading
  /\ next.session = ui.session

LEMMA ShownAnswers ==
  ASSUME IInv, NEW f \in flights, f.what \in Loads, f.by # "effect" \/ ~f.cancelled
  PROVE  PageOf(AnalyticsShown(f)) /\ PageOf(BillingShown(f))
<1>1. PICK label \in Maybe : label = Label(f, ui.session) /\ OwnedBy(label, ui.session, cookie)
  BY LabelIsOwn
<1>2. ui \in Ui /\ Own(ui, cookie) /\ f.code \in Codes \cup {NoCode}
  BY ShownIsUi DEF Flight
<1>3. PageOf([ui EXCEPT !.analytics = [code |-> f.code, of |-> label]])
  <2> DEFINE next == [ui EXCEPT !.analytics = [code |-> f.code, of |-> label]]
  <2>1. next \in Ui
    BY <1>2 DEF Ui
  <2>2. /\ next.session = ui.session /\ next.authLoading = ui.authLoading
        /\ next.linksOf = ui.linksOf /\ next.billing = ui.billing /\ next.analytics.of = label
    BY <1>2 DEF Ui
  <2> QED
    BY <1>1, <1>2, <2>1, <2>2 DEF PageOf, Own
<1>4. PageOf([ui EXCEPT !.billing = label])
  <2> DEFINE next == [ui EXCEPT !.billing = label]
  <2>1. next \in Ui
    BY <1>2 DEF Ui
  <2>2. /\ next.session = ui.session /\ next.authLoading = ui.authLoading
        /\ next.linksOf = ui.linksOf /\ next.billing = label /\ next.analytics = ui.analytics
    BY <1>2 DEF Ui
  <2> QED
    BY <1>1, <1>2, <2>1, <2>2 DEF PageOf, Own
<1> QED
  BY <1>1, <1>3, <1>4 DEF AnalyticsShown, BillingShown

\* Loads of effects and of handlers: what is shown is labelled with the session shown, or with none.
LEMMA LoadAnswers ==
  ASSUME IInv, NEW f \in flights,
         LinksLoaded(f) \/ AnalyticsLoaded(f) \/ BillingLoaded(f)
  PROVE  IInv'
<1>1. ~f.cancelled /\ f.what \in Loads /\ UNCHANGED <<server, cookie>>
  BY DEF LinksLoaded, AnalyticsLoaded, BillingLoaded, Loads
<1>2. f.by # "restore" /\ ~ui.authLoading
  BY <1>1, NotRestoring DEF Loads
<1>3. PICK label \in Maybe : label = Label(f, ui.session) /\ OwnedBy(label, ui.session, cookie)
  BY <1>1, LabelIsOwn
<1>4. ASSUME NEW next, PageOf(next), Commit(next, flights \ {f})
      PROVE  IInv'
  BY <1>1, <1>2, <1>4, ServerStays, AnswerStep DEF PageOf, server
<1>5. ui \in Ui /\ Own(ui, cookie) /\ f \in Flight
  BY ShownIsUi
<1>6. CASE LinksLoaded(f)
  <2>1. PICK links \in SUBSET Codes :
          Commit([ui EXCEPT !.links = links, !.linksOf = label], flights \ {f})
    BY <1>3, <1>6 DEF LinksLoaded
  <2> DEFINE next == [ui EXCEPT !.links = links, !.linksOf = label]
  <2>2. PageOf(next)
    <3>1. next \in Ui
      BY <1>5 DEF Ui
    <3>2. /\ next.session = ui.session /\ next.authLoading = ui.authLoading
          /\ next.linksOf = label /\ next.billing = ui.billing /\ next.analytics = ui.analytics
      BY <1>5 DEF Ui
    <3> QED
      BY <1>3, <1>5, <3>1, <3>2 DEF PageOf, Own
  <2> HIDE DEF next
  <2>3. Commit(next, flights \ {f})
    BY <2>1 DEF next
  <2> QED
    BY <1>4, <2>2, <2>3
<1>7. CASE AnalyticsLoaded(f)
  BY <1>1, <1>4, <1>7, ShownAnswers DEF AnalyticsLoaded
<1>8. CASE BillingLoaded(f)
  BY <1>1, <1>4, <1>8, ShownAnswers DEF BillingLoaded
<1> QED
  BY <1>6, <1>7, <1>8

LEMMA OutcomeIs ==
  ASSUME NEW status, NEW shown
  PROVE  Outcome(status, shown) \in {shown, SignedOut, ui}
  BY DEF Outcome

\* A link put on the list or taken off it.
LEMMA UpsertedIsPage ==
  ASSUME IInv, NEW code \in Codes, NEW usable \in BOOLEAN
  PROVE  PageOf(Upserted(code, usable))
<1>1. PICK links \in SUBSET Codes : Upserted(code, usable) = [ui EXCEPT !.links = links]
  BY ShownIsUi DEF Upserted, Ui
<1> QED
  BY <1>1, ShownIsUi DEF PageOf, Ui, Own

\* A handler of a button: its answers are neither an effect's nor the restore's.
LEMMA HandlerContinues ==
  ASSUME IInv, NEW f \in flights, f.by \notin {"restore", "effect"}, f.session # 0, NEW next,
         PageOf(next) \/ next = SignedOut,
         NEW what \in Loads, NEW code \in Codes \cup {NoCode},
         Continues(f, next, what, code), UNCHANGED <<server, cookie>>
  PROVE  IInv'
<1>1. ~ui.authLoading
  BY NoRestore
<1>2. next \in Ui /\ ~next.authLoading /\ Own(next, cookie) /\ next.session \in {0, ui.session}
  BY <1>1, SignedOutIsUi DEF PageOf
<1> QED
  BY <1>2, ContinueStep

LEMMA HandlerAnswers ==
  ASSUME IInv, NEW f \in flights,
         LinkCreated(f) \/ LinkExpired(f) \/ HealthRefreshed(f) \/ BillingChanged(f)
  PROVE  IInv'
<1>1. /\ f.by \notin {"restore", "effect"} /\ ~ui.authLoading
      /\ UNCHANGED <<server, cookie>> /\ f \in Flight /\ f.session # 0
  <2>1. UNCHANGED <<server, cookie>> /\ f \in Flight
    BY ShownIsUi DEF LinkCreated, LinkExpired, HealthRefreshed, BillingChanged
  <2>2. f.by \in {"create", "expire"} \/ f.what \in {"health", "sync", "cancel"}
    BY DEF LinkCreated, LinkExpired, HealthRefreshed, BillingChanged
  <2>3. f.by \notin {"restore", "effect"}
    BY <2>2 DEF IInv, TabInv, RequestsOK, EffectsOK, Loads
  <2>4. f.what \in Loads \cup Writes
    BY DEF LinkCreated, LinkExpired, HealthRefreshed, BillingChanged, Loads, Writes
  <2> QED
    BY <2>1, <2>3, <2>4, NoRestore, UnderSession
<1>2. /\ {"analytics", "billing"} \subseteq Loads
      /\ PageOf(ui) /\ f.code \in Codes \cup {NoCode} /\ NoCode \in Codes \cup {NoCode}
  BY <1>1, ShownIsUi DEF Loads, PageOf, Flight
<1>3. ASSUME NEW next, PageOf(next) \/ next = SignedOut,
             NEW what \in {"analytics", "billing"}, NEW code \in Codes \cup {NoCode},
             Continues(f, next, what, code)
      PROVE  IInv'
  BY <1>1, <1>2, <1>3, HandlerContinues
<1>4. ASSUME NEW status, NEW shown \in {AnalyticsShown(f), BillingShown(f)}, f.what \in Loads
      PROVE  PageOf(Outcome(status, shown)) \/ Outcome(status, shown) = SignedOut
  BY <1>1, <1>2, <1>4, OutcomeIs, ShownAnswers
<1>5. CASE LinkCreated(f)
  <2>1. CASE \E code \in Codes : Continues(f, [Upserted(code, TRUE) EXCEPT !.selected = code],
                                          "analytics", code)
    <3>1. PICK code \in Codes : Continues(f, [Upserted(code, TRUE) EXCEPT !.selected = code],
                                          "analytics", code)
      BY <2>1
    <3>2. PageOf(Upserted(code, TRUE))
      BY UpsertedIsPage
    <3>3. PageOf([Upserted(code, TRUE) EXCEPT !.selected = code])
      BY <3>2 DEF PageOf, Ui, Own
    <3> QED
      BY <1>3, <3>1, <3>3
  <2>2. CASE /\ f.what = "analytics"
             /\ \E status \in Statuses(f) :
                  Continues(f, Outcome(status, AnalyticsShown(f)), "billing", NoCode)
    BY <1>2, <1>3, <1>4, <2>2
  <2> QED
    BY <1>5, <2>1, <2>2 DEF LinkCreated
<1>6. CASE LinkExpired(f)
  <2>1. CASE Continues(f, ui, "billing", f.code)
    BY <1>2, <1>3, <2>1
  <2>2. ASSUME NEW status \in Statuses(f), NEW links \in SUBSET (Codes \ {f.code}), NEW shown,
               shown = Outcome(status, BillingShown(f)), f.what = "billing",
               Commit([shown EXCEPT !.links = links, !.selected = NoCode,
                                    !.linksOf = IF f.session = shown.session THEN @ ELSE 0],
                      flights \ {f})
        PROVE  IInv'
    <3>1. /\ shown \in Ui /\ Own(shown, cookie) /\ ~shown.authLoading
          /\ shown.session \in {0, ui.session}
      <4>1. PageOf(shown) \/ shown = SignedOut
        BY <1>2, <1>4, <2>2
      <4> QED
        BY <1>1, <4>1, SignedOutIsUi DEF PageOf
    <3>2. PICK label \in {0, shown.linksOf} :
            Commit([shown EXCEPT !.links = links, !.selected = NoCode, !.linksOf = label],
                   flights \ {f})
      BY <2>2, <3>1 DEF Ui
    <3> DEFINE next == [shown EXCEPT !.links = links, !.selected = NoCode, !.linksOf = label]
    <3>3. next \in Ui
      <4>1. label \in Maybe
        BY <3>1 DEF Ui, Maybe
      <4>2. links \in SUBSET Codes
        OBVIOUS
      <4> QED
        BY <3>1, <4>1, <4>2 DEF Ui
    <3>4. /\ next.session = shown.session /\ next.authLoading = shown.authLoading
          /\ next.linksOf = label /\ next.billing = shown.billing
          /\ next.analytics = shown.analytics
      BY <3>1 DEF Ui
    <3>5. Commit(next, flights \ {f})
      BY <3>2
    <3> HIDE DEF next
    <3>6. Own(next, cookie)
      BY <3>1, <3>2, <3>4 DEF Own, OwnedBy
    <3> QED
      BY <1>1, <3>1, <3>3, <3>4, <3>5, <3>6, ServerStays, AnswerStep DEF server
  <2> QED
    BY <1>6, <2>1, <2>2 DEF LinkExpired
<1>7. CASE HealthRefreshed(f)
  <2>1. f.code \in Codes
    BY <1>7 DEF HealthRefreshed, IInv, TabInv, RequestsOK
  <2>2. PICK usable \in BOOLEAN : Continues(f, Upserted(f.code, usable), "analytics", f.code)
    BY <1>7 DEF HealthRefreshed
  <2>3. PageOf(Upserted(f.code, usable))
    BY <2>1, UpsertedIsPage
  <2> QED
    BY <1>2, <1>3, <2>2, <2>3
<1>8. CASE BillingChanged(f)
  BY <1>2, <1>3, <1>8 DEF BillingChanged
<1> QED
  BY <1>5, <1>6, <1>7, <1>8

-----------------------------------------------------------------------------
(* The theorems *)

LEMMA InitHolds == Init => IInv
<1> SUFFICES ASSUME Init PROVE IInv
  OBVIOUS
<1>1. ServerOK
  <2>1. issued \in Maybe /\ 1..issued \subseteq Sessions /\ 0..issued \subseteq Maybe
    BY DEF Init, Maybe, Sessions
  <2> QED
    BY <2>1 DEF Init, ServerOK
<1>2. /\ ui = Loading /\ ui \in Ui /\ Own(ui, cookie) /\ ui.authLoading /\ ui.session = 0
      /\ ui.links = {} /\ ui.selected = NoCode
  <2>1. ui = [SignedOut EXCEPT !.authLoading = TRUE]
    BY DEF Init
  <2>2. ui \in Ui
    BY <2>1, SignedOutIsUi DEF Ui
  <2>3. /\ ui.authLoading /\ ui.session = 0 /\ ui.links = {} /\ ui.selected = NoCode
        /\ ui.linksOf = 0 /\ ui.billing = 0 /\ ui.analytics.of = 0
    BY <2>1 DEF SignedOut, NoAnalytics
  <2> QED
    BY <2>1, <2>2, <2>3 DEF Loading, Own, OwnedBy
<1>3. PICK what \in {"legacy", "me"} : flights = {Send(what, "restore", 0, NoCode)}
  BY DEF Init
<1>4. PICK f \in Flight : /\ flights = {f} /\ f.what = what /\ f.by = "restore" /\ ~f.cancelled
                         /\ f.session = 0 /\ f.cookie = Carried
  <2>1. Carried \in Maybe /\ 0 \in Maybe
    BY <1>1, CarriedIsSession DEF Maybe
  <2>2. what \in Public
    BY DEF Public
  <2>3. LET sent == SendWith(Carried, what, "restore", 0, NoCode)
        IN  /\ sent \in Flight /\ sent.what = what /\ sent.by = "restore" /\ ~sent.cancelled
            /\ sent.session = 0 /\ sent.cookie = Carried
    BY <2>1, <2>2 DEF SendWith, Flight
  <2> QED
    BY <1>3, <2>3 DEF Send
<1>5. TypeOK
  BY <1>1, <1>2, <1>4, TypeParts DEF PageOK
<1>6. TabInv
  <2>1. RestoringOK(ui, flights) /\ RequestsOK(ui, flights) /\ EffectsOK(ui.session, flights)
    BY <1>2, <1>4 DEF RestoringOK, RequestsOK, EffectsOK, Loads, Writes
  <2>2. cookie \in 0..issued /\ issued \in Nat /\ Carried \in {0, cookie}
    BY <1>1, CarriedIsSession DEF Init, Maybe
  <2>3. CookieOK(ui.session, flights, cookie, issued)
    BY <1>2, <1>4, <2>2 DEF CookieOK
  <2> QED
    BY <2>1, <2>3 DEF TabInv
<1> QED
  BY <1>2, <1>5, <1>6, OwnIsShown DEF IInv

LEMMA Inductive == IInv /\ [Next]_vars => IInv'
<1> SUFFICES ASSUME IInv, [Next]_vars PROVE IInv'
  OBVIOUS
<1>1. ASSUME NEW f \in flights, Answered(f) PROVE IInv'
  BY <1>1, PlainAnswers, RestoreStep, SignedInStep, LoadAnswers, HandlerAnswers DEF Answered
<1>2. CASE UNCHANGED vars
  <2>1. ServerOK' /\ issued' = issued /\ cookie' = cookie
    BY <1>2, TypeParts DEF IInv, ServerOK, vars
  <2> QED
    BY <1>2, <2>1, ServerStep DEF vars
<1> QED
  BY <1>1, <1>2, UserStep, LinkEndsStep, OtherTabsStep DEF Next

\* The inductive invariant holds in every reachable state.
THEOREM Invariant == Spec => []IInv
<1>1. Init => IInv
  BY InitHolds
<1>2. IInv /\ [Next]_vars => IInv'
  BY Inductive
<1> QED
  BY <1>1, <1>2, PTL DEF Spec

(***************************************************************************)
(* The page, the requests and what is selected keep their types: among     *)
(* others, a link is selected if and only if one is shown, and it is one   *)
(* of those (the effects of App.jsx).                                      *)
(***************************************************************************)
THEOREM TypeCorrect == Spec => []TypeOK
<1>1. IInv => TypeOK
  BY DEF IInv
<1> QED
  BY <1>1, Invariant, PTL

(***************************************************************************)
(* A list, analytics or billing summary that an effect has loaded is of    *)
(* the session shown, or of a later one to which another tab has changed   *)
(* the browser's cookie: never of an earlier session, however late it is   *)
(* answered, and never when nobody is signed in (the cancelled flags of    *)
(* App.jsx's effects; that sessions are issued in order, and that a cookie *)
(* once replaced does not come back, makes the rest of the invariant).     *)
(***************************************************************************)
THEOREM ShownDataIsOwn == Spec => []OwnData
<1>1. IInv => OwnData
  BY DEF IInv
<1> QED
  BY <1>1, Invariant, PTL
=============================================================================
