------------------------------- MODULE Accounts -------------------------------
(***************************************************************************)
(* One e-mail address: its account, its sessions and the mails with        *)
(* one-time tokens (controllers/authController.js), and the check of every *)
(* signed-in request (middleware/authMiddleware.js).                       *)
(*                                                                         *)
(* A handler is a few operations on MongoDB, other requests run between    *)
(* any two of them, and it may end at each of them with an error.  A token *)
(* is the number it was drawn with; a password is known by the token that  *)
(* set it, 0 being the one chosen on registration.  Processes agree on the *)
(* time.                                                                   *)
(***************************************************************************)
EXTENDS Naturals

CONSTANTS
  Browsers,      \* browsers of the owner of the address
  MaxTokens,     \* bound: action tokens drawn
  MaxSessions,   \* bound: sessions issued
  MaxTime        \* bound of the clock

ASSUME AccountsAssumption == {MaxTokens, MaxSessions, MaxTime} \subseteq Nat

VARIABLES
  now,       \* Date.now()
  user,      \* the User document, and whether its Workspace exists
  session,   \* session[s]: the Session document, s in order of creation
  issued,    \* number of sessions created so far
  cookie,    \* cookie[b]: session of the browser's cookie, 0 for none
  drawn,     \* number of action tokens drawn so far
  inbox,     \* tokens the owner of the address has received
  revoked,   \* history: sessions up to this one were issued before a reset that succeeded read the clock
  request    \* request[b]: where the browser's request is

vars == <<now, user, session, issued, cookie, drawn, inbox, revoked, request>>

Times == 0..MaxTime
Tokens == 1..MaxTokens
Sessions == 1..MaxSessions

Never == MaxTime + 1   \* passwordChangedAt null

\* has: the account has a workspace.  pw: passwordHash.  A token stays until it is spent or replaced; that it has expired, or that one was asked for within the cooldown, may hold whenever a handler asks, which then ends early.
User == [exists : BOOLEAN, has : BOOLEAN, pw : 0..MaxTokens,
         changed : Times \cup {Never}, verified : BOOLEAN,
         resetToken : 0..MaxTokens, verifyToken : 0..MaxTokens]

Session == [live : BOOLEAN, created : Times]

Routes == {"register", "login", "forgot", "reset", "verify", "resend"}

\* time: what the handler has read from the clock; token: one it was given or has drawn; pw, verified: of the user it has loaded.
Request == [at : {"idle", "creating", "equipping", "saving", "issuing", "setting",
                  "mailing", "resetting", "cleaning", "found", "authorized"} \cup Routes,
            route : Routes \cup {"none"}, time : Times, token : 0..MaxTokens,
            pw : 0..MaxTokens, verified : BOOLEAN, upTo : 0..MaxSessions,
            session : 0..MaxSessions]

IdleRequest == [at |-> "idle", route |-> "none", time |-> 0, token |-> 0, pw |-> 0,
                verified |-> FALSE, upTo |-> 0, session |-> 0]

NoUser == [exists |-> FALSE, has |-> FALSE, pw |-> 0, changed |-> Never, verified |-> FALSE,
           resetToken |-> 0, verifyToken |-> 0]

Init ==
  /\ now = 0
  /\ user = NoUser
  /\ session = [s \in Sessions |-> [live |-> FALSE, created |-> 0]]
  /\ issued = 0
  /\ cookie = [b \in Browsers |-> 0]
  /\ drawn = 0
  /\ inbox = {}
  /\ revoked = 0
  /\ request = [b \in Browsers |-> IdleRequest]

Ends(b) == request' = [request EXCEPT ![b] = IdleRequest]
Goes(b, at) == request' = [request EXCEPT ![b].at = at]

store == <<user, session, issued, drawn, inbox, revoked>>

\* The session whose token the Cookie header of b carries, 0 without that cookie.
getSessionCookieToken(b) == cookie[b]

\* The browser keeps the cookie it has when the answer is lost.
setSessionCookie(b, s) == cookie' \in {cookie, [cookie EXCEPT ![b] = s]}
clearSessionCookie(b) == setSessionCookie(b, 0)

\* A bearer token outranks the cookie; the answer that sets a cookie carries the token too,
\* and whoever got it may have kept it.
getAuthCredentials(b) == {getSessionCookieToken(b)} \cup 1..issued

-----------------------------------------------------------------------------
\* A request to one of the public routes, which the rate limiter lets through.
Arrive(b, route) ==
  /\ request[b].at = "idle"
  /\ request' = [request EXCEPT ![b] =
       [IdleRequest EXCEPT !.at = route, !.route = route,
                           !.session = IF route \in {"register", "login"}
                                       THEN getSessionCookieToken(b) ELSE 0]]
  /\ UNCHANGED <<now, cookie, store>>

-----------------------------------------------------------------------------
(* register, login and the session they issue *)

\* Consents, strength and governed domains are checked here too.
RegisterCheck(b) ==
  /\ request[b].at = "register" /\ ~user.exists
  /\ Goes(b, "creating")
  /\ UNCHANGED <<now, cookie, store>>

\* createActionToken and User.create: the index on email is unique.
CreateUser(b) ==
  /\ request[b].at = "creating" /\ ~user.exists /\ drawn < MaxTokens
  /\ drawn' = drawn + 1
  /\ user' = [NoUser EXCEPT !.exists = TRUE, !.verifyToken = drawn + 1]
  /\ request' = [request EXCEPT ![b].at = "equipping", ![b].token = drawn + 1]
  /\ UNCHANGED <<now, session, issued, cookie, inbox, revoked>>

\* Workspace.create, with the user as owner.
CreateWorkspace(b) ==
  /\ request[b].at = "equipping"
  /\ user' = [user EXCEPT !.has = TRUE]
  /\ Goes(b, "saving")
  /\ UNCHANGED <<now, session, issued, cookie, drawn, inbox, revoked>>

\* Any password the account ever had is tried; the loaded user decides.
LoadForLogin(b, pw) ==
  /\ request[b].at = "login"
  /\ user.exists /\ pw = user.pw /\ user.has
  /\ request' = [request EXCEPT ![b].at = "saving", ![b].pw = pw, ![b].verified = user.verified]
  /\ UNCHANGED <<now, cookie, store>>

SaveUser_WholeCopy(b) ==
  /\ request[b].at = "saving"
  /\ user' = IF request[b].route = "login"
             THEN [user EXCEPT !.pw = request[b].pw, !.verified = request[b].verified] ELSE user
  /\ Goes(b, "issuing")
  /\ UNCHANGED <<now, session, issued, cookie, drawn, inbox, revoked>>

\* user.save() writes the changed fields (defaultWorkspaceId, lastLoginAt),
\* not the loaded document.
SaveUser(b) ==
  /\ request[b].at = "saving"
  /\ request' = [request EXCEPT ![b].at = "issuing", ![b].pw = 0, ![b].verified = FALSE]
  /\ UNCHANGED <<now, cookie, store>>

\* issueSession: first the session of the request's cookie is deleted ...
DeletePrevious(b) ==
  LET s == request[b].session IN
  /\ request[b].at = "issuing"
  /\ session' = IF s = 0 THEN session ELSE [session EXCEPT ![s].live = FALSE]
  /\ request' = [request EXCEPT ![b].at = "setting", ![b].session = 0]
  /\ UNCHANGED <<now, user, issued, cookie, drawn, inbox, revoked>>

CreateSession_OneMore(b) ==
  /\ request[b].at = "setting" /\ issued < MaxSessions
  /\ issued' = issued + 1
  /\ session' = [session EXCEPT ![issued + 1] = [live |-> TRUE, created |-> now]]
  /\ cookie' = [cookie EXCEPT ![b] = issued + 2]
  /\ IF request[b].route = "register" THEN Goes(b, "mailing") ELSE Ends(b)
  /\ UNCHANGED <<now, user, drawn, inbox, revoked>>

\* ... then one is created, and the request answered or, after a registration, a mail sent first.
CreateSession(b) ==
  /\ request[b].at = "setting" /\ issued < MaxSessions
  /\ issued' = issued + 1
  /\ session' = [session EXCEPT ![issued + 1] = [live |-> TRUE, created |-> now]]
  /\ setSessionCookie(b, issued + 1)
  /\ IF request[b].route = "register" THEN Goes(b, "mailing") ELSE Ends(b)
  /\ UNCHANGED <<now, user, drawn, inbox, revoked>>

-----------------------------------------------------------------------------
(* One-time tokens by mail *)

\* One findOneAndUpdate stores the token, unless one was asked for recently.
RequestPasswordReset(b) ==
  /\ request[b].at = "forgot" /\ user.exists /\ drawn < MaxTokens
  /\ drawn' = drawn + 1
  /\ user' = [user EXCEPT !.resetToken = drawn + 1]
  /\ request' = [request EXCEPT ![b].at = "mailing", ![b].token = drawn + 1]
  /\ UNCHANGED <<now, session, issued, cookie, inbox, revoked>>

ResendEmailVerification(b) ==
  /\ request[b].at = "resend" /\ user.exists /\ ~user.verified
  /\ drawn < MaxTokens
  /\ drawn' = drawn + 1
  /\ user' = [user EXCEPT !.verifyToken = drawn + 1]
  /\ request' = [request EXCEPT ![b].at = "mailing", ![b].token = drawn + 1]
  /\ UNCHANGED <<now, session, issued, cookie, inbox, revoked>>

\* Its failure is logged only; a mail may arrive although its request timed out.
sendTransactionalEmail(b) ==
  /\ request[b].at = "mailing"
  /\ inbox' \in {inbox, inbox \cup {request[b].token}}
  /\ Ends(b)
  /\ UNCHANGED <<now, user, session, issued, cookie, drawn, revoked>>

SendEmailVerification(b) == request[b].route \in {"register", "resend"} /\ sendTransactionalEmail(b)
SendPasswordResetEmail(b) == request[b].route = "forgot" /\ sendTransactionalEmail(b)

VerifyEmail(b, token) ==
  /\ request[b].at = "verify" /\ token \in inbox
  /\ user' = IF user.verifyToken = token
             THEN [user EXCEPT !.verified = TRUE, !.verifyToken = 0]
             ELSE user
  /\ Ends(b)
  /\ UNCHANGED <<now, session, issued, cookie, drawn, inbox, revoked>>

\* resetPassword reads the clock before it updates the account.
ReadClock(b, token) ==
  /\ request[b].at = "reset" /\ token \in inbox
  /\ request' = [request EXCEPT ![b].at = "resetting", ![b].token = token,
                                ![b].session = 0,
                                ![b].time = now, ![b].upTo = issued]
  /\ UNCHANGED <<now, cookie, store>>

ResetPassword(b) ==
  LET token == request[b].token IN
  /\ request[b].at = "resetting" /\ user.resetToken = token
  /\ user' = [user EXCEPT !.pw = token, !.changed = request[b].time, !.resetToken = 0]
  /\ revoked' = request[b].upTo
  /\ request' = [request EXCEPT ![b] = [IdleRequest EXCEPT !.at = "cleaning"]]
  /\ UNCHANGED <<now, session, issued, cookie, drawn, inbox>>

\* Session.deleteMany may fail; the answer clears the cookie all the same.
CleanUp(b) ==
  /\ request[b].at = "cleaning"
  /\ session' \in {session, [s \in Sessions |-> [session[s] EXCEPT !.live = FALSE]]}
  /\ clearSessionCookie(b)
  /\ Ends(b)
  /\ UNCHANGED <<now, user, issued, drawn, inbox, revoked>>

-----------------------------------------------------------------------------
(* Signed-in requests *)

\* requireAuth finds the session of the request's token ...
FindSession(b) ==
  /\ request[b].at = "idle"
  /\ \E s \in getAuthCredentials(b) \ {0} :
       /\ session[s].live
       /\ request' = [request EXCEPT ![b] = [IdleRequest EXCEPT !.at = "found", !.session = s]]
  /\ UNCHANGED <<now, cookie, store>>

\* ownerId of the workspace decides; no code makes anybody else a member.
getWorkspaceRole == IF user.has THEN "owner" ELSE ""

Outdated_Before(s) == user.changed # Never /\ session[s].created < user.changed

Outdated(s) == user.changed # Never /\ session[s].created <= user.changed

\* ... and judges it by the account it loads next.
LoadUser(b) ==
  LET s == request[b].session IN
  /\ request[b].at = "found"
  /\ IF Outdated(s) \/ getWorkspaceRole = ""
     THEN Ends(b) /\ session' \in {session, [session EXCEPT ![s].live = FALSE]}
     ELSE Goes(b, "authorized") /\ UNCHANGED session
  /\ UNCHANGED <<now, user, issued, cookie, drawn, inbox, revoked>>

\* getCurrentSession and every other handler; requireVerifiedEmail.
Serve(b) ==
  /\ request[b].at = "authorized"
  /\ Ends(b)
  /\ UNCHANGED <<now, cookie, store>>

\* The answer clears the cookie even when the session cannot be deleted.
Logout(b) ==
  LET s == request[b].session IN
  /\ request[b].at = "authorized"
  /\ session' \in {session, [session EXCEPT ![s].live = FALSE]}
  /\ clearSessionCookie(b)
  /\ Ends(b)
  /\ UNCHANGED <<now, user, issued, drawn, inbox, revoked>>

-----------------------------------------------------------------------------
\* An early return (an address taken, a wrong password or token, a cooldown, an expiry)
\* or an error, the process's death included.
RequestEnds(b) ==
  /\ request[b].at \notin {"idle", "authorized"}
  /\ Ends(b)
  /\ UNCHANGED <<now, cookie, store>>

Tick ==
  /\ now < MaxTime
  /\ now' = now + 1
  /\ UNCHANGED <<cookie, store, request>>

Handler(b) ==
  \/ RegisterCheck(b) \/ CreateUser(b) \/ CreateWorkspace(b)
  \/ \E pw \in 0..MaxTokens : LoadForLogin(b, pw)
  \/ SaveUser(b) \/ DeletePrevious(b) \/ CreateSession(b)
  \/ RequestPasswordReset(b) \/ ResendEmailVerification(b)
  \/ SendEmailVerification(b) \/ SendPasswordResetEmail(b)
  \/ \E token \in Tokens : VerifyEmail(b, token) \/ ReadClock(b, token)
  \/ ResetPassword(b) \/ CleanUp(b)
  \/ FindSession(b) \/ LoadUser(b) \/ Serve(b) \/ Logout(b)
  \/ RequestEnds(b)

Next ==
  \/ \E b \in Browsers : \/ \E route \in Routes : Arrive(b, route)
                         \/ Handler(b)
  \/ Tick

Spec == Init /\ [][Next]_vars

-----------------------------------------------------------------------------
TypeOK ==
  /\ now \in Times
  /\ user \in User
  /\ session \in [Sessions -> Session]
  /\ issued \in 0..MaxSessions
  /\ cookie \in [Browsers -> 0..MaxSessions]
  /\ drawn \in 0..MaxTokens
  /\ inbox \subseteq Tokens
  /\ revoked \in 0..MaxSessions
  /\ request \in [Browsers -> Request]

(***************************************************************************)
(* "all existing sessions will be signed out after the reset": no request  *)
(* that loads the user after a reset is let in under a session issued      *)
(* before that reset, although its clean-up failed or is still to come.    *)
(***************************************************************************)
OldSessionsEnd ==
  [][\A b \in Browsers :
       request[b].at = "found" /\ request'[b].at = "authorized"
         => request[b].session > revoked]_vars

(***************************************************************************)
(* The password changes only by spending the latest token that was mailed, *)
(* and verification is never undone: the save of a login that loaded the   *)
(* account earlier brings back neither, and no older link works.           *)
(***************************************************************************)
AccountNeverGoesBack ==
  [][user.exists =>
       /\ user'.pw # user.pw =>
            user'.pw > user.pw /\ user'.pw \in inbox /\ user'.resetToken = 0
       /\ user.verified => user'.verified]_vars
=============================================================================
