---------------------------- MODULE AccountsProofs ----------------------------
(***************************************************************************)
(* Proofs about accounts, sessions and one-time tokens, for any number of  *)
(* browsers, tokens and sessions and any bound of the clock.               *)
(***************************************************************************)
EXTENDS Accounts, TLAPS

USE AccountsAssumption

\* No session was created later than now.
CreatedInv == \A s \in Sessions : session[s].created <= now

(***************************************************************************)
(* A reset that succeeded left the account with a time of change that      *)
(* outdates every session issued before the reset read the clock.          *)
(***************************************************************************)
RevokedInv ==
  /\ revoked <= issued
  /\ \A s \in 1..revoked : user.changed # Never /\ session[s].created <= user.changed

\* A reset under way will do so: what it read from the clock is late enough.
ResettingInv ==
  \A b \in Browsers : request[b].at = "resetting" =>
    /\ request[b].upTo <= issued
    /\ request[b].token \in inbox
    /\ \A s \in 1..request[b].upTo : session[s].created <= request[b].time

\* A request that has found a session names it.
FoundInv == \A b \in Browsers : request[b].at = "found" => request[b].session # 0

(***************************************************************************)
(* Tokens are numbered upwards: the one a reset waits for is newer than    *)
(* the one that set the password.  Nothing is reset before there is an     *)
(* account.                                                                *)
(***************************************************************************)
TokenInv ==
  /\ user.pw <= drawn /\ user.resetToken <= drawn
  /\ user.resetToken # 0 => user.resetToken > user.pw
  /\ ~user.exists => user.changed = Never /\ user.resetToken = 0

\* A request that mails a token, now or after the session of a registration, has drawn one.
MailReady(r) ==
  /\ r.at \in Routes => r.route = r.at
  /\ \/ r.at \in {"equipping", "mailing"}
     \/ r.at \in {"saving", "issuing", "setting"} /\ r.route = "register"
     => r.token # 0

MailInv == \A b \in Browsers : MailReady(request[b])

IInv == TypeOK /\ MailInv /\ CreatedInv /\ RevokedInv /\ ResettingInv /\ FoundInv /\ TokenInv

-----------------------------------------------------------------------------
(* Types *)

\* Arithmetic on the constants, stated once.
LEMMA Ranges ==
  /\ MaxTokens \in Nat /\ MaxSessions \in Nat /\ MaxTime \in Nat
  /\ 0 \in 0..MaxTokens /\ 0 \in 0..MaxSessions
  /\ 0 \in Times /\ Times \subseteq Nat /\ Never \notin Times
  BY AccountsAssumption DEF Times, Never

\* The records that requests and accounts start from have their types.
LEMMA InitialRecords == IdleRequest \in Request /\ NoUser \in User
<1>1. IdleRequest \in Request
  BY Ranges DEF IdleRequest, Request
<1>2. NoUser \in User
  BY Ranges DEF NoUser, User
<1> QED
  BY <1>1, <1>2

\* What a request may become, field by field, keeping its type.
LEMMA RequestTyped ==
  ASSUME request \in [Browsers -> Request], NEW b \in Browsers,
         Ends(b) \/ \E at \in {"creating", "equipping", "saving", "issuing", "setting",
                               "mailing", "cleaning", "authorized"} : Goes(b, at)
  PROVE  request' \in [Browsers -> Request]
  BY InitialRecords DEF Ends, Goes, Request

\* Every step of a handler keeps the types.
LEMMA HandlerTyped ==
  ASSUME TypeOK, MailInv, NEW b \in Browsers, Handler(b)
  PROVE  TypeOK'
<1> USE Ranges DEF TypeOK, store
<1>0. request[b] \in Request
  OBVIOUS
<1>1. CASE RegisterCheck(b) \/ Serve(b) \/ RequestEnds(b)
  BY <1>1, RequestTyped DEF RegisterCheck, Serve, RequestEnds
<1>2. CASE CreateUser(b)
  <2>1. drawn + 1 \in 0..MaxTokens
    BY <1>2 DEF CreateUser
  <2>2. [request[b] EXCEPT !.at = "equipping", !.token = drawn + 1] \in Request
    BY <1>0, <2>1 DEF Request
  <2>3. [NoUser EXCEPT !.exists = TRUE, !.verifyToken = drawn + 1] \in User
    BY InitialRecords, <2>1 DEF User
  <2> QED
    BY <1>2, <2>1, <2>2, <2>3 DEF CreateUser
<1>3. CASE CreateWorkspace(b)
  BY <1>3, RequestTyped DEF CreateWorkspace, User
<1>4. CASE \E pw \in 0..MaxTokens : LoadForLogin(b, pw)
  <2>1. [request[b] EXCEPT !.at = "saving", !.pw = user.pw, !.verified = user.verified]
          \in Request
    BY <1>0 DEF Request, User
  <2> QED
    BY <1>4, <2>1 DEF LoadForLogin
<1>5. CASE SaveUser(b)
  <2>1. [request[b] EXCEPT !.at = "issuing", !.pw = 0, !.verified = FALSE] \in Request
    BY <1>0 DEF Request
  <2> QED
    BY <1>5, <2>1 DEF SaveUser
<1>6. CASE DeletePrevious(b)
  <2>1. [request[b] EXCEPT !.at = "setting", !.session = 0] \in Request
    BY <1>0 DEF Request
  <2>2. session' \in [Sessions -> Session]
    BY <1>6 DEF DeletePrevious, Session
  <2> QED
    BY <1>6, <2>1, <2>2 DEF DeletePrevious
<1>7. CASE CreateSession(b)
  <2>1. issued + 1 \in 0..MaxSessions
    BY <1>7 DEF CreateSession
  <2>2. [live |-> TRUE, created |-> now] \in Session
    BY DEF Session
  <2>3. session' \in [Sessions -> Session]
    BY <1>7, <2>2 DEF CreateSession
  <2>4. cookie' \in [Browsers -> 0..MaxSessions]
    BY <1>7, <2>1 DEF CreateSession, setSessionCookie
  <2>5. request' \in [Browsers -> Request]
    BY <1>7, RequestTyped DEF CreateSession
  <2> QED
    BY <1>7, <2>1, <2>3, <2>4, <2>5 DEF CreateSession
<1>8. CASE RequestPasswordReset(b) \/ ResendEmailVerification(b)
  <2>1. drawn + 1 \in 0..MaxTokens
    BY <1>8 DEF RequestPasswordReset, ResendEmailVerification
  <2>2. [request[b] EXCEPT !.at = "mailing", !.token = drawn + 1] \in Request
    BY <1>0, <2>1 DEF Request
  <2>3. /\ [user EXCEPT !.resetToken = drawn + 1] \in User
        /\ [user EXCEPT !.verifyToken = drawn + 1] \in User
    BY <2>1 DEF User
  <2> QED
    BY <1>8, <2>1, <2>2, <2>3, ZenonT(60) DEF RequestPasswordReset, ResendEmailVerification
<1>9. CASE SendEmailVerification(b) \/ SendPasswordResetEmail(b)
  <2>1. sendTransactionalEmail(b)
    BY <1>9 DEF SendEmailVerification, SendPasswordResetEmail
  <2>2. request[b].token \in Tokens
    BY <1>0, <2>1 DEF sendTransactionalEmail, MailInv, MailReady, Request, Tokens
  <2> QED
    BY <2>1, <2>2, RequestTyped DEF sendTransactionalEmail
<1>10. CASE \E token \in Tokens : VerifyEmail(b, token)
  <2>1. [user EXCEPT !.verified = TRUE, !.verifyToken = 0] \in User
    BY DEF User
  <2> QED
    BY <1>10, <2>1, RequestTyped DEF VerifyEmail
<1>11. CASE \E token \in Tokens : ReadClock(b, token)
  <2>1. PICK token \in Tokens : ReadClock(b, token)
    BY <1>11
  <2>2. token \in 0..MaxTokens
    BY DEF Tokens
  <2>3. [request[b] EXCEPT !.at = "resetting", !.token = token, !.session = 0,
                           !.time = now, !.upTo = issued] \in Request
    BY <1>0, <2>2 DEF Request
  <2> QED
    BY <2>1, <2>3 DEF ReadClock
<1>12. CASE ResetPassword(b)
  <2>1. [user EXCEPT !.pw = request[b].token, !.changed = request[b].time, !.resetToken = 0]
          \in User
    BY <1>0 DEF User, Request
  <2>2. [IdleRequest EXCEPT !.at = "cleaning"] \in Request
    BY InitialRecords DEF Request
  <2>3. request[b].upTo \in 0..MaxSessions
    BY <1>0 DEF Request
  <2> QED
    BY <1>12, <2>1, <2>2, <2>3 DEF ResetPassword
<1>13. CASE CleanUp(b) \/ LoadUser(b) \/ Logout(b)
  <2>1. session' \in [Sessions -> Session]
    BY <1>13, ZenonT(60) DEF CleanUp, LoadUser, Logout, Session
  <2>2. cookie' \in [Browsers -> 0..MaxSessions]
    BY <1>13 DEF CleanUp, LoadUser, Logout, clearSessionCookie, setSessionCookie
  <2>3. request' \in [Browsers -> Request]
    BY <1>13, RequestTyped DEF CleanUp, LoadUser, Logout
  <2> QED
    BY <1>13, <2>1, <2>2, <2>3 DEF CleanUp, LoadUser, Logout
<1>14. CASE FindSession(b)
  <2>1. \A s \in 0..MaxSessions :
          [IdleRequest EXCEPT !.at = "found", !.session = s] \in Request
    BY InitialRecords DEF Request
  <2>2. getAuthCredentials(b) \subseteq 0..MaxSessions
    BY DEF getAuthCredentials, getSessionCookieToken
  <2> QED
    BY <1>14, <2>1, <2>2, ZenonT(60) DEF FindSession
<1> QED
  BY <1>1, <1>2, <1>3, <1>4, <1>5, <1>6, <1>7, <1>8, <1>9, <1>10, <1>11, <1>12, <1>13, <1>14
  DEF Handler

\* So does every step.
LEMMA StepTyped ==
  ASSUME TypeOK, MailInv, [Next]_vars
  PROVE  TypeOK'
<1>1. CASE UNCHANGED vars
  BY <1>1 DEF vars, TypeOK
<1>2. ASSUME NEW b \in Browsers, NEW route \in Routes, Arrive(b, route)
      PROVE  TypeOK'
  <2>1. \A s \in 0..MaxSessions :
          [IdleRequest EXCEPT !.at = route, !.route = route, !.session = s] \in Request
    BY InitialRecords DEF Request
  <2>2. cookie[b] \in 0..MaxSessions /\ 0 \in 0..MaxSessions
    BY Ranges DEF TypeOK
  <2> QED
    BY <1>2, <2>1, <2>2 DEF Arrive, getSessionCookieToken, TypeOK, store
<1>3. CASE Tick
  BY <1>3, Ranges DEF Tick, TypeOK, store, Times
<1> QED
  BY <1>1, <1>2, <1>3, HandlerTyped DEF Next

-----------------------------------------------------------------------------
(* The invariant *)

\* A handler touches no request but its own.
LEMMA OtherRequests ==
  ASSUME TypeOK, NEW b \in Browsers, Handler(b), NEW c \in Browsers, c # b
  PROVE  request'[c] = request[c]
  BY DEF Handler, TypeOK, RegisterCheck, CreateUser, CreateWorkspace, LoadForLogin, SaveUser,
         DeletePrevious, CreateSession, RequestPasswordReset, ResendEmailVerification,
         SendEmailVerification, SendPasswordResetEmail, sendTransactionalEmail, VerifyEmail,
         ReadClock, ResetPassword, CleanUp, FindSession, LoadUser, Serve, Logout, RequestEnds,
         Goes, Ends

\* Where each handler leaves its own request: MailInv.
LEMMA HandlerMail ==
  ASSUME TypeOK, MailInv, NEW b \in Browsers, Handler(b)
  PROVE  MailReady(request'[b])
<1> USE DEF MailReady, Routes
<1>0. MailReady(request[b]) /\ request[b] \in Request /\ request \in [Browsers -> Request]
  BY DEF MailInv, TypeOK
<1>1. MailReady(IdleRequest)
  BY DEF IdleRequest
<1>2. CASE Ends(b)
  BY <1>0, <1>1, <1>2 DEF Ends
<1>3. CASE RegisterCheck(b) \/ CreateWorkspace(b) \/ LoadUser(b)
  <2>1. CASE RegisterCheck(b) \/ CreateWorkspace(b)
    BY <1>0, <2>1 DEF RegisterCheck, CreateWorkspace, Goes, Request
  <2>2. CASE LoadUser(b)
    <3>1. Ends(b) \/ Goes(b, "authorized")
      BY <2>2 DEF LoadUser
    <3>2. CASE Goes(b, "authorized")
      BY <1>0, <3>2 DEF Goes, Request
    <3> QED
      BY <1>2, <3>1, <3>2
  <2> QED
    BY <1>3, <2>1, <2>2
<1>4. CASE CreateUser(b) \/ RequestPasswordReset(b) \/ ResendEmailVerification(b)
  <2>1. drawn + 1 # 0
    BY Ranges DEF TypeOK
  <2>2. request'[b].at \notin Routes /\ request'[b].token = drawn + 1
    BY <1>0, <1>4 DEF CreateUser, RequestPasswordReset, ResendEmailVerification, Request
  <2> QED
    BY <2>1, <2>2
<1>5. CASE \E pw \in 0..MaxTokens : LoadForLogin(b, pw)
  BY <1>0, <1>5 DEF LoadForLogin, Request
<1>6. CASE SaveUser(b) \/ DeletePrevious(b)
  BY <1>0, <1>6 DEF SaveUser, DeletePrevious, Request
<1>7. CASE CreateSession(b)
  <2>1. \/ Ends(b)
        \/ request[b].at = "setting" /\ request[b].route = "register" /\ Goes(b, "mailing")
    BY <1>7 DEF CreateSession
  <2>2. CASE request[b].at = "setting" /\ request[b].route = "register" /\ Goes(b, "mailing")
    BY <1>0, <2>2 DEF Goes, Request
  <2> QED
    BY <1>2, <2>1, <2>2
<1>8. CASE \E token \in Tokens : ReadClock(b, token)
  <2>1. request'[b].at = "resetting"
    BY <1>0, <1>8 DEF ReadClock, Request
  <2> QED
    BY <2>1
<1>9. CASE ResetPassword(b)
  BY <1>0, <1>9 DEF ResetPassword, IdleRequest
<1>10. CASE FindSession(b)
  BY <1>0, <1>10 DEF FindSession, IdleRequest
<1> QED
  BY <1>2, <1>3, <1>4, <1>5, <1>6, <1>7, <1>8, <1>9, <1>10
  DEF Handler, Serve, RequestEnds, SendEmailVerification, SendPasswordResetEmail,
      sendTransactionalEmail, VerifyEmail, CleanUp, Logout

LEMMA StepMail ==
  ASSUME TypeOK, MailInv, [Next]_vars
  PROVE  MailInv'
<1>1. CASE UNCHANGED vars
  BY <1>1 DEF vars, MailInv, MailReady
<1>2. ASSUME NEW b \in Browsers, NEW route \in Routes, Arrive(b, route)
      PROVE  MailInv'
  BY <1>2 DEF Arrive, IdleRequest, TypeOK, MailInv, MailReady, Routes
<1>3. CASE Tick
  BY <1>3 DEF Tick, MailInv, MailReady
<1>4. ASSUME NEW b \in Browsers, Handler(b)
      PROVE  MailInv'
  BY <1>4, OtherRequests, HandlerMail DEF MailInv, MailReady
<1> QED
  BY <1>1, <1>2, <1>3, <1>4 DEF Next

\* The handlers that issue no session and end none.
Quiet(b) ==
  \/ RegisterCheck(b) \/ CreateUser(b) \/ CreateWorkspace(b)
  \/ \E pw \in 0..MaxTokens : LoadForLogin(b, pw)
  \/ SaveUser(b) \/ RequestPasswordReset(b) \/ ResendEmailVerification(b)
  \/ SendEmailVerification(b) \/ SendPasswordResetEmail(b)
  \/ \E token \in Tokens : VerifyEmail(b, token) \/ ReadClock(b, token)
  \/ ResetPassword(b) \/ FindSession(b) \/ Serve(b) \/ RequestEnds(b)

LEMMA QuietStep ==
  ASSUME NEW b \in Browsers, Quiet(b)
  PROVE  UNCHANGED <<now, session, issued>>
<1> USE DEF store
<1>1. CASE RegisterCheck(b) \/ CreateUser(b) \/ CreateWorkspace(b) \/ SaveUser(b)
  BY <1>1 DEF RegisterCheck, CreateUser, CreateWorkspace, SaveUser
<1>2. CASE \E pw \in 0..MaxTokens : LoadForLogin(b, pw)
  BY <1>2 DEF LoadForLogin
<1>3. CASE RequestPasswordReset(b) \/ ResendEmailVerification(b)
  BY <1>3 DEF RequestPasswordReset, ResendEmailVerification
<1>4. CASE SendEmailVerification(b) \/ SendPasswordResetEmail(b)
  BY <1>4 DEF SendEmailVerification, SendPasswordResetEmail, sendTransactionalEmail
<1>5. CASE \E token \in Tokens : VerifyEmail(b, token) \/ ReadClock(b, token)
  BY <1>5 DEF VerifyEmail, ReadClock
<1>6. CASE ResetPassword(b) \/ FindSession(b) \/ Serve(b) \/ RequestEnds(b)
  BY <1>6 DEF ResetPassword, FindSession, Serve, RequestEnds
<1> QED
  BY <1>1, <1>2, <1>3, <1>4, <1>5, <1>6 DEF Quiet

\* The handlers that end sessions.
Ending(b) == DeletePrevious(b) \/ CleanUp(b) \/ LoadUser(b) \/ Logout(b)

LEMMA EndingStep ==
  ASSUME TypeOK, NEW b \in Browsers, Ending(b)
  PROVE  /\ UNCHANGED <<now, user, issued, drawn, inbox, revoked>>
         /\ \A s \in Sessions : session'[s].created = session[s].created
<1> USE DEF TypeOK, Session
<1>1. CASE DeletePrevious(b)
  BY <1>1 DEF DeletePrevious
<1>2. CASE CleanUp(b)
  BY <1>2 DEF CleanUp
<1>3. CASE LoadUser(b)
  <2>1. /\ session' \in {session, [session EXCEPT ![request[b].session].live = FALSE]}
        /\ UNCHANGED <<now, user, issued, drawn, inbox, revoked>>
    BY <1>3 DEF LoadUser
  <2> QED
    BY <2>1
<1>4. CASE Logout(b)
  BY <1>4 DEF Logout
<1> QED
  BY <1>1, <1>2, <1>3, <1>4 DEF Ending

LEMMA HandlerCases ==
  ASSUME NEW b \in Browsers
  PROVE  Handler(b) <=> Quiet(b) \/ Ending(b) \/ CreateSession(b)
  BY DEF Handler, Quiet, Ending

\* A session gets its time of creation from the clock when it is issued, and keeps it;
\* the clock never goes back.
LEMMA SessionStep ==
  ASSUME TypeOK, [Next]_vars
  PROVE  /\ now' \in Nat /\ now <= now'
         /\ issued' = issued \/ issued' = issued + 1
         /\ \A s \in Sessions :
              IF issued' = issued + 1 /\ s = issued'
              THEN session'[s].created = now
              ELSE session'[s].created = session[s].created
<1>0. now \in Nat /\ issued \in Nat
  BY Ranges DEF TypeOK
<1>1. CASE UNCHANGED <<now, session, issued>>
  BY <1>0, <1>1
<1>2. ASSUME NEW b \in Browsers, CreateSession(b)
      PROVE  /\ now' = now /\ issued' = issued + 1
             /\ \A s \in Sessions :
                  IF s = issued + 1 THEN session'[s].created = now
                  ELSE session'[s] = session[s]
  BY <1>2 DEF CreateSession, TypeOK
<1>3. CASE Tick
  BY <1>0, <1>3 DEF Tick, store
<1>4. ASSUME NEW b \in Browsers, NEW route \in Routes, Arrive(b, route)
      PROVE  UNCHANGED <<now, session, issued>>
  BY <1>4 DEF Arrive, store
<1>5. CASE UNCHANGED vars
  BY <1>1, <1>5 DEF vars
<1> QED
  BY <1>0, <1>1, <1>2, <1>3, <1>4, <1>5, QuietStep, EndingStep, HandlerCases DEF Next

\* No session comes from the future.
LEMMA StepCreated ==
  ASSUME TypeOK, CreatedInv, [Next]_vars
  PROVE  CreatedInv'
<1>1. now \in Nat /\ \A s \in Sessions : session[s].created \in Nat
  BY Ranges DEF TypeOK, Session
<1> QED
  BY <1>1, SessionStep DEF CreatedInv

-----------------------------------------------------------------------------
(* Resets *)

\* Only a reset that succeeds touches what it promises; apart from it a handler leaves
\* the history and the time of change alone.
LEMMA ResetOnly ==
  ASSUME IInv, NEW b \in Browsers, Handler(b), ~ResetPassword(b)
  PROVE  /\ user'.changed = user.changed /\ revoked' = revoked
         /\ inbox \subseteq inbox'
<1> USE DEF IInv, TypeOK, TokenInv, User, NoUser, store
<1>1. CASE Ending(b)
  BY <1>1, EndingStep
<1>2. CASE CreateUser(b)
  BY <1>2 DEF CreateUser
<1>3. CASE RegisterCheck(b) \/ CreateWorkspace(b) \/ SaveUser(b) \/ CreateSession(b)
  BY <1>3 DEF RegisterCheck, CreateWorkspace, SaveUser, CreateSession
<1>4. CASE \E pw \in 0..MaxTokens : LoadForLogin(b, pw)
  BY <1>4 DEF LoadForLogin
<1>5. CASE RequestPasswordReset(b) \/ ResendEmailVerification(b)
  BY <1>5 DEF RequestPasswordReset, ResendEmailVerification
<1>6. CASE SendEmailVerification(b) \/ SendPasswordResetEmail(b)
  BY <1>6 DEF SendEmailVerification, SendPasswordResetEmail, sendTransactionalEmail
<1>7. CASE \E token \in Tokens : VerifyEmail(b, token) \/ ReadClock(b, token)
  BY <1>7 DEF VerifyEmail, ReadClock
<1>8. CASE FindSession(b) \/ Serve(b) \/ RequestEnds(b)
  BY <1>8 DEF FindSession, Serve, RequestEnds
<1> QED
  BY <1>1, <1>2, <1>3, <1>4, <1>5, <1>6, <1>7, <1>8 DEF Handler, Ending

\* What a successful reset records holds of the sessions at that moment.
LEMMA ResetStep ==
  ASSUME IInv, NEW b \in Browsers, ResetPassword(b)
  PROVE  RevokedInv'
<1>1. /\ request[b].upTo <= issued
      /\ \A s \in 1..request[b].upTo : session[s].created <= request[b].time
      /\ request[b].time \in Times
  BY DEF IInv, ResettingInv, ResetPassword, TypeOK, Request
<1>2. /\ revoked' = request[b].upTo /\ user'.changed = request[b].time
      /\ UNCHANGED <<session, issued>>
  BY DEF IInv, TypeOK, User, ResetPassword
<1> QED
  BY <1>1, <1>2, Ranges DEF RevokedInv

\* The sessions a reset outdates stay outdated: later ones have higher numbers.
LEMMA StepRevoked ==
  ASSUME IInv, [Next]_vars
  PROVE  RevokedInv'
<1>1. CASE \E b \in Browsers : ResetPassword(b)
  BY <1>1, ResetStep
<1>2. CASE ~\E b \in Browsers : ResetPassword(b)
  <2>1. user'.changed = user.changed /\ revoked' = revoked
    BY <1>2, ResetOnly DEF Next, Arrive, Tick, store, vars
  <2>2. 1..revoked \subseteq Sessions /\ revoked \in Nat /\ issued \in Nat /\ revoked <= issued
    BY Ranges DEF IInv, TypeOK, RevokedInv, Sessions
  <2>3. revoked <= issued'
    BY <2>2, SessionStep DEF IInv
  <2>4. \A s \in 1..revoked : session'[s].created = session[s].created
    BY <2>2, SessionStep DEF IInv
  <2> QED
    BY <2>1, <2>3, <2>4 DEF IInv, RevokedInv
<1> QED
  BY <1>1, <1>2

\* Which handlers lead where: only ReadClock begins a reset, only FindSession finds a
\* session, and only LoadUser lets a request in.
LEMMA LeadsTo ==
  ASSUME TypeOK, NEW b \in Browsers, Handler(b)
  PROVE  /\ request'[b].at = "resetting" => \E token \in Tokens : ReadClock(b, token)
         /\ request'[b].at = "found" => FindSession(b)
         /\ request'[b].at = "authorized" => LoadUser(b)
<1>0. request \in [Browsers -> Request] /\ request[b] \in Request
  BY DEF TypeOK
<1> DEFINE Elsewhere == request'[b].at \notin {"resetting", "found", "authorized"}
<1>1. ASSUME NEW at \in {"creating", "saving", "mailing"}, Goes(b, at)
      PROVE  Elsewhere
  BY <1>0, <1>1 DEF Goes, Request
<1>2. CASE Ends(b)
  BY <1>0, <1>2 DEF Ends, IdleRequest
<1>3. CASE RegisterCheck(b) \/ CreateWorkspace(b) \/ CreateSession(b)
  <2>1. Ends(b) \/ \E at \in {"creating", "saving", "mailing"} : Goes(b, at)
    BY <1>3 DEF RegisterCheck, CreateWorkspace, CreateSession
  <2>2. CASE \E at \in {"creating", "saving", "mailing"} : Goes(b, at)
    BY <1>1, <2>2
  <2> QED
    BY <1>2, <2>1, <2>2
<1>4. CASE CreateUser(b) \/ RequestPasswordReset(b) \/ ResendEmailVerification(b)
  BY <1>0, <1>4 DEF CreateUser, RequestPasswordReset, ResendEmailVerification, Request
<1>5. CASE \E pw \in 0..MaxTokens : LoadForLogin(b, pw)
  BY <1>0, <1>5 DEF LoadForLogin, Request
<1>6. CASE SaveUser(b) \/ DeletePrevious(b)
  BY <1>0, <1>6 DEF SaveUser, DeletePrevious, Request
<1>7. CASE ResetPassword(b)
  BY <1>0, <1>7 DEF ResetPassword, IdleRequest
<1>8. CASE \E token \in Tokens : ReadClock(b, token)
  <2>1. request'[b].at = "resetting"
    BY <1>0, <1>8 DEF ReadClock, Request
  <2> QED
    BY <1>8, <2>1
<1>9. CASE FindSession(b)
  <2>1. request'[b].at = "found"
    BY <1>0, <1>9 DEF FindSession, IdleRequest
  <2> QED
    BY <1>9, <2>1
<1>10. CASE LoadUser(b)
  <2>1. Ends(b) \/ Goes(b, "authorized")
    BY <1>10 DEF LoadUser
  <2>2. CASE Goes(b, "authorized")
    BY <1>0, <1>10, <2>2 DEF Goes, Request
  <2> QED
    BY <1>2, <2>1, <2>2
<1> QED
  BY <1>2, <1>3, <1>4, <1>5, <1>6, <1>7, <1>8, <1>9, <1>10
  DEF Handler, Serve, RequestEnds, SendEmailVerification, SendPasswordResetEmail,
      sendTransactionalEmail, VerifyEmail, CleanUp, Logout

\* A reset that reads the clock now outdates every session issued so far, and what it read
\* stays true until it reaches the account.
LEMMA StepResetting ==
  ASSUME IInv, [Next]_vars
  PROVE  ResettingInv'
<1>0. ASSUME NEW b \in Browsers, request'[b] = request[b], inbox \subseteq inbox'
      PROVE  request[b].at = "resetting" =>
               /\ request'[b].upTo <= issued'
               /\ request'[b].token \in inbox'
               /\ \A s \in 1..request'[b].upTo : session'[s].created <= request'[b].time
  <2>1. request[b] \in Request /\ issued \in Nat /\ issued <= MaxSessions
    BY Ranges DEF IInv, TypeOK
  <2>2. request[b].upTo \in Nat /\ request[b].upTo <= MaxSessions
    BY <2>1, Ranges DEF Request
  <2> QED
    BY <1>0, <2>1, <2>2, SessionStep, Ranges DEF IInv, ResettingInv, Sessions
<1>1. inbox \subseteq inbox'
  <2>1. ASSUME NEW b \in Browsers, ResetPassword(b) PROVE inbox' = inbox
    BY <2>1 DEF ResetPassword
  <2> QED
    BY <2>1, ResetOnly DEF Next, Arrive, Tick, store, vars
<1>2. CASE UNCHANGED vars \/ Tick
  BY <1>0, <1>1, <1>2 DEF ResettingInv, vars, Tick
<1>3. ASSUME NEW b \in Browsers, NEW route \in Routes, Arrive(b, route)
      PROVE  ResettingInv'
  <2>1. request'[b].at # "resetting"
    BY <1>3 DEF Arrive, IInv, TypeOK, IdleRequest, Routes
  <2>2. \A c \in Browsers : c # b => request'[c] = request[c]
    BY <1>3 DEF Arrive, IInv, TypeOK
  <2> QED
    BY <1>0, <1>1, <2>1, <2>2 DEF ResettingInv
<1>4. ASSUME NEW b \in Browsers, Handler(b)
      PROVE  ResettingInv'
  <2>1. CASE \E token \in Tokens : ReadClock(b, token)
    <3>1. PICK token \in Tokens : ReadClock(b, token)
      BY <2>1
    <3>2. /\ request'[b].upTo = issued /\ request'[b].token = token
          /\ request'[b].time = now /\ token \in inbox
          /\ UNCHANGED <<issued, inbox, session>>
      BY <3>1 DEF ReadClock, IInv, TypeOK, Request, store
    <3>3. 1..issued \subseteq Sessions /\ issued \in Nat
      BY Ranges DEF IInv, TypeOK, Sessions
    <3> QED
      BY <1>0, <1>1, <1>4, <3>2, <3>3, OtherRequests DEF IInv, ResettingInv, CreatedInv
  <2>2. CASE ~\E token \in Tokens : ReadClock(b, token)
    <3>1. request'[b].at # "resetting"
      BY <1>4, <2>2, LeadsTo DEF IInv
    <3> QED
      BY <1>0, <1>1, <1>4, <3>1, OtherRequests DEF IInv, ResettingInv
  <2> QED
    BY <2>1, <2>2
<1> QED
  BY <1>2, <1>3, <1>4 DEF Next

-----------------------------------------------------------------------------
(* Tokens, and the theorems *)

\* A new token is newer than the password; spending it makes it the password.
LEMMA HandlerToken ==
  ASSUME IInv, NEW b \in Browsers, Handler(b)
  PROVE  /\ TokenInv'
         /\ user.exists =>
              /\ user'.exists
              /\ user'.pw # user.pw =>
                   user'.pw > user.pw /\ user'.pw \in inbox /\ user'.resetToken = 0
              /\ user.verified => user'.verified
<1>0. /\ user \in User /\ drawn \in Nat /\ user.pw \in Nat /\ user.resetToken \in Nat
      /\ TokenInv
  BY Ranges DEF IInv, TypeOK, User
<1> USE DEF TokenInv
<1>1. ASSUME UNCHANGED <<user, drawn>>
      PROVE  TokenInv' /\ user' = user
  BY <1>0, <1>1
<1>2. CASE Ending(b)
  BY <1>0, <1>1, <1>2, EndingStep DEF IInv
<1>3. CASE RegisterCheck(b) \/ SaveUser(b) \/ CreateSession(b)
  BY <1>0, <1>1, <1>3 DEF RegisterCheck, SaveUser, CreateSession, store
<1>4. CASE \E pw \in 0..MaxTokens : LoadForLogin(b, pw)
  BY <1>0, <1>1, <1>4 DEF LoadForLogin, store
<1>5. CASE FindSession(b) \/ Serve(b) \/ RequestEnds(b)
  BY <1>0, <1>1, <1>5 DEF FindSession, Serve, RequestEnds, store
<1>6. CASE SendEmailVerification(b) \/ SendPasswordResetEmail(b)
  BY <1>0, <1>1, <1>6 DEF SendEmailVerification, SendPasswordResetEmail,
                          sendTransactionalEmail
<1>7. CASE \E token \in Tokens : ReadClock(b, token)
  BY <1>0, <1>1, <1>7 DEF ReadClock, store
<1>8. CASE CreateUser(b)
  BY <1>0, <1>8 DEF CreateUser, NoUser
<1>9. CASE CreateWorkspace(b)
  BY <1>0, <1>9 DEF CreateWorkspace, User
<1>10. CASE RequestPasswordReset(b) \/ ResendEmailVerification(b)
  BY <1>0, <1>10 DEF RequestPasswordReset, ResendEmailVerification, User
<1>11. CASE \E token \in Tokens : VerifyEmail(b, token)
  BY <1>0, <1>11 DEF VerifyEmail, User
<1>12. CASE ResetPassword(b)
  <2>1. request[b].token \in inbox /\ request[b].token \in Nat \ {0}
    BY <1>12 DEF ResetPassword, IInv, ResettingInv, TypeOK, Tokens
  <2>2. /\ user'.pw = request[b].token /\ user'.resetToken = 0
        /\ user'.exists = user.exists /\ user'.verified = user.verified
        /\ user.resetToken = request[b].token /\ drawn' = drawn
    BY <1>0, <1>12 DEF ResetPassword, User
  <2> QED
    BY <1>0, <2>1, <2>2
<1> QED
  BY <1>2, <1>3, <1>4, <1>5, <1>6, <1>7, <1>8, <1>9, <1>10, <1>11, <1>12 DEF Handler, Ending

\* A request that finds a session names one of the sessions issued.
LEMMA StepFound ==
  ASSUME IInv, [Next]_vars
  PROVE  FoundInv'
<1> USE DEF FoundInv, IInv, TypeOK
<1>1. CASE UNCHANGED vars \/ Tick
  BY <1>1 DEF vars, Tick
<1>2. ASSUME NEW b \in Browsers, NEW route \in Routes, Arrive(b, route)
      PROVE  FoundInv'
  BY <1>2 DEF Arrive, IdleRequest, Routes
<1>3. ASSUME NEW b \in Browsers, Handler(b)
      PROVE  request'[b].at = "found" => request'[b].session # 0
  <2>1. CASE FindSession(b)
    <3>1. PICK s \in getAuthCredentials(b) \ {0} :
            request' = [request EXCEPT ![b] = [IdleRequest EXCEPT !.at = "found", !.session = s]]
      BY <2>1 DEF FindSession
    <3> QED
      BY <3>1 DEF IdleRequest
  <2> QED
    BY <1>3, <2>1, LeadsTo
<1> QED
  BY <1>1, <1>2, <1>3, OtherRequests DEF Next

LEMMA Inductive ==
  ASSUME IInv, [Next]_vars
  PROVE  IInv'
<1>1. TokenInv'
  BY HandlerToken DEF Next, Arrive, Tick, vars, store, IInv, TokenInv
<1> QED
  BY <1>1, StepTyped, StepMail, StepCreated, StepRevoked, StepResetting, StepFound DEF IInv

LEMMA Invariant == Spec => []IInv
<1>1. Init => IInv
  <2> SUFFICES ASSUME Init PROVE IInv
    OBVIOUS
  <2>1. TypeOK
    BY InitialRecords, Ranges DEF Init, TypeOK, Session
  <2>2. MailInv /\ ResettingInv /\ FoundInv
    BY DEF Init, MailInv, MailReady, ResettingInv, FoundInv, IdleRequest, Routes
  <2>3. CreatedInv /\ RevokedInv /\ TokenInv
    BY DEF Init, CreatedInv, RevokedInv, TokenInv, NoUser
  <2> QED
    BY <2>1, <2>2, <2>3 DEF IInv
<1> QED
  BY <1>1, Inductive, PTL DEF Spec

(***************************************************************************)
(* Accounts, sessions and requests keep the shape of their documents.      *)
(***************************************************************************)
THEOREM TypeCorrect == Spec => []TypeOK
  BY Invariant, PTL DEF IInv

\* A request is let in only under a session its account does not outdate.
LEMMA LetIn ==
  ASSUME IInv, [Next]_vars, NEW b \in Browsers,
         request[b].at = "found", request'[b].at = "authorized"
  PROVE  request[b].session > revoked
<1>1. LoadUser(b)
  <2>1. ASSUME NEW c \in Browsers, NEW route \in Routes, Arrive(c, route)
        PROVE  FALSE
    BY <2>1 DEF Arrive, IInv, TypeOK, IdleRequest, Routes
  <2>2. \E c \in Browsers : Handler(c)
    BY <2>1 DEF Next, Tick, vars
  <2> QED
    BY <2>2, OtherRequests, LeadsTo DEF IInv
<1>2. request[b].session \in Nat \ {0} /\ revoked \in Nat
  BY Ranges DEF IInv, FoundInv, TypeOK, Request
<1>3. ~Outdated(request[b].session)
  <2>1. ~Ends(b)
    BY DEF Ends, IdleRequest, IInv, TypeOK
  <2> QED
    BY <1>1, <2>1 DEF LoadUser
<1> QED
  BY <1>2, <1>3 DEF Outdated, IInv, RevokedInv

(***************************************************************************)
(* No request that loads the user after a reset is let in under a session  *)
(* issued before that reset, whatever became of the clean-up: the time of  *)
(* change that the reset leaves outdates every such session.               *)
(***************************************************************************)
THEOREM ResetEndsSessions == Spec => OldSessionsEnd
<1>1. IInv /\ [Next]_vars =>
        [\A b \in Browsers :
           request[b].at = "found" /\ request'[b].at = "authorized"
             => request[b].session > revoked]_vars
  BY LetIn
<1> QED
  BY <1>1, Invariant, PTL DEF Spec, OldSessionsEnd

(***************************************************************************)
(* The password changes only by spending the latest token that was mailed, *)
(* and a verified address stays verified, whatever requests overlap.       *)
(***************************************************************************)
THEOREM AccountsGoForward == Spec => AccountNeverGoesBack
<1>1. IInv /\ [Next]_vars =>
        [user.exists =>
           /\ user'.pw # user.pw =>
                user'.pw > user.pw /\ user'.pw \in inbox /\ user'.resetToken = 0
           /\ user.verified => user'.verified]_vars
  BY HandlerToken DEF Next, Arrive, Tick, store
<1> QED
  BY <1>1, Invariant, PTL DEF Spec, AccountNeverGoesBack
=============================================================================
