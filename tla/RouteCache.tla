------------------------------ MODULE RouteCache ------------------------------
(***************************************************************************)
(* The read-through caches in front of public redirects: several API       *)
(* processes read from Redis or load from MongoDB                          *)
(* (services/redirectResolutionService.js), while others write what was    *)
(* cached and delete its key (services/cacheInvalidationService.js).  Four *)
(* kinds of keys are used alike, and a behaviour is about one key of one   *)
(* kind: the route of a short code, the workspace of a custom domain, the  *)
(* plan of a workspace (entitlement), or its clicks this month (usage).    *)
(*                                                                         *)
(* Redis commands (services/cacheService.js) travel on one connection per  *)
(* process, in order.  A caller stops waiting after 150 ms whatever became *)
(* of its command, so a command may be applied before or after its caller  *)
(* goes on, or be lost with the connection; when the client is not ready   *)
(* nothing is sent at all.                                                 *)
(*                                                                         *)
(* Time is counted in ticks.  document.life is what remains until the      *)
(* link's expiresAt or the end of the plan's period: 0 when it has passed, *)
(* n when n - 1 whole ticks and a fraction are left.                       *)
(***************************************************************************)
EXTENDS Integers, Sequences

CONSTANTS
  Kinds,        \* kinds of keys looked at
  Procs,        \* API processes
  NoProc,       \* the process of a request or handler that is not running
  Requests,     \* bound: redirect requests in flight at a time
  MaxLife,      \* bound: the longest life of a link or period, in ticks
  MaxPending,   \* bound: commands under way on a connection
  RouteTtl,     \* ROUTE_TTL_SECONDS
  ExpiredTtl,   \* EXPIRED_ROUTE_TTL_SECONDS
  NegativeTtl,  \* NEGATIVE_TTL_SECONDS
  DomainTtl,    \* DOMAIN_TTL_SECONDS
  PlanTtl,      \* ENTITLEMENT_TTL_SECONDS
  UsageTtl      \* USAGE_TTL_SECONDS

Ttls == {RouteTtl, ExpiredTtl, NegativeTtl, DomainTtl, PlanTtl, UsageTtl}

ASSUME RouteCacheAssumption ==
  /\ Kinds \subseteq {"route", "domain", "entitlement", "usage"}
  /\ NoProc \notin Procs
  /\ MaxLife \in Nat \ {0}
  /\ MaxPending \in Nat \ {0}
  /\ Ttls \subseteq Nat \ {0}

VARIABLES
  kind,      \* the kind of the key; it never changes
  document,  \* what is cached, in MongoDB
  entry,     \* the cached entry in Redis
  pending,   \* pending[p]: commands of process p not yet applied
  flight,    \* flight[p]: the database load that inFlightLoads shares in p
  request,   \* request[r]: one redirect request
  handler    \* the handlers that write the document

vars == <<kind, document, entry, pending, flight, request, handler>>

(***************************************************************************)
(* What the document, an entry or a load says.                             *)
(*               missing          active           inactive                *)
(*   route       no link          isActive         deactivated             *)
(*   domain      not verified     verified         verified no longer      *)
(*   entitlement                  a paid plan      the free plan           *)
(*   usage                        below the limit  at the click limit      *)
(***************************************************************************)
Snapshots == {"missing", "active", "inactive"}

\* The handlers that make the document active, and those that end that.
Handlers == {"begin", "end"}
MaxTtl == CHOOSE t \in Ttls : \A s \in Ttls : s <= t

Nothing == [snapshot |-> "none", ttl |-> 0]
Entries == {Nothing} \cup [snapshot : Snapshots, ttl : 1..MaxTtl]

\* A setEx of an entry or, as Nothing, a del of the key.
Commands == Entries

Answers == {"302", "404", "410", "500",   \* the request's answer, as far as it depends on the key
            "found",                      \* a verified domain
            "paid", "free",               \* the effective plan
            "below", "402"}               \* the click limit

Idle == [pc |-> "idle", proc |-> NoProc, snapshot |-> "none",
         late |-> FALSE, ended |-> FALSE, answer |-> "none"]

NoFlight == [pc |-> "none", snapshot |-> "none"]

TypeOK ==
  /\ kind \in Kinds
  /\ document \in [snapshot : Snapshots, life : 0..MaxLife]
  /\ entry \in Entries
  /\ \A p \in Procs : pending[p] \in Seq(Commands) /\ Len(pending[p]) <= MaxPending
  /\ flight \in [Procs -> {NoFlight}
                   \cup [pc : {"reading"}, snapshot : {"none"}]
                   \cup [pc : {"read", "setting"}, snapshot : Snapshots]]
  /\ request \in [Requests -> {Idle} \cup
       [pc : {"get", "missed", "waiting", "resolved", "admitted", "answered"}, proc : Procs,
        snapshot : Snapshots \cup {"none"}, late : BOOLEAN, ended : BOOLEAN,
        answer : {"none"} \cup Answers]]
  /\ handler \in [Handlers ->
       [pc : {"idle", "settled"}, proc : {NoProc}]
         \cup [pc : {"saved", "deleting"}, proc : Procs]]

Init ==
  /\ kind \in Kinds
  /\ document = [snapshot |-> CASE kind \in {"route", "domain"} -> "missing"
                                [] kind = "entitlement" -> "inactive"
                                [] kind = "usage" -> "active",
                  life |-> 0]
  /\ entry = Nothing
  /\ pending = [p \in Procs |-> <<>>]
  /\ flight = [p \in Procs |-> NoFlight]
  /\ request = [r \in Requests |-> Idle]
  /\ handler = [h \in Handlers |-> [pc |-> "idle", proc |-> NoProc]]

-------------------------------------------------------------------------------
(* Redis. *)

Send(p, c) ==
  /\ Len(pending[p]) < MaxPending
  /\ pending' = [pending EXCEPT ![p] = Append(@, c)]

Apply(p) ==
  /\ pending[p] /= <<>>
  /\ entry' = Head(pending[p])
  /\ pending' = [pending EXCEPT ![p] = Tail(@)]
  /\ UNCHANGED <<document, flight, request, handler>>

\* The connection drops; with disableOfflineQueue nothing is sent again.
Disconnect(p) ==
  /\ pending[p] /= <<>>
  /\ pending' = [pending EXCEPT ![p] = <<>>]
  /\ UNCHANGED <<document, entry, flight, request, handler>>

\* SET in the place of SETEX: the entry never ages.
Aged_Never(e) == e

Aged(e) == IF e.ttl <= 1 THEN Nothing ELSE [e EXCEPT !.ttl = @ - 1]

Tick ==
  /\ entry' = Aged(entry)
  /\ document' = [document EXCEPT !.life = IF @ = 0 THEN 0 ELSE @ - 1]
  /\ UNCHANGED <<pending, flight, request, handler>>

-------------------------------------------------------------------------------
(* A redirect request: redirectToOriginal and the loads it asks for. *)

ExpiryAcknowledged ==
  kind = "route" /\ document.snapshot = "inactive" /\ handler["end"].pc = "settled"

\* The link's expiresAt, or the end of the paid period, has passed.
HasEnded ==
  /\ document.life = 0
  /\ \/ kind = "route" /\ document.snapshot /= "missing"
     \/ kind = "entitlement" /\ document.snapshot = "active"

\* late: the request began after the owner was told the link has expired;
\* ended: it began when the link, or the paid period, was over.
Begin(r) ==
  /\ request[r] = Idle
  /\ \E p \in Procs :
       request' = [request EXCEPT ![r] =
         [pc |-> "get", proc |-> p, snapshot |-> "none",
          late |-> ExpiryAcknowledged, ended |-> HasEnded, answer |-> "none"]]
  /\ UNCHANGED <<document, entry, pending, flight, handler>>

\* getCachedRoute finds an entry; a get follows the commands sent before it.
CacheHit(r) ==
  /\ request[r].pc = "get"
  /\ entry /= Nothing
  /\ pending[request[r].proc] = <<>>
  /\ request' = [request EXCEPT ![r].pc = "resolved", ![r].snapshot = entry.snapshot]
  /\ UNCHANGED <<document, entry, pending, flight, handler>>

\* No entry, or the get fails, times out or is bypassed: reads fail open.
CacheMiss(r) ==
  /\ request[r].pc = "get"
  /\ request' = [request EXCEPT ![r].pc = "missed"]
  /\ UNCHANGED <<document, entry, pending, flight, handler>>

\* singleFlight: join the load of this process or start one.
JoinFlight(r) ==
  LET p == request[r].proc IN
  /\ request[r].pc = "missed"
  /\ request' = [request EXCEPT ![r].pc = "waiting"]
  /\ flight' = IF flight[p] = NoFlight
               THEN [flight EXCEPT ![p].pc = "reading"]
               ELSE flight
  /\ UNCHANGED <<document, entry, pending, handler>>

\* The link of the short code, on a custom domain also by workspace and host.
FindRoute == document.snapshot

\* A workspace in which the hostname is verified.
FindVerifiedDomain == IF document.snapshot = "active" THEN "active" ELSE "missing"

\* Plan and end of period of the workspace; workspaces are not deleted.
FindPlan == document.snapshot

\* The counter of the month, inserted if there is none.
FindUsage == document.snapshot

Stored ==
  CASE kind = "route" -> FindRoute
    [] kind = "domain" -> FindVerifiedDomain
    [] kind = "entitlement" -> FindPlan
    [] kind = "usage" -> FindUsage

\* MongoDB answers the load with the document as it is now.
ReadDatabase(p) ==
  /\ flight[p].pc = "reading"
  /\ flight' = [flight EXCEPT ![p] = [pc |-> "read", snapshot |-> Stored]]
  /\ UNCHANGED <<document, entry, pending, request, handler>>

WaitingIn(p) == {r \in Requests : request[r].pc = "waiting" /\ request[r].proc = p}

\* The load ends and every request that shares it goes on with its result.
EndFlight(p) ==
  /\ flight' = [flight EXCEPT ![p] = NoFlight]
  /\ request' = [r \in Requests |->
       IF r \in WaitingIn(p)
       THEN [request[r] EXCEPT !.pc = "resolved", !.snapshot = flight[p].snapshot]
       ELSE request[r]]

\* The query rejects: the requests that share the load answer 500.
ReadFails(p) ==
  /\ flight[p].pc = "reading"
  /\ flight' = [flight EXCEPT ![p] = NoFlight]
  /\ request' = [r \in Requests |->
       IF r \in WaitingIn(p)
       THEN [request[r] EXCEPT !.pc = "answered", !.answer = "500"]
       ELSE request[r]]
  /\ UNCHANGED <<document, entry, pending, handler>>

getRouteTtlSeconds(life) ==
  IF life = 0 THEN ExpiredTtl ELSE IF life - 1 < RouteTtl THEN life - 1 ELSE RouteTtl

TtlOf(snapshot) ==
  CASE snapshot = "missing" -> NegativeTtl
    [] snapshot # "missing" /\ kind = "route" -> getRouteTtlSeconds(document.life)
    [] snapshot # "missing" /\ kind = "domain" -> DomainTtl
    [] snapshot # "missing" /\ kind = "entitlement" -> PlanTtl
    [] snapshot # "missing" /\ kind = "usage" -> UsageTtl

\* cacheRoute without the check for a TTL below one second.
CacheRoute_ZeroTtl(p) ==
  LET s == flight[p].snapshot IN
  /\ flight[p].pc = "read"
  /\ Send(p, [snapshot |-> s, ttl |-> TtlOf(s)])
  /\ flight' = [flight EXCEPT ![p].pc = "setting"]
  /\ UNCHANGED <<document, entry, request, handler>>

\* cacheRoute: the TTL is taken from the clock when the load has answered.
CacheRoute(p) ==
  LET s == flight[p].snapshot IN
  /\ flight[p].pc = "read"
  /\ TtlOf(s) >= 1
  /\ Send(p, [snapshot |-> s, ttl |-> TtlOf(s)])
  /\ flight' = [flight EXCEPT ![p].pc = "setting"]
  /\ UNCHANGED <<document, entry, request, handler>>

\* Less than a second to live, or no ready client: nothing is cached.
SkipCaching(p) ==
  /\ flight[p].pc = "read"
  /\ EndFlight(p)
  /\ UNCHANGED <<document, entry, pending, handler>>

\* The wait for setEx without its deadline: it ends with the command only.
SetSettles_NoDeadline(p) ==
  /\ flight[p].pc = "setting"
  /\ pending[p] = <<>>
  /\ EndFlight(p)
  /\ UNCHANGED <<document, entry, pending, handler>>

\* setJson returns, with Redis's answer or at its deadline.
SetSettles(p) ==
  /\ flight[p].pc = "setting"
  /\ EndFlight(p)
  /\ UNCHANGED <<document, entry, pending, handler>>

\* The expiry check left to the TTL of the cached entry.
AnswerToRoute_TrustsTtl(snapshot) ==
  CASE snapshot = "missing"  -> "404"
    [] snapshot = "inactive" -> "410"
    [] snapshot = "active"   -> "302"

\* The snapshot carries expiresAt, which nothing ever changes.
AnswerToRoute(snapshot) ==
  CASE snapshot = "missing"  -> "404"
    [] snapshot = "inactive" -> "410"
    [] snapshot = "active"   -> IF document.life = 0 THEN "410" ELSE "302"

AnswerToDomain(snapshot) == IF snapshot = "active" THEN "found" ELSE "404"

\* resolveEffectivePlan compares the end of the cached period with the clock.
EffectivePlan(snapshot) ==
  IF snapshot = "active" /\ document.life > 0 THEN "paid" ELSE "free"

ClickLimit(snapshot) == IF snapshot = "inactive" THEN "402" ELSE "below"

AnswerTo(snapshot) ==
  CASE kind = "route" -> AnswerToRoute(snapshot)
    [] kind = "domain" -> AnswerToDomain(snapshot)
    [] kind = "entitlement" -> EffectivePlan(snapshot)
    [] kind = "usage" -> ClickLimit(snapshot)

Refusals == {"404", "410", "402"}

\* What was found is looked at: the request is refused, or goes on with it.
Check(r) ==
  /\ request[r].pc = "resolved"
  /\ LET a == AnswerTo(request[r].snapshot) IN
     request' = [request EXCEPT ![r].pc = IF a \in Refusals THEN "answered" ELSE "admitted",
                                ![r].snapshot = "none", ![r].answer = a]
  /\ UNCHANGED <<document, entry, pending, flight, handler>>

\* The response, when the other lookups and the insert of the redirect event
\* have been awaited; 500 stands for all that may come of them instead.
Respond(r) ==
  /\ request[r].pc = "admitted"
  /\ \E a \in {request[r].answer, "500"} :
       request' = [request EXCEPT ![r].pc = "answered", ![r].answer = a]
  /\ UNCHANGED <<document, entry, pending, flight, handler>>

\* The connection of an answered request is done with.
Close(r) ==
  /\ request[r].pc = "answered"
  /\ request' = [request EXCEPT ![r] = Idle]
  /\ UNCHANGED <<document, entry, pending, flight, handler>>

-------------------------------------------------------------------------------
(* The handlers that write the document, and then delete its key. *)

Writes(h, p, snapshot, life) ==
  /\ handler[h].pc = "idle"
  /\ document' = [snapshot |-> snapshot, life |-> life]
  /\ handler' = [handler EXCEPT ![h] = [pc |-> "saved", proc |-> p]]
  /\ UNCHANGED <<entry, pending, flight, request>>

\* createLink or createGuestLink commits the new document.
CreateLink(p) ==
  /\ kind = "route" /\ document.snapshot = "missing"
  /\ \E life \in 1..MaxLife : Writes("begin", p, "active", life)

\* expireLink saves isActive = false; the owner may ask for it again.
ExpireLink(p) ==
  /\ kind = "route" /\ document.snapshot /= "missing"
  /\ Writes("end", p, "inactive", document.life)

\* verifyCustomDomain saves the status "verified".
VerifyDomain(p) ==
  /\ kind = "domain" /\ document.snapshot = "missing"
  /\ Writes("begin", p, "active", 0)

\* removeCustomDomain, or a verification that finds no TXT record any more.
DropDomain(p) ==
  /\ kind = "domain" /\ document.snapshot = "active"
  /\ Writes("end", p, "inactive", 0)

\* applySubscriptionState saves plan and period; renewals are left out.
ActivatePlan(p) ==
  /\ kind = "entitlement" /\ document.snapshot = "inactive"
  /\ \E life \in 1..MaxLife : Writes("begin", p, "active", life)

\* A redirect event's transaction commits the click that reaches the limit.
CountClick(p) ==
  /\ kind = "usage" /\ document.snapshot = "active"
  /\ Writes("end", p, "inactive", 0)

\* The invalidation deletes the key, or is bypassed without a ready client.
Invalidate(h) ==
  /\ handler[h].pc = "saved"
  /\ \/ /\ Send(handler[h].proc, Nothing)
        /\ handler' = [handler EXCEPT ![h].pc = "deleting"]
     \/ /\ handler' = [handler EXCEPT ![h] = [pc |-> "settled", proc |-> NoProc]]
        /\ UNCHANGED pending
  /\ UNCHANGED <<document, entry, flight, request>>

\* deleteKeys returns, done or not, and the handler answers its caller.
DeleteSettles(h) ==
  /\ handler[h].pc = "deleting"
  /\ handler' = [handler EXCEPT ![h] = [pc |-> "settled", proc |-> NoProc]]
  /\ UNCHANGED <<document, entry, pending, flight, request>>

\* The process restarts: loads, requests, handlers and its connection go.
Restart(p) ==
  /\ flight' = [flight EXCEPT ![p] = NoFlight]
  /\ pending' = [pending EXCEPT ![p] = <<>>]
  /\ request' = [r \in Requests |->
       IF request[r].proc = p THEN Idle ELSE request[r]]
  /\ handler' = [h \in Handlers |->
       IF handler[h].proc = p THEN [pc |-> "idle", proc |-> NoProc] ELSE handler[h]]
  /\ UNCHANGED <<document, entry>>

-------------------------------------------------------------------------------
RequestStep(r) ==
  CacheHit(r) \/ CacheMiss(r) \/ JoinFlight(r) \/ Check(r) \/ Respond(r) \/ Close(r)

FlightStep(p) ==
  ReadDatabase(p) \/ ReadFails(p) \/ CacheRoute(p) \/ SkipCaching(p) \/ SetSettles(p)

HandlerStep(h) == Invalidate(h) \/ DeleteSettles(h)

Write(p) ==
  \/ CreateLink(p) \/ ExpireLink(p) \/ VerifyDomain(p) \/ DropDomain(p)
  \/ ActivatePlan(p) \/ CountClick(p)

OfOneKind(A) == A /\ UNCHANGED kind

Next ==
  \/ \E r \in Requests : OfOneKind(Begin(r)) \/ OfOneKind(RequestStep(r))
  \/ \E p \in Procs :
       \/ OfOneKind(FlightStep(p)) \/ OfOneKind(Write(p))
       \/ OfOneKind(Apply(p)) \/ OfOneKind(Disconnect(p)) \/ OfOneKind(Restart(p))
  \/ \E h \in Handlers : OfOneKind(HandlerStep(h))
  \/ OfOneKind(Tick)

Spec == Init /\ [][Next]_vars

\* Time passes, and a live process runs its callbacks: every wait on MongoDB
\* ends and every wait on Redis has a deadline.  Nothing is asked of Redis.
Fairness ==
  /\ WF_vars(OfOneKind(Tick))
  /\ \A r \in Requests : WF_vars(OfOneKind(RequestStep(r)))
  /\ \A p \in Procs : WF_vars(OfOneKind(FlightStep(p)))
  /\ \A h \in Handlers : WF_vars(OfOneKind(HandlerStep(h)))

FairSpec == Spec /\ Fairness

-------------------------------------------------------------------------------
(***************************************************************************)
(* A request that begins when the link's expiresAt has passed is not       *)
(* redirected, and one that begins when the paid period is over is not     *)
(* granted the paid plan, however old the snapshot it is answered from,    *)
(* whichever load it shares and however late the setEx that cached it was  *)
(* applied.  One that began before may be redirected after: other lookups  *)
(* and an insert lie between its check and its redirect.                   *)
(***************************************************************************)
NothingEndedIsServed ==
  \A r \in Requests : request[r].ended => request[r].answer \notin {"302", "paid"}

(***************************************************************************)
(* Invalidation is best effort, and a load that read before a write may    *)
(* cache what it read after the write's delete.  Still the cache and the   *)
(* requests agree with MongoDB from some time on, of links, domains, plans *)
(* and click counters: every stale entry has a TTL, and no load can read   *)
(* the old document again.                                                 *)
(***************************************************************************)
CacheConverges ==
  <>[](/\ entry.snapshot \in {"none", Stored}
       /\ \A r \in Requests : request[r].pc = "resolved" =>
                                request[r].snapshot = Stored)

(***************************************************************************)
(* A redirect request ends, whatever Redis does: no wait on the cache, the *)
(* request's own or that of a load it shares, is without a deadline.       *)
(***************************************************************************)
RequestsEnd == \A r \in Requests : request[r] /= Idle ~> request[r] = Idle

(***************************************************************************)
(* Once expireLink has answered "URL expired manually", a request that     *)
(* begins later is not redirected any more.                                *)
(***************************************************************************)
ManualExpiryHolds ==
  \A r \in Requests :
    request[r].late /\ request[r].pc = "answered" => request[r].answer /= "302"
===============================================================================
