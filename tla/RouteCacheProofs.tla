---------------------------- MODULE RouteCacheProofs ----------------------------
(***************************************************************************)
(* Proofs about the read-through caches, for any number of processes and   *)
(* requests, any lives and TTLs, and any number of commands under way.     *)
(***************************************************************************)
EXTENDS RouteCache, TLAPS

Flights == {NoFlight} \cup [pc : {"reading"}, snapshot : {"none"}]
                      \cup [pc : {"read", "setting"}, snapshot : Snapshots]

Running == [pc : {"get", "missed", "waiting", "resolved", "admitted", "answered"}, proc : Procs,
            snapshot : Snapshots \cup {"none"}, late : BOOLEAN, ended : BOOLEAN,
            answer : {"none"} \cup Answers]

Settled == [pc : {"idle", "settled"}, proc : {NoProc}]
Writing == [pc : {"saved", "deleting"}, proc : Procs]

Documents == [snapshot : Snapshots, life : 0..MaxLife]

\* The parts of the inductive invariant, which say more than TypeOK does:
\* a command is some process's, ...
PendingOK ==
  /\ pending \in [Procs -> Seq(Commands)]
  /\ \A p \in Procs : Len(pending[p]) <= MaxPending

FlightOK == flight \in [Procs -> Flights]

\* ... and a request is resolved with something that was once stored.
RequestOK ==
  /\ request \in [Requests -> {Idle} \cup Running]
  /\ \A r \in Requests : request[r].pc = "resolved" => request[r].snapshot \in Snapshots

HandlerOK == handler \in [Handlers -> Settled \cup Writing]

IInv ==
  /\ kind \in Kinds /\ document \in Documents /\ entry \in Entries
  /\ PendingOK /\ FlightOK /\ RequestOK /\ HandlerOK

LEMMA Typed == IInv => TypeOK
  BY DEF IInv, TypeOK, Documents, PendingOK, FlightOK, RequestOK, HandlerOK,
         Flights, Running, Settled, Writing

-------------------------------------------------------------------------------
(* Constants and operators *)

USE RouteCacheAssumption

\* The longest TTL: CHOOSE in MaxTtl means something.
LEMMA MaxTtlIsMax == MaxTtl \in Nat \ {0} /\ \A s \in Ttls : s \in 1..MaxTtl
<1> DEFINE Longer(a, b) == IF a <= b THEN b ELSE a
           m == Longer(Longer(Longer(RouteTtl, ExpiredTtl), Longer(NegativeTtl, DomainTtl)),
                       Longer(PlanTtl, UsageTtl))
<1>1. \A a, b \in Nat : /\ Longer(a, b) \in {a, b}
                        /\ a <= Longer(a, b) /\ b <= Longer(a, b)
  OBVIOUS
<1>2. /\ RouteTtl \in Nat /\ ExpiredTtl \in Nat /\ NegativeTtl \in Nat
      /\ DomainTtl \in Nat /\ PlanTtl \in Nat /\ UsageTtl \in Nat
  BY DEF Ttls
<1>3. m \in Ttls
  BY DEF Ttls
<1>4. \A s \in Ttls : s <= m
  BY <1>2 DEF Ttls
<1>5. MaxTtl \in Ttls /\ \A s \in Ttls : s <= MaxTtl
  BY <1>3, <1>4 DEF MaxTtl
<1> QED
  BY <1>5

LEMMA NothingCached ==
  /\ Nothing \in Entries /\ Nothing.snapshot = "none"
  /\ \A e \in Entries : e # Nothing => e.snapshot \in Snapshots /\ e.ttl \in 1..MaxTtl
  BY DEF Nothing, Entries

LEMMA AgedIsEntry ==
  ASSUME NEW e \in Entries
  PROVE  Aged(e) \in Entries
<1>1. CASE e.ttl <= 1
  BY <1>1, NothingCached DEF Aged
<1>2. CASE ~(e.ttl <= 1)
  <2>1. e \in [snapshot : Snapshots, ttl : 1..MaxTtl]
    BY <1>2 DEF Entries, Nothing
  <2>2. e.ttl \in 1..MaxTtl /\ e.ttl - 1 \in 1..MaxTtl
    BY <1>2, <2>1, MaxTtlIsMax
  <2>3. [e EXCEPT !.ttl = @ - 1] \in [snapshot : Snapshots, ttl : 1..MaxTtl]
    BY <2>1, <2>2
  <2> QED
    BY <1>2, <2>3 DEF Aged, Entries
<1> QED
  BY <1>1, <1>2

\* What MongoDB answers to a load.
LEMMA StoredIsSnapshot == TypeOK => Stored \in Snapshots
  BY DEF TypeOK, Stored, FindRoute, FindVerifiedDomain, FindPlan, FindUsage, Snapshots

\* A TTL that passes the check is one that typed entries admit.
LEMMA TtlIsTyped ==
  ASSUME TypeOK, NEW s \in Snapshots, TtlOf(s) >= 1
  PROVE  TtlOf(s) \in 1..MaxTtl
<1>1. document.life \in Nat
  BY DEF TypeOK
<1>2. /\ RouteTtl \in Nat /\ RouteTtl \in 1..MaxTtl /\ ExpiredTtl \in 1..MaxTtl
      /\ NegativeTtl \in 1..MaxTtl /\ DomainTtl \in 1..MaxTtl
      /\ PlanTtl \in 1..MaxTtl /\ UsageTtl \in 1..MaxTtl
  BY MaxTtlIsMax DEF Ttls
<1>3. kind \in {"route", "domain", "entitlement", "usage"}
  BY DEF TypeOK
<1>4. CASE s = "missing"
  BY <1>2, <1>4 DEF TtlOf
<1>5. CASE s # "missing" /\ kind = "route"
  BY <1>1, <1>2, <1>5, MaxTtlIsMax DEF TtlOf, getRouteTtlSeconds
<1>6. CASE s # "missing" /\ kind # "route"
  BY <1>2, <1>3, <1>6 DEF TtlOf
<1> QED
  BY <1>4, <1>5, <1>6

\* The one answer that lets somebody in, of a link or of a plan, looks at the clock.
LEMMA AnswersLookAtTheClock ==
  ASSUME TypeOK, NEW s \in Snapshots
  PROVE  /\ AnswerTo(s) \in Answers
         /\ AnswerTo(s) \in {"302", "paid"} => document.life > 0
<1>1. kind \in {"route", "domain", "entitlement", "usage"} /\ document.life \in Nat
  BY DEF TypeOK
<1>2. CASE kind = "route"
  BY <1>1, <1>2 DEF AnswerTo, AnswerToRoute, Snapshots, Answers
<1>3. CASE kind = "domain"
  BY <1>3 DEF AnswerTo, AnswerToDomain, Answers
<1>4. CASE kind = "entitlement"
  BY <1>1, <1>4 DEF AnswerTo, EffectivePlan, Answers
<1>5. CASE kind = "usage"
  BY <1>5 DEF AnswerTo, ClickLimit, Answers
<1> QED
  BY <1>1, <1>2, <1>3, <1>4, <1>5
-------------------------------------------------------------------------------
(* Parts of the state that actions change alike *)

\* A process sends a command.
LEMMA SendKeepsOrder ==
  ASSUME PendingOK, NEW p \in Procs, NEW c \in Commands, Send(p, c)
  PROVE  PendingOK'
<1>1. pending[p] \in Seq(Commands) /\ Len(pending[p]) < MaxPending
  BY DEF PendingOK, Send
<1>2. Append(pending[p], c) \in Seq(Commands) /\ Len(Append(pending[p], c)) <= MaxPending
  BY <1>1
<1>3. pending' = [pending EXCEPT ![p] = Append(pending[p], c)]
  BY DEF Send
<1> QED
  BY <1>2, <1>3 DEF PendingOK

\* The commands of a process, or all but the first, are no longer under way.
LEMMA DropKeepsOrder ==
  ASSUME PendingOK, NEW p \in Procs, NEW q \in Seq(Commands), Len(q) <= MaxPending,
         pending' = [pending EXCEPT ![p] = q]
  PROVE  PendingOK'
  BY DEF PendingOK

\* The requests that share a load go on with its result.
LEMMA EndFlightResolves ==
  ASSUME RequestOK, FlightOK, NEW p \in Procs, flight[p].pc \in {"read", "setting"}, EndFlight(p)
  PROVE  FlightOK' /\ RequestOK'
<1>1. flight[p].snapshot \in Snapshots
  BY DEF FlightOK, Flights, NoFlight
<1>2. FlightOK'
  BY DEF FlightOK, EndFlight, Flights
<1>3. \A r \in Requests :
        \/ /\ request[r] \in Running
           /\ request'[r] = [request[r] EXCEPT !.pc = "resolved", !.snapshot = flight[p].snapshot]
        \/ request'[r] = request[r]
  <2> TAKE r \in Requests
  <2>1. CASE r \in WaitingIn(p)
    <3>1. request[r] \in Running
      BY <2>1 DEF RequestOK, WaitingIn, Idle
    <3> QED
      BY <2>1, <3>1 DEF EndFlight
  <2>2. CASE r \notin WaitingIn(p)
    BY <2>2 DEF EndFlight
  <2> QED
    BY <2>1, <2>2
<1>4. request' \in [Requests -> {Idle} \cup Running]
  <2>1. ASSUME NEW r \in Requests
        PROVE  request'[r] \in {Idle} \cup Running
    <3>1. ASSUME request[r] \in Running
          PROVE  [request[r] EXCEPT !.pc = "resolved", !.snapshot = flight[p].snapshot] \in Running
      BY <1>1, <3>1 DEF Running
    <3> QED
      BY <1>3, <3>1 DEF RequestOK
  <2>2. request' = [r \in Requests |-> request'[r]]
    BY DEF EndFlight
  <2> QED
    BY <2>1, <2>2
<1>5. \A r \in Requests : request'[r].pc = "resolved" => request'[r].snapshot \in Snapshots
  BY <1>1, <1>3 DEF RequestOK, Running
<1> QED
  BY <1>2, <1>4, <1>5 DEF RequestOK

\* One request moves to another record of its type.
LEMMA RequestMoves ==
  ASSUME RequestOK, NEW r \in Requests, NEW q \in {Idle} \cup Running,
         q.pc = "resolved" => q.snapshot \in Snapshots,
         request' = [request EXCEPT ![r] = q]
  PROVE  RequestOK'
  BY DEF RequestOK

-------------------------------------------------------------------------------
(* The steps *)

LEMMA RequestSteps ==
  ASSUME IInv, NEW r \in Requests, Begin(r) \/ RequestStep(r), UNCHANGED kind
  PROVE  IInv'
<1> USE DEF IInv
<1>1. /\ request[r] \in {Idle} \cup Running
      /\ request[r].pc = "resolved" => request[r].snapshot \in Snapshots
  BY DEF RequestOK
<1>2. request[r].pc # "idle" => request[r] \in Running
  BY <1>1 DEF Idle
<1>3. CASE Begin(r)
  <2>1. PICK p \in Procs :
          request' = [request EXCEPT ![r] =
            [pc |-> "get", proc |-> p, snapshot |-> "none",
             late |-> ExpiryAcknowledged, ended |-> HasEnded, answer |-> "none"]]
    BY <1>3 DEF Begin
  <2>2. ExpiryAcknowledged \in BOOLEAN /\ HasEnded \in BOOLEAN
    BY DEF ExpiryAcknowledged, HasEnded
  <2>3. [pc |-> "get", proc |-> p, snapshot |-> "none",
         late |-> ExpiryAcknowledged, ended |-> HasEnded, answer |-> "none"] \in Running
    BY <2>2 DEF Running
  <2>4. RequestOK'
    BY <2>1, <2>3, RequestMoves
  <2> QED
    BY <1>3, <2>4 DEF Begin, PendingOK, FlightOK, HandlerOK
<1>4. CASE CacheHit(r)
  <2>1. entry.snapshot \in Snapshots /\ request[r] \in Running
    BY <1>2, <1>4, NothingCached DEF CacheHit
  <2> DEFINE q == [request[r] EXCEPT !.pc = "resolved", !.snapshot = entry.snapshot]
  <2>2. q \in Running /\ q.snapshot \in Snapshots
    BY <2>1 DEF Running
  <2>3. request' = [request EXCEPT ![r] = q]
    BY <1>1, <1>4 DEF CacheHit, RequestOK
  <2> HIDE DEF q
  <2>4. RequestOK'
    BY <2>2, <2>3, RequestMoves
  <2> QED
    BY <1>4, <2>4 DEF CacheHit, PendingOK, FlightOK, HandlerOK
<1>5. CASE CacheMiss(r)
  <2> DEFINE q == [request[r] EXCEPT !.pc = "missed"]
  <2>1. q \in Running /\ q.pc = "missed"
    BY <1>2, <1>5 DEF CacheMiss, Running
  <2>2. request' = [request EXCEPT ![r] = q]
    BY <1>5 DEF CacheMiss
  <2> HIDE DEF q
  <2>3. RequestOK'
    BY <2>1, <2>2, RequestMoves
  <2> QED
    BY <1>5, <2>3 DEF CacheMiss, PendingOK, FlightOK, HandlerOK
<1>6. CASE JoinFlight(r)
  <2> DEFINE q == [request[r] EXCEPT !.pc = "waiting"]
  <2>1. q \in Running /\ q.pc = "waiting" /\ request[r].proc \in Procs
    BY <1>2, <1>6 DEF JoinFlight, Running
  <2>2. request' = [request EXCEPT ![r] = q]
    BY <1>6 DEF JoinFlight
  <2>3. FlightOK'
    BY <1>6, <2>1 DEF JoinFlight, FlightOK, Flights, NoFlight
  <2> HIDE DEF q
  <2>4. RequestOK'
    BY <2>1, <2>2, RequestMoves
  <2> QED
    BY <1>6, <2>3, <2>4 DEF JoinFlight, PendingOK, HandlerOK
<1>7. CASE Check(r)
  <2> DEFINE a == AnswerTo(request[r].snapshot)
             c == IF a \in Refusals THEN "answered" ELSE "admitted"
             q == [request[r] EXCEPT !.pc = c, !.snapshot = "none", !.answer = a]
  <2>1. request[r] \in Running /\ a \in Answers
    BY <1>1, <1>2, <1>7, Typed, AnswersLookAtTheClock DEF Check
  <2>2. request' = [request EXCEPT ![r] = q]
    BY <1>7 DEF Check
  <2>3. c \in {"answered", "admitted"}
    OBVIOUS
  <2> HIDE DEF a, c
  <2>4. q \in Running /\ q.pc = c
    BY <2>1, <2>3 DEF Running
  <2> HIDE DEF q
  <2>5. RequestOK'
    BY <2>2, <2>3, <2>4, RequestMoves
  <2> QED
    BY <1>7, <2>5 DEF Check, PendingOK, FlightOK, HandlerOK
<1>8. CASE Respond(r)
  <2>1. PICK a \in {request[r].answer, "500"} :
          request' = [request EXCEPT ![r].pc = "answered", ![r].answer = a]
    BY <1>8 DEF Respond
  <2> DEFINE q == [request[r] EXCEPT !.pc = "answered", !.answer = a]
  <2>2. request[r] \in Running /\ a \in {"none"} \cup Answers
    BY <1>2, <1>8, <2>1 DEF Respond, Running, Answers
  <2>3. q \in Running /\ q.pc = "answered"
    BY <2>2 DEF Running
  <2>4. request' = [request EXCEPT ![r] = q]
    BY <2>1
  <2> HIDE DEF q
  <2>5. RequestOK'
    BY <2>3, <2>4, RequestMoves
  <2> QED
    BY <1>8, <2>5 DEF Respond, PendingOK, FlightOK, HandlerOK
<1>9. CASE Close(r)
  <2>1. Idle.pc = "idle"
    BY DEF Idle
  <2>2. RequestOK'
    BY <1>9, <2>1, RequestMoves DEF Close
  <2> QED
    BY <1>9, <2>2 DEF Close, PendingOK, FlightOK, HandlerOK
<1> QED
  BY <1>3, <1>4, <1>5, <1>6, <1>7, <1>8, <1>9 DEF RequestStep

LEMMA FlightSteps ==
  ASSUME IInv, NEW p \in Procs, FlightStep(p), UNCHANGED kind
  PROVE  IInv'
<1> USE DEF IInv
<1>1. flight[p] \in Flights
  BY DEF FlightOK
<1>2. CASE ReadDatabase(p)
  <2>1. Stored \in Snapshots
    BY Typed, StoredIsSnapshot
  <2>2. [pc |-> "read", snapshot |-> Stored] \in Flights
    BY <2>1 DEF Flights
  <2>3. FlightOK'
    BY <1>2, <2>2 DEF ReadDatabase, FlightOK
  <2> QED
    BY <1>2, <2>3 DEF ReadDatabase, PendingOK, RequestOK, HandlerOK
<1>3. CASE ReadFails(p)
  <2>1. FlightOK'
    BY <1>3 DEF ReadFails, FlightOK, Flights
  <2>2. ASSUME NEW r \in Requests
        PROVE  /\ request'[r] \in {Idle} \cup Running
               /\ request'[r].pc = "resolved" => request'[r].snapshot \in Snapshots
    <3>1. CASE r \in WaitingIn(p)
      <4>1. request[r] \in Running
        BY <3>1 DEF RequestOK, WaitingIn, Idle
      <4>2. request'[r] = [request[r] EXCEPT !.pc = "answered", !.answer = "500"]
        BY <1>3, <3>1 DEF ReadFails
      <4> QED
        BY <4>1, <4>2 DEF Running, Answers
    <3>2. CASE r \notin WaitingIn(p)
      BY <1>3, <3>2 DEF ReadFails, RequestOK
    <3> QED
      BY <3>1, <3>2
  <2>3. request' = [r \in Requests |-> request'[r]]
    BY <1>3 DEF ReadFails
  <2>4. RequestOK'
    BY <2>2, <2>3 DEF RequestOK
  <2> QED
    BY <1>3, <2>1, <2>4 DEF ReadFails, PendingOK, HandlerOK
<1>4. CASE CacheRoute(p)
  <2> DEFINE s == flight[p].snapshot
             c == [snapshot |-> s, ttl |-> TtlOf(s)]
  <2>1. s \in Snapshots
    BY <1>1, <1>4 DEF CacheRoute, Flights, NoFlight
  <2>2. TtlOf(s) \in 1..MaxTtl
    BY <1>4, <2>1, Typed, TtlIsTyped DEF CacheRoute
  <2>3. c \in Commands
    BY <2>1, <2>2 DEF Commands, Entries
  <2>4. Send(p, c)
    BY <1>4 DEF CacheRoute
  <2> HIDE DEF c
  <2>5. PendingOK'
    BY <2>3, <2>4, SendKeepsOrder
  <2>6. flight[p] \in [pc : {"read", "setting"}, snapshot : Snapshots]
    BY <1>1, <1>4 DEF CacheRoute, Flights, NoFlight
  <2>7. [flight[p] EXCEPT !.pc = "setting"] \in Flights
    BY <2>6 DEF Flights
  <2>8. FlightOK'
    BY <1>4, <2>7 DEF CacheRoute, FlightOK
  <2> QED
    BY <1>4, <2>5, <2>8 DEF CacheRoute, RequestOK, HandlerOK
<1>5. CASE SkipCaching(p)
  BY <1>5, EndFlightResolves DEF SkipCaching, PendingOK, HandlerOK
<1>6. CASE SetSettles(p)
  BY <1>6, EndFlightResolves DEF SetSettles, PendingOK, HandlerOK
<1> QED
  BY <1>2, <1>3, <1>4, <1>5, <1>6 DEF FlightStep

\* A handler saves the document.
LEMMA WritesDocument ==
  ASSUME IInv, NEW h \in Handlers, NEW p \in Procs, NEW snapshot \in Snapshots,
         NEW life \in 0..MaxLife, Writes(h, p, snapshot, life), UNCHANGED kind
  PROVE  IInv'
<1>1. document' \in Documents
  BY DEF Writes, Documents
<1>2. HandlerOK'
  BY DEF IInv, Writes, HandlerOK, Writing
<1> QED
  BY <1>1, <1>2 DEF IInv, Writes, PendingOK, FlightOK, RequestOK

LEMMA WriteSteps ==
  ASSUME IInv, NEW p \in Procs, Write(p), UNCHANGED kind
  PROVE  IInv'
<1>1. document.life \in 0..MaxLife /\ 0 \in 0..MaxLife /\ 1..MaxLife \subseteq 0..MaxLife
  BY DEF IInv, Documents
<1>2. "begin" \in Handlers /\ "end" \in Handlers
  BY DEF Handlers
<1>3. "active" \in Snapshots /\ "inactive" \in Snapshots
  BY DEF Snapshots
<1>4. PICK h \in Handlers, snapshot \in Snapshots, life \in 0..MaxLife :
        Writes(h, p, snapshot, life)
  BY <1>1, <1>2, <1>3 DEF Write, CreateLink, ExpireLink, VerifyDomain, DropDomain,
                          ActivatePlan, CountClick
<1> QED
  BY <1>4, WritesDocument

LEMMA HandlerSteps ==
  ASSUME IInv, NEW h \in Handlers, HandlerStep(h), UNCHANGED kind
  PROVE  IInv'
<1> USE DEF IInv
<1> DEFINE done == [pc |-> "settled", proc |-> NoProc]
<1>1. handler[h] \in Settled \cup Writing /\ done \in Settled
  BY DEF HandlerOK, Settled
<1>2. CASE Invalidate(h)
  <2>1. handler[h] \in Writing /\ handler[h].proc \in Procs
    BY <1>1, <1>2 DEF Invalidate, Settled, Writing
  <2>2. CASE /\ Send(handler[h].proc, Nothing)
             /\ handler' = [handler EXCEPT ![h].pc = "deleting"]
    <3>1. PendingOK'
      BY <2>1, <2>2, NothingCached, SendKeepsOrder DEF Commands
    <3>2. [handler[h] EXCEPT !.pc = "deleting"] \in Writing
      BY <2>1 DEF Writing
    <3>3. HandlerOK'
      BY <2>2, <3>2 DEF HandlerOK
    <3> QED
      BY <1>2, <3>1, <3>3 DEF Invalidate, FlightOK, RequestOK
  <2>3. CASE handler' = [handler EXCEPT ![h] = done] /\ UNCHANGED pending
    <3>1. HandlerOK'
      BY <1>1, <2>3 DEF HandlerOK
    <3> QED
      BY <1>2, <2>3, <3>1 DEF Invalidate, PendingOK, FlightOK, RequestOK
  <2> QED
    BY <1>2, <2>2, <2>3 DEF Invalidate
<1>3. CASE DeleteSettles(h)
  <2>1. HandlerOK'
    BY <1>1, <1>3 DEF DeleteSettles, HandlerOK
  <2> QED
    BY <1>3, <2>1 DEF DeleteSettles, PendingOK, FlightOK, RequestOK
<1> QED
  BY <1>2, <1>3 DEF HandlerStep

\* Redis, the clock and the end of a process.
LEMMA EnvironmentSteps ==
  ASSUME IInv, UNCHANGED kind,
         Tick \/ \E p \in Procs : Apply(p) \/ Disconnect(p) \/ Restart(p)
  PROVE  IInv'
<1> USE DEF IInv
<1>1. CASE Tick
  <2>1. entry' \in Entries
    BY <1>1, AgedIsEntry DEF Tick
  <2>2. document.life \in 0..MaxLife
    BY DEF Documents
  <2>3. (IF document.life = 0 THEN 0 ELSE document.life - 1) \in 0..MaxLife
    BY <2>2
  <2>4. document' \in Documents
    BY <1>1, <2>3 DEF Tick, Documents
  <2> QED
    BY <1>1, <2>1, <2>4 DEF Tick, PendingOK, FlightOK, RequestOK, HandlerOK
<1>2. ASSUME NEW p \in Procs, Apply(p)
      PROVE  IInv'
  <2>1. pending[p] \in Seq(Commands) /\ pending[p] # <<>> /\ Len(pending[p]) <= MaxPending
    BY <1>2 DEF Apply, PendingOK
  <2>2. Head(pending[p]) \in Entries
    BY <2>1 DEF Commands
  <2>3. Tail(pending[p]) \in Seq(Commands) /\ Len(Tail(pending[p])) <= MaxPending
    BY <2>1
  <2>4. PendingOK'
    BY <1>2, <2>3, DropKeepsOrder DEF Apply
  <2> QED
    BY <1>2, <2>2, <2>4 DEF Apply, FlightOK, RequestOK, HandlerOK
<1>3. <<>> \in Seq(Commands) /\ Len(<<>>) <= MaxPending
  OBVIOUS
<1>4. ASSUME NEW p \in Procs, Disconnect(p)
      PROVE  IInv'
  <2>1. PendingOK'
    BY <1>3, <1>4, DropKeepsOrder DEF Disconnect
  <2> QED
    BY <1>4, <2>1 DEF Disconnect, FlightOK, RequestOK, HandlerOK
<1>5. ASSUME NEW p \in Procs, Restart(p)
      PROVE  IInv'
  <2>1. PendingOK'
    BY <1>3, <1>5, DropKeepsOrder DEF Restart
  <2>2. FlightOK'
    BY <1>5 DEF Restart, FlightOK, Flights
  <2>3. RequestOK'
    BY <1>5 DEF Restart, RequestOK, Idle
  <2>4. HandlerOK'
    BY <1>5 DEF Restart, HandlerOK, Settled
  <2> QED
    BY <1>5, <2>1, <2>2, <2>3, <2>4 DEF Restart
<1> QED
  BY <1>1, <1>2, <1>4, <1>5

LEMMA Inductive ==
  ASSUME IInv, [Next]_vars
  PROVE  IInv'
<1>1. CASE UNCHANGED vars
  BY <1>1 DEF vars, IInv, PendingOK, FlightOK, RequestOK, HandlerOK
<1>2. CASE Next
  BY <1>2, RequestSteps, FlightSteps, WriteSteps, HandlerSteps, EnvironmentSteps
  DEF Next, OfOneKind
<1> QED
  BY <1>1, <1>2

LEMMA Invariant == Spec => []IInv
<1>1. Init => IInv
  <2> SUFFICES ASSUME Init PROVE IInv
    OBVIOUS
  <2>1. kind \in Kinds /\ document \in Documents
    BY DEF Init, Documents, Snapshots
  <2>2. entry \in Entries
    BY NothingCached DEF Init
  <2>3. PendingOK
    BY DEF Init, PendingOK
  <2>4. FlightOK /\ RequestOK /\ HandlerOK
    BY DEF Init, FlightOK, Flights, RequestOK, Idle, HandlerOK, Settled
  <2> QED
    BY <2>1, <2>2, <2>3, <2>4 DEF IInv
<1> QED
  BY <1>1, Inductive, PTL DEF Spec

(***************************************************************************)
(* The variables keep their types: a key is cached for no longer than the  *)
(* longest TTL, never for less than a second (which Redis would refuse),   *)
(* and a connection is given no command beyond its bound.                  *)
(***************************************************************************)
THEOREM TypeCorrect == Spec => []TypeOK
  BY Invariant, Typed, PTL

-------------------------------------------------------------------------------
(* Nothing that has ended is served *)

LetsIn == {"302", "paid"}

\* What a request that began after the end relies on: the end is still past.
EndedOK ==
  \A r \in Requests : request[r].ended => HasEnded /\ request[r].answer \notin LetsIn

\* No handler and no clock prolongs what has ended.
LEMMA EndIsForGood ==
  ASSUME IInv, [Next]_vars, HasEnded
  PROVE  HasEnded'
<1>1. CASE Tick /\ UNCHANGED kind
  BY <1>1 DEF Tick, HasEnded
<1>2. ASSUME NEW p \in Procs, Write(p), UNCHANGED kind
      PROVE  HasEnded'
  <2>1. ExpireLink(p)
    BY <1>2 DEF HasEnded, Write, CreateLink, VerifyDomain, DropDomain, ActivatePlan, CountClick
  <2> QED
    BY <1>2, <2>1 DEF HasEnded, ExpireLink, Writes
<1>3. CASE UNCHANGED <<kind, document>>
  BY <1>3 DEF HasEnded
<1>4. \/ Tick /\ UNCHANGED kind
      \/ \E p \in Procs : Write(p) /\ UNCHANGED kind
      \/ UNCHANGED <<kind, document>>
  BY DEF Next, vars, OfOneKind, Begin, RequestStep, CacheHit, CacheMiss, JoinFlight, Check,
         Respond, Close, FlightStep, ReadDatabase, ReadFails, CacheRoute, SkipCaching, SetSettles,
         EndFlight, Apply, Disconnect, Restart, HandlerStep, Invalidate, DeleteSettles
<1> QED
  BY <1>1, <1>2, <1>3, <1>4

\* A request keeps the flag it began with, and only Check answers it afresh.
LEMMA EndedIsRefused ==
  ASSUME IInv, EndedOK, [Next]_vars, NEW r \in Requests, request'[r].ended
  PROVE  HasEnded' /\ request'[r].answer \notin LetsIn
<1>1. request \in [Requests -> {Idle} \cup Running]
  BY DEF IInv, RequestOK
<1>2. /\ Idle.answer \notin LetsIn /\ ~Idle.ended
      /\ "500" \notin LetsIn /\ "none" \notin LetsIn
  BY DEF Idle, LetsIn
<1>3. request[r] \in Running \/ request[r] = Idle
  BY <1>1
<1>4. SUFFICES \/ HasEnded /\ request'[r].answer \notin LetsIn
               \/ request[r].ended /\ request'[r].answer \in {request[r].answer, "500"}
  BY <1>2, EndIsForGood DEF EndedOK
<1>5. CASE request'[r] = request[r]
  BY <1>5
<1>6. ASSUME Begin(r) \/ RequestStep(r)
      PROVE  \/ HasEnded /\ request'[r].answer \notin LetsIn
             \/ request[r].ended /\ request'[r].answer \in {request[r].answer, "500"}
  <2>1. CASE Begin(r)
    BY <1>1, <1>2, <2>1 DEF Begin
  <2>2. CASE CacheHit(r) \/ CacheMiss(r) \/ JoinFlight(r)
    BY <1>1, <1>3, <2>2 DEF CacheHit, CacheMiss, JoinFlight, Running, Idle
  <2>3. CASE Check(r)
    <3>1. request[r] \in Running /\ request[r].snapshot \in Snapshots
      BY <1>3, <2>3 DEF Check, Idle, IInv, RequestOK
    <3>2. /\ request'[r].ended = request[r].ended
          /\ request'[r].answer = AnswerTo(request[r].snapshot)
      BY <1>1, <2>3, <3>1 DEF Check, Running
    <3>3. HasEnded /\ document.life = 0
      BY <3>2 DEF EndedOK, HasEnded
    <3>4. AnswerTo(request[r].snapshot) \notin LetsIn
      BY <3>1, <3>3, Typed, AnswersLookAtTheClock DEF LetsIn
    <3> QED
      BY <3>2, <3>3, <3>4
  <2>4. CASE Respond(r)
    <3>1. request[r] \in Running
      BY <1>3, <2>4 DEF Respond, Idle
    <3> QED
      BY <1>1, <2>4, <3>1 DEF Respond, Running
  <2>5. CASE Close(r)
    BY <1>1, <1>2, <2>5 DEF Close
  <2> QED
    BY <1>6, <2>1, <2>2, <2>3, <2>4, <2>5 DEF RequestStep
<1>7. ASSUME NEW p \in Procs, ReadFails(p) \/ EndFlight(p) \/ Restart(p)
      PROVE  request[r].ended /\ request'[r].answer \in {request[r].answer, "500"}
  <2>1. r \in WaitingIn(p) => request[r] \in Running
    BY <1>1 DEF WaitingIn, Idle
  <2>2. CASE ReadFails(p)
    BY <2>1, <2>2 DEF ReadFails, Running
  <2>3. CASE EndFlight(p)
    BY <2>1, <2>3 DEF EndFlight, Running
  <2>4. CASE Restart(p)
    BY <1>2, <2>4 DEF Restart
  <2> QED
    BY <1>7, <2>2, <2>3, <2>4
<1>8. \/ request'[r] = request[r]
      \/ Begin(r) \/ RequestStep(r)
      \/ \E p \in Procs : ReadFails(p) \/ EndFlight(p) \/ Restart(p)
  <2>1. ASSUME NEW q \in Requests, q # r, Begin(q) \/ RequestStep(q)
        PROVE  request'[r] = request[r]
    BY <1>1, <2>1 DEF Begin, RequestStep, CacheHit, CacheMiss, JoinFlight, Check, Respond, Close
  <2>2. \/ request' = request
        \/ \E q \in Requests : Begin(q) \/ RequestStep(q)
        \/ \E p \in Procs : ReadFails(p) \/ EndFlight(p) \/ Restart(p)
    BY DEF Next, vars, OfOneKind, FlightStep, ReadDatabase, CacheRoute, SkipCaching, SetSettles,
           Write, CreateLink, ExpireLink, VerifyDomain, DropDomain, ActivatePlan, CountClick,
           Writes, Apply, Disconnect, HandlerStep, Invalidate, DeleteSettles, Tick
  <2> QED
    BY <2>1, <2>2
<1> QED
  BY <1>5, <1>6, <1>7, <1>8

(***************************************************************************)
(* A request that begins after the end of the link or of the paid period   *)
(* is neither redirected nor granted the plan, however old the snapshot,   *)
(* however late its setEx and whichever load it shares: no handler puts    *)
(* the end off, and the request's own check meets a clock past it.         *)
(***************************************************************************)
THEOREM NothingEnded == Spec => []NothingEndedIsServed
<1>1. Init => EndedOK
  BY DEF Init, EndedOK, Idle
<1>2. IInv /\ EndedOK /\ [Next]_vars => EndedOK'
  BY EndedIsRefused DEF EndedOK
<1>3. EndedOK => NothingEndedIsServed
  BY DEF EndedOK, NothingEndedIsServed, LetsIn
<1> QED
  BY <1>1, <1>2, <1>3, Invariant, PTL DEF Spec

-------------------------------------------------------------------------------
(* Stale copies *)

\* Every copy of the document is as MongoDB has it: the entry, the commands not yet applied,
\* what loads have read and what requests have found.
EntryFresh == entry.snapshot \in {"none", Stored}
PendingFresh ==
  \A p \in Procs : \A i \in 1..Len(pending[p]) : pending[p][i].snapshot \in {"none", Stored}
FlightsFresh == \A p \in Procs : flight[p].snapshot \in {"none", Stored}
RequestsFresh == \A r \in Requests : request[r].snapshot \in {"none", Stored}

Fresh == EntryFresh /\ PendingFresh /\ FlightsFresh /\ RequestsFresh

\* What a step does to the copies, while the stored document stays as it is.
LEMMA EntryStaysFresh ==
  ASSUME IInv, [Next]_vars, Fresh, Stored' = Stored
  PROVE  EntryFresh'
<1>1. Nothing.snapshot = "none" /\ entry \in Entries
  BY NothingCached DEF IInv
<1>2. CASE Tick
  <2>1. Aged(entry) = Nothing \/ Aged(entry).snapshot = entry.snapshot
    BY <1>1 DEF Aged, Entries, Nothing
  <2> QED
    BY <1>1, <1>2, <2>1 DEF Tick, Fresh, EntryFresh
<1>3. ASSUME NEW p \in Procs, Apply(p)
      PROVE  EntryFresh'
  <2>1. pending[p] \in Seq(Commands) /\ pending[p] # <<>>
    BY <1>3 DEF IInv, PendingOK, Apply
  <2>2. 1 \in 1..Len(pending[p]) /\ entry' = pending[p][1]
    BY <1>3, <2>1 DEF Apply
  <2> QED
    BY <2>2 DEF Fresh, PendingFresh, EntryFresh
<1>4. CASE UNCHANGED entry
  BY <1>4 DEF Fresh, EntryFresh
<1>5. Tick \/ (\E p \in Procs : Apply(p)) \/ UNCHANGED entry
  BY DEF Next, vars, OfOneKind, Begin, RequestStep, CacheHit, CacheMiss, JoinFlight, Check, Respond,
         Close, FlightStep, ReadDatabase, ReadFails, CacheRoute, SkipCaching, SetSettles,
         Write, CreateLink, ExpireLink, VerifyDomain, DropDomain, ActivatePlan, CountClick,
         Writes, Disconnect, Restart, HandlerStep, Invalidate, DeleteSettles
<1> QED
  BY <1>2, <1>3, <1>4, <1>5

LEMMA PendingStaysFresh ==
  ASSUME IInv, [Next]_vars, Fresh, Stored' = Stored
  PROVE  PendingFresh'
<1> USE DEF Fresh, PendingFresh
<1>1. /\ pending \in [Procs -> Seq(Commands)]
      /\ Nothing \in Commands /\ Nothing.snapshot = "none"
  BY NothingCached DEF IInv, PendingOK, Commands
<1>2. ASSUME NEW p \in Procs, NEW c \in Commands, c.snapshot \in {"none", Stored}, Send(p, c)
      PROVE  PendingFresh'
  <2> SUFFICES ASSUME NEW q \in Procs, NEW i \in 1..Len(pending'[q])
               PROVE  pending'[q][i].snapshot \in {"none", Stored}
    OBVIOUS
  <2>1. CASE q = p
    <3>1. pending[p] \in Seq(Commands) /\ pending'[p] = Append(pending[p], c)
      BY <1>1, <1>2 DEF Send
    <3>2. i \in 1..Len(pending[p]) \/ pending'[p][i] = c
      BY <2>1, <3>1
    <3>3. i \in 1..Len(pending[p]) => pending'[p][i] = pending[p][i]
      BY <3>1
    <3> QED
      BY <1>2, <2>1, <3>2, <3>3
  <2>2. CASE q # p
    BY <1>1, <1>2, <2>2 DEF Send
  <2> QED
    BY <2>1, <2>2
<1>3. ASSUME NEW p \in Procs, Apply(p)
      PROVE  PendingFresh'
  <2> SUFFICES ASSUME NEW q \in Procs, NEW i \in 1..Len(pending'[q])
               PROVE  pending'[q][i].snapshot \in {"none", Stored}
    OBVIOUS
  <2>1. CASE q = p
    <3>1. pending[p] \in Seq(Commands) /\ pending[p] # <<>> /\ pending'[p] = Tail(pending[p])
      BY <1>1, <1>3 DEF Apply
    <3>2. i + 1 \in 1..Len(pending[p]) /\ pending'[p][i] = pending[p][i + 1]
      BY <2>1, <3>1
    <3> QED
      BY <2>1, <3>2
  <2>2. CASE q # p
    BY <1>1, <1>3, <2>2 DEF Apply
  <2> QED
    BY <2>1, <2>2
<1>4. ASSUME NEW p \in Procs, pending' = [pending EXCEPT ![p] = <<>>]
      PROVE  PendingFresh'
  <2>1. \A q \in Procs : pending'[q] = <<>> \/ pending'[q] = pending[q]
    BY <1>1, <1>4
  <2>2. 1..Len(<<>>) = {}
    OBVIOUS
  <2> QED
    BY <2>1, <2>2
<1>5. ASSUME NEW p \in Procs, CacheRoute(p)
      PROVE  PendingFresh'
  <2> DEFINE s == flight[p].snapshot
             c == [snapshot |-> s, ttl |-> TtlOf(s)]
  <2>1. s \in Snapshots
    BY <1>5 DEF IInv, FlightOK, Flights, CacheRoute, NoFlight
  <2>2. TtlOf(s) \in 1..MaxTtl
    BY <1>5, <2>1, Typed, TtlIsTyped DEF CacheRoute
  <2>3. c \in Commands /\ c.snapshot = s
    BY <2>1, <2>2 DEF Commands, Entries
  <2>4. s \in {"none", Stored}
    BY DEF FlightsFresh
  <2>5. Send(p, c)
    BY <1>5 DEF CacheRoute
  <2> HIDE DEF c
  <2> QED
    BY <1>2, <2>3, <2>4, <2>5
<1>6. ASSUME NEW h \in Handlers, Invalidate(h)
      PROVE  PendingFresh'
  <2>1. handler[h].proc \in Procs
    BY <1>6 DEF IInv, HandlerOK, Settled, Writing, Invalidate
  <2> QED
    BY <1>1, <1>2, <1>6, <2>1 DEF Invalidate
<1>7. CASE UNCHANGED pending
  BY <1>7
<1>8. \/ UNCHANGED pending
      \/ \E h \in Handlers : Invalidate(h)
      \/ \E p \in Procs : CacheRoute(p) \/ Apply(p) \/ Disconnect(p) \/ Restart(p)
  BY DEF Next, vars, OfOneKind, Begin, RequestStep, CacheHit, CacheMiss, JoinFlight, Check, Respond,
         Close, FlightStep, ReadDatabase, ReadFails, SkipCaching, SetSettles,
         Write, CreateLink, ExpireLink, VerifyDomain, DropDomain, ActivatePlan, CountClick,
         Writes, HandlerStep, DeleteSettles, Tick
<1> QED
  BY <1>3, <1>4, <1>5, <1>6, <1>7, <1>8 DEF Disconnect, Restart

LEMMA FlightsStayFresh ==
  ASSUME IInv, [Next]_vars, Fresh, Stored' = Stored
  PROVE  FlightsFresh'
<1> USE DEF Fresh, FlightsFresh
<1>1. flight \in [Procs -> Flights] /\ NoFlight.snapshot = "none"
  BY DEF IInv, FlightOK, NoFlight
<1>2. ASSUME NEW p \in Procs, ReadDatabase(p)
      PROVE  FlightsFresh'
  BY <1>1, <1>2 DEF ReadDatabase
<1>3. ASSUME NEW p \in Procs, flight' = [flight EXCEPT ![p] = NoFlight]
      PROVE  FlightsFresh'
  BY <1>1, <1>3
<1>4. ASSUME NEW p \in Procs, NEW c \in {"reading", "setting"},
             flight' = [flight EXCEPT ![p].pc = c]
      PROVE  FlightsFresh'
  <2>1. [flight[p] EXCEPT !.pc = c].snapshot = flight[p].snapshot
    BY <1>1 DEF Flights, NoFlight
  <2> QED
    BY <1>1, <1>4, <2>1
<1>5. ASSUME NEW r \in Requests, JoinFlight(r)
      PROVE  FlightsFresh'
  <2>1. request[r] \in Running
    BY <1>5 DEF IInv, RequestOK, Idle, JoinFlight
  <2> QED
    BY <1>4, <1>5, <2>1 DEF JoinFlight, Running
<1>6. CASE UNCHANGED flight
  BY <1>6
<1>7. \/ UNCHANGED flight
      \/ \E r \in Requests : JoinFlight(r)
      \/ \E p \in Procs : \/ ReadDatabase(p) \/ ReadFails(p) \/ CacheRoute(p)
                          \/ EndFlight(p) \/ Restart(p)
  BY DEF Next, vars, OfOneKind, Begin, RequestStep, CacheHit, CacheMiss, Check, Respond, Close,
         FlightStep, SkipCaching, SetSettles,
         Write, CreateLink, ExpireLink, VerifyDomain, DropDomain, ActivatePlan, CountClick,
         Writes, Apply, Disconnect, HandlerStep, Invalidate, DeleteSettles, Tick
<1> QED
  BY <1>2, <1>3, <1>4, <1>5, <1>6, <1>7 DEF ReadFails, CacheRoute, EndFlight, Restart

LEMMA RequestsStayFresh ==
  ASSUME IInv, [Next]_vars, Fresh, Stored' = Stored
  PROVE  RequestsFresh'
<1> USE DEF Fresh, RequestsFresh
<1>1. request \in [Requests -> {Idle} \cup Running] /\ Idle.snapshot = "none"
  BY DEF IInv, RequestOK, Idle
<1>2. ASSUME NEW r \in Requests, Begin(r) \/ RequestStep(r)
      PROVE  RequestsFresh'
  <2>1. \A q \in Requests : q # r => request'[q] = request[q]
    BY <1>1, <1>2 DEF Begin, RequestStep, CacheHit, CacheMiss, JoinFlight, Check, Respond, Close
  <2>2. request'[r].snapshot \in {"none", entry.snapshot, request[r].snapshot}
    <3>1. request[r] \in {Idle} \cup Running
      BY <1>1
    <3>2. request[r].pc # "idle" => request[r] \in Running
      BY <3>1 DEF Idle
    <3>3. CASE Begin(r) \/ Close(r)
      BY <1>1, <3>3 DEF Begin, Close
    <3>4. CASE Check(r) \/ Respond(r)
      BY <1>1, <3>2, <3>4 DEF Check, Respond, Running
    <3>5. CASE CacheHit(r)
      BY <1>1, <3>2, <3>5 DEF CacheHit, Running
    <3>6. CASE CacheMiss(r) \/ JoinFlight(r)
      BY <1>1, <3>2, <3>6 DEF CacheMiss, JoinFlight, Running
    <3> QED
      BY <1>2, <3>3, <3>4, <3>5, <3>6 DEF RequestStep
  <2> QED
    BY <2>1, <2>2 DEF EntryFresh
<1>3. ASSUME NEW p \in Procs, ReadFails(p) \/ EndFlight(p) \/ Restart(p)
      PROVE  RequestsFresh'
  <2> SUFFICES ASSUME NEW r \in Requests
               PROVE  request'[r].snapshot \in {"none", Stored}
    OBVIOUS
  <2>1. r \in WaitingIn(p) => request[r] \in Running
    BY <1>1 DEF WaitingIn, Idle
  <2>2. request'[r].snapshot \in {"none", request[r].snapshot, flight[p].snapshot}
    <3>1. CASE ReadFails(p)
      BY <2>1, <3>1 DEF ReadFails, Running
    <3>2. CASE EndFlight(p)
      BY <2>1, <3>2 DEF EndFlight, Running
    <3>3. CASE Restart(p)
      BY <1>1, <3>3 DEF Restart
    <3> QED
      BY <1>3, <3>1, <3>2, <3>3
  <2> QED
    BY <2>2 DEF FlightsFresh
<1>4. CASE UNCHANGED request
  BY <1>4
<1>5. \/ UNCHANGED request
      \/ \E r \in Requests : Begin(r) \/ RequestStep(r)
      \/ \E p \in Procs : ReadFails(p) \/ EndFlight(p) \/ Restart(p)
  BY DEF Next, vars, OfOneKind, FlightStep, ReadDatabase, CacheRoute, SkipCaching, SetSettles,
         Write, CreateLink, ExpireLink, VerifyDomain, DropDomain, ActivatePlan, CountClick,
         Writes, Apply, Disconnect, HandlerStep, Invalidate, DeleteSettles, Tick
<1> QED
  BY <1>2, <1>3, <1>4, <1>5

(***************************************************************************)
(* Stale copies only stem from stale copies.  Once all that the cache, its *)
(* connections, the loads and the requests hold agrees with MongoDB, it    *)
(* does until MongoDB's document changes, whatever is lost, late, repeated *)
(* or restarted.  This is the safe half of CacheConverges; the other half  *)
(* is that the stale copies that a write leaves behind disappear.          *)
(***************************************************************************)
THEOREM FreshStaysFresh == Spec => [][Fresh /\ Stored' = Stored => Fresh']_vars
<1>1. ASSUME IInv, [Next]_vars
      PROVE  [Fresh /\ Stored' = Stored => Fresh']_vars
  BY <1>1, EntryStaysFresh, PendingStaysFresh, FlightsStayFresh, RequestsStayFresh DEF Fresh
<1> QED
  BY <1>1, Invariant, PTL DEF Spec
===============================================================================
