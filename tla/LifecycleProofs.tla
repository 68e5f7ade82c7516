---------------------------- MODULE LifecycleProofs ----------------------------
(***************************************************************************)
(* Proofs about processes, their requests and the rate limiter, for any    *)
(* number of processes and requests and any limit; and about the polling   *)
(* worker that runs in them, for any batch size, any number of jobs and    *)
(* however many runs might overlap.                                        *)
(***************************************************************************)
EXTENDS Lifecycle, PollingWorker, TLAPS

\* Only a process that is up and serves HTTP listens, and requests end with it.
ServingInv ==
  /\ \A p \in Processes :
       /\ process[p].listening \/ Phase(p) = "draining" => Kind(p) = "api"
       /\ Phase(p) = "caching" => process[p].db
  /\ \A r \in Requests :
       request[r] # IdleRequest =>
         /\ Kind(request[r].on) = "api"
         /\ Phase(request[r].on) \notin {"down", "starting", "caching"}

IInv == TypeOK /\ ServingInv /\ DrainedBeforeClosing

(***************************************************************************)
(* A request is counted in the window it has read or in the next one.  As  *)
(* long as a bucket may be counted in, it has counted all that passed; a   *)
(* bucket that may have been deleted is counted in no more.                *)
(***************************************************************************)
LimitInv ==
  /\ \A r \in Requests : asked[r] # Nothing => asked[r] <= now /\ now <= asked[r] + 1
  /\ \A w \in Windows : /\ passed[w] <= Max
                        /\ now < ExpiresAt(w) => passed[w] <= bucket[w]

-----------------------------------------------------------------------------
(* The rate limiter *)

LEMMA Constants ==
  /\ Max \in Nat /\ Max > 0 /\ MaxTime \in Nat
  /\ Windows \subseteq Nat /\ 0 \in Windows /\ Nothing \notin Windows
  BY LimiterAssumption DEF Windows, Nothing

\* What the steps of this module do to the limiter: nothing, one of its actions, or
\* dropping what requests have asked.
LimiterStep ==
  \/ UNCHANGED limiterVars
  \/ \E r \in Requests : ReadClock(r) \/ ConsumeRateLimit(r) \/ StoreFails(r)
  \/ /\ \E A \in SUBSET Requests :
          asked' = [r \in Requests |-> IF r \in A THEN Nothing ELSE asked[r]]
     /\ UNCHANGED <<now, bucket, passed>>
  \/ Tick \/ \E w \in Windows : ExpireBucket(w)

LEMMA LimiterTyped ==
  ASSUME LimiterTypeOK, LimiterStep
  PROVE  LimiterTypeOK'
<1> USE Constants DEF LimiterTypeOK
<1>1. CASE UNCHANGED limiterVars
  BY <1>1 DEF limiterVars
<1>2. CASE \E r \in Requests : ReadClock(r)
  BY <1>2 DEF ReadClock
<1>3. ASSUME NEW r \in Requests, ConsumeRateLimit(r) \/ StoreFails(r)
      PROVE  LimiterTypeOK'
  <2>1. PICK w \in Windows : w = asked[r]
    BY <1>3 DEF ConsumeRateLimit, StoreFails
  <2>2. bucket[w] \in 0..(Max + 1) /\ passed[w] \in Nat
    OBVIOUS
  <2>3. bucket' = bucket \/ \E n \in 0..(Max + 1) : bucket' = [bucket EXCEPT ![w] = n]
    <3>1. (IF bucket[w] > Max THEN bucket[w] ELSE bucket[w] + 1) \in 0..(Max + 1)
      BY <2>2
    <3> QED
      BY <1>3, <2>1, <3>1 DEF ConsumeRateLimit, StoreFails, Counted
  <2>4. passed' = passed \/ \E n \in Nat : passed' = [passed EXCEPT ![w] = n]
    <3>1. (IF LetsThrough(r) THEN passed[w] + 1 ELSE passed[w]) \in Nat
      BY <2>2
    <3> QED
      BY <1>3, <2>1, <3>1 DEF ConsumeRateLimit, StoreFails
  <2>5. bucket' \in [Windows -> 0..(Max + 1)] /\ passed' \in [Windows -> Nat]
    BY <2>3, <2>4
  <2> QED
    BY <1>3, <2>5 DEF ConsumeRateLimit, StoreFails
<1>4. CASE /\ \E A \in SUBSET Requests :
                asked' = [r \in Requests |-> IF r \in A THEN Nothing ELSE asked[r]]
           /\ UNCHANGED <<now, bucket, passed>>
  BY <1>4
<1>5. CASE Tick
  BY <1>5 DEF Tick, Windows
<1>6. CASE \E w \in Windows : ExpireBucket(w)
  BY <1>6 DEF ExpireBucket
<1> QED
  BY <1>1, <1>2, <1>3, <1>4, <1>5, <1>6 DEF LimiterStep

LEMMA LimiterKeeps ==
  ASSUME LimiterTypeOK, LimitInv, LimiterStep
  PROVE  LimitInv'
<1> USE Constants DEF LimiterTypeOK, LimitInv, ExpiresAt
<1>1. CASE UNCHANGED limiterVars
  BY <1>1 DEF limiterVars
<1>2. CASE \E r \in Requests : ReadClock(r)
  BY <1>2 DEF ReadClock
<1>3. ASSUME NEW r \in Requests, ConsumeRateLimit(r) \/ StoreFails(r)
      PROVE  LimitInv'
  <2>0. PICK w \in Windows : w = asked[r]
    BY <1>3 DEF ConsumeRateLimit, StoreFails
  <2>1. now \in Nat /\ w \in Nat /\ now <= w + 1
    BY <2>0
  <2>2. bucket[w] \in Nat /\ passed[w] \in Nat /\ passed[w] <= bucket[w] /\ passed[w] <= Max
    <3>1. bucket[w] \in 0..(Max + 1) /\ passed[w] \in Nat
      OBVIOUS
    <3>2. now < w + 2
      BY <2>1
    <3> QED
      BY <3>1, <3>2
  <2>3. /\ \A v \in Windows : v # w => bucket'[v] = bucket[v] /\ passed'[v] = passed[v]
        /\ \/ /\ bucket'[w] = IF bucket[w] > Max THEN bucket[w] ELSE bucket[w] + 1
              /\ passed'[w] = IF bucket[w] < Max THEN passed[w] + 1 ELSE passed[w]
           \/ bucket'[w] \in {bucket[w], bucket[w] + 1} /\ passed'[w] = passed[w]
    BY <1>3, <2>0 DEF ConsumeRateLimit, StoreFails, Counted, LetsThrough
  <2>4. passed'[w] <= Max /\ passed'[w] <= bucket'[w]
    BY <2>2, <2>3
  <2>5. now' = now /\ \A q \in Requests : asked'[q] \in {asked[q], Nothing}
    BY <1>3 DEF ConsumeRateLimit, StoreFails
  <2> QED
    BY <2>3, <2>4, <2>5
<1>4. CASE /\ \E A \in SUBSET Requests :
                asked' = [r \in Requests |-> IF r \in A THEN Nothing ELSE asked[r]]
           /\ UNCHANGED <<now, bucket, passed>>
  BY <1>4
<1>5. CASE Tick
  BY <1>5 DEF Tick
<1>6. CASE \E w \in Windows : ExpireBucket(w)
  BY <1>6 DEF ExpireBucket
<1> QED
  BY <1>1, <1>2, <1>3, <1>4, <1>5, <1>6 DEF LimiterStep

-----------------------------------------------------------------------------
(* Processes and requests *)

\* What IInv says of one process, and of one request.
ProcessOK(q) ==
  /\ q \in Process
  /\ q.listening => q.phase = "up" /\ q.db
  /\ q.listening \/ q.phase = "draining" => q.kind = "api"
  /\ q.phase = "caching" => q.db
  /\ q.phase \in {"closingCache", "closingDb", "closed"} => ~q.run

Early == {"down", "starting", "caching"}
Late == {"stopping", "closingCache", "closingDb", "closed"}

RequestOK(r) ==
  /\ request[r] \in Request
  /\ request[r] # IdleRequest =>
       /\ request[r].at \in {"limited", "handling"} /\ request[r].on \in Processes
       /\ (asked[r] # Nothing) = (request[r].at = "limited")
       /\ Kind(request[r].on) = "api"
       /\ Phase(request[r].on) \notin Early
       /\ Phase(request[r].on) \in Late => ~request[r].open

\* The invariant, process by process and request by request.
Parts ==
  /\ LimiterTypeOK /\ overrun \subseteq Processes
  /\ process = [p \in Processes |-> process[p]]
  /\ \A p \in Processes : ProcessOK(process[p])
  /\ request = [r \in Requests |-> request[r]]
  /\ \A r \in Requests : RequestOK(r)

LEMMA ByParts == (IInv <=> Parts) /\ (IInv' <=> Parts')
  BY DEF Parts, IInv, TypeOK, ServingInv, DrainedBeforeClosing, ProcessOK, RequestOK,
         Phase, Kind, Early, Late, Waiting, On, IdleRequest

USE DEF Parts

\* A process moves on, its requests and the limiter being left alone.
LEMMA ProcessMoves ==
  ASSUME IInv, NEW p \in Processes, NEW q, ProcessOK(q),
         process' = [process EXCEPT ![p] = q], UNCHANGED <<request, limiterVars>>,
         overrun' \subseteq Processes, q.kind = Kind(p),
         q.phase \in Early => Phase(p) \in Early,
         q.phase \in Late => Phase(p) \in Late \cup Early \/ Kind(p) = "health"
                             \/ Waiting(p) = {}
  PROVE  IInv'
<1>1. \A d \in Processes : process'[d] = IF d = p THEN q ELSE process[d]
  BY ByParts
<1>2. /\ LimiterTypeOK' /\ overrun' \subseteq Processes
      /\ process' = [d \in Processes |-> process'[d]]
      /\ \A d \in Processes : ProcessOK(process'[d])
      /\ request' = [r \in Requests |-> request'[r]]
  BY <1>1, ByParts DEF limiterVars, LimiterTypeOK
<1>3. ASSUME NEW r \in Requests
      PROVE  RequestOK(r)'
  <2>1. RequestOK(r) /\ request'[r] = request[r] /\ asked'[r] = asked[r]
    BY ByParts DEF limiterVars
  <2>2. CASE request[r] # IdleRequest /\ request[r].on = p
    <3>1. Phase(p) \notin Early /\ Kind(p) = "api" /\ (Phase(p) \in Late => ~request[r].open)
      BY <2>1, <2>2 DEF RequestOK
    <3>2. q.phase \notin Early /\ q.kind = "api"
      BY <3>1
    <3>3. q.phase \in Late => ~request[r].open
      BY <2>1, <2>2, <3>1 DEF Waiting, On, Early, Late
    <3> QED
      BY <1>1, <2>1, <2>2, <3>2, <3>3 DEF RequestOK, Kind, Phase
  <2>3. CASE ~(request[r] # IdleRequest /\ request[r].on = p)
    BY <1>1, <2>1, <2>3 DEF RequestOK, Kind, Phase
  <2> QED
    BY <2>2, <2>3
<1> QED
  BY <1>2, <1>3, ByParts

\* A process ends, and its requests with it.
LEMMA ProcessEnds ==
  ASSUME IInv, NEW p \in Processes, NEW code \in {0, 1}, Exit(p, code),
         overrun' \subseteq Processes
  PROVE  IInv'
<1>1. \A d \in Processes : process'[d] = IF d = p THEN Down(Kind(p), code) ELSE process[d]
  BY ByParts DEF Exit
<1>2. ProcessOK(Down(Kind(p), code))
  BY ByParts DEF ProcessOK, Down, Process, Kind
<1>3. LimiterTypeOK'
  BY ByParts DEF Exit, LimiterTypeOK
<1>4. ASSUME NEW r \in Requests
      PROVE  RequestOK(r)'
  <2>1. RequestOK(r) /\ IdleRequest \in Request
    BY ByParts DEF IdleRequest, Request
  <2>2. CASE request[r].on = p
    BY <2>1, <2>2 DEF Exit, On, RequestOK
  <2>3. CASE request[r].on # p
    BY <1>1, <2>1, <2>3 DEF Exit, On, RequestOK, Kind, Phase
  <2> QED
    BY <2>2, <2>3
<1>5. /\ process' = [d \in Processes |-> process'[d]]
      /\ \A d \in Processes : ProcessOK(process'[d])
      /\ request' = [r \in Requests |-> request'[r]]
  BY <1>1, <1>2, ByParts DEF Exit
<1> QED
  BY <1>3, <1>4, <1>5, ByParts

\* One request moves on, the processes being left alone.
LEMMA RequestMoves ==
  ASSUME IInv, NEW r \in Requests, UNCHANGED <<process, overrun>>, LimiterTypeOK',
         request' = [request EXCEPT ![r] = request'[r]], RequestOK(r)',
         \A s \in Requests : s # r => asked'[s] = asked[s]
  PROVE  IInv'
<1>1. \A s \in Requests : RequestOK(s)'
  BY ByParts DEF RequestOK, Kind, Phase
<1>2. request' = [s \in Requests |-> request'[s]]
  BY ByParts
<1> QED
  BY <1>1, <1>2, ByParts

\* The steps of one process.
LEMMA ProcessStep ==
  ASSUME IInv, NEW p \in Processes,
         \/ StartProcess(p) \/ ConnectDb(p) \/ ConnectCache(p)
         \/ WorkerRunBegins(p) \/ WorkerRunEnds(p)
         \/ OtherEnd(p) \/ ShutdownStep(p)
         \/ \E code \in {0, 1} : Terminate(p, code) \/ TerminateBackground(p, code)
  PROVE  IInv'
<1>0. /\ ProcessOK(process[p]) /\ process[p] \in Process /\ overrun \subseteq Processes
      /\ process \in [Processes -> Process]
  BY ByParts DEF ProcessOK
<1> USE DEF ProcessOK, Process, Phase, Kind, Early, Late
<1>1. CASE StartProcess(p)
  BY <1>0, <1>1, ProcessMoves DEF StartProcess, Down
<1>2. CASE ConnectDb(p)
  <2>1. CASE Exit(p, 1)
    BY <1>0, <1>2, <2>1, ProcessEnds DEF ConnectDb
  <2>2. CASE ~Exit(p, 1)
    <3>1. ProcessOK([process[p] EXCEPT !.phase = "caching", !.db = TRUE])
      BY <1>0, <1>2 DEF ConnectDb
    <3> QED
      BY <1>0, <1>2, <2>2, <3>1, ProcessMoves DEF ConnectDb
  <2> QED
    BY <2>1, <2>2
<1>3. CASE ConnectCache(p)
  <2>1. PICK open \in BOOLEAN :
          process' = [process EXCEPT ![p] = IF Kind(p) = "api" THEN ServerUp(p, open)
                                            ELSE HealthWorkerUp(p, open)]
    BY <1>3 DEF ConnectCache
  <2> DEFINE q == IF Kind(p) = "api" THEN ServerUp(p, open) ELSE HealthWorkerUp(p, open)
  <2>2. q \in Process /\ q.phase = "up" /\ q.kind = Kind(p)
    BY <1>0 DEF ServerUp, HealthWorkerUp
  <2>3. q.listening => q.db /\ q.kind = "api"
    BY <1>0, <1>3 DEF ConnectCache, ServerUp, HealthWorkerUp
  <2> QED
    BY <1>0, <1>3, <2>1, <2>2, <2>3, ProcessMoves DEF ConnectCache
<1>4. CASE WorkerRunBegins(p)
  <2>1. ProcessOK([process[p] EXCEPT !.run = TRUE])
    BY <1>0, <1>4 DEF WorkerRunBegins
  <2> QED
    BY <1>0, <1>4, <2>1, ProcessMoves DEF WorkerRunBegins
<1>5. CASE WorkerRunEnds(p)
  <2>1. ProcessOK([process[p] EXCEPT !.run = FALSE])
    BY <1>0, <1>5 DEF WorkerRunEnds
  <2> QED
    BY <1>0, <1>5, <2>1, ProcessMoves DEF WorkerRunEnds
<1>6. CASE OtherEnd(p)
  BY <1>0, <1>6, ProcessEnds DEF OtherEnd
<1>7. ASSUME NEW code \in {0, 1}, Terminate(p, code)
      PROVE  IInv'
  <2>1. ProcessOK([process[p] EXCEPT !.code = code, !.listening = FALSE, !.phase = "draining"])
    BY <1>0, <1>7 DEF Process, Terminate
  <2> QED
    BY <1>0, <1>7, <2>1, ProcessMoves DEF Terminate
<1>8. ASSUME NEW code \in {0, 1}, TerminateBackground(p, code)
      PROVE  IInv'
  <2>1. ProcessOK([process[p] EXCEPT !.code = code, !.phase = "stopping"])
    BY <1>0, <1>8 DEF TerminateBackground
  <2> QED
    BY <1>0, <1>8, <2>1, ProcessMoves DEF TerminateBackground
<1>9. CASE HttpClosed(p)
  <2>1. ProcessOK([process[p] EXCEPT !.phase = "stopping"])
    BY <1>0, <1>9 DEF HttpClosed
  <2> QED
    BY <1>0, <1>9, <2>1, ProcessMoves DEF HttpClosed, Moves
<1>10. CASE HttpDeadline(p)
  BY <1>0, <1>10, ProcessEnds DEF HttpDeadline
<1>11. CASE StopBackground(p)
  <2>1. ProcessOK([process[p] EXCEPT !.phase = "closingCache"])
    BY <1>0, <1>11 DEF StopBackground
  <2> QED
    BY <1>0, <1>11, <2>1, ProcessMoves DEF StopBackground, Moves
<1>12. CASE DisconnectCache(p)
  <2> DEFINE q == [process[p] EXCEPT !.phase = "closingDb", !.cache = FALSE]
  <2>1. ProcessOK(q)
    BY <1>0, <1>12 DEF DisconnectCache
  <2>2. q.kind = process[p].kind /\ q.phase = "closingDb"
    BY <1>0
  <2>3. process' = [process EXCEPT ![p] = q] /\ UNCHANGED <<request, overrun, limiterVars>>
    BY <1>0, <1>12 DEF DisconnectCache
  <2>4. Phase(p) \in Late
    BY <1>12 DEF DisconnectCache
  <2> HIDE DEF q
  <2> QED
    BY <1>0, <2>1, <2>2, <2>3, <2>4, ProcessMoves
<1>13. CASE DisconnectCacheFails(p)
  BY <1>0, <1>13, ProcessEnds DEF DisconnectCacheFails
<1>14. CASE StopHealthWorkerGoesOn(p)
  <2> DEFINE q == [process[p] EXCEPT !.phase = "closingDb", !.code = 1]
  <2>1. ProcessOK(q)
    BY <1>0, <1>14 DEF StopHealthWorkerGoesOn
  <2>2. q.kind = process[p].kind /\ q.phase = "closingDb"
    BY <1>0
  <2>3. process' = [process EXCEPT ![p] = q] /\ UNCHANGED <<request, overrun, limiterVars>>
    BY <1>0, <1>14 DEF StopHealthWorkerGoesOn
  <2>4. Phase(p) \in Late
    BY <1>14 DEF StopHealthWorkerGoesOn
  <2> HIDE DEF q
  <2> QED
    BY <1>0, <2>1, <2>2, <2>3, <2>4, ProcessMoves
<1>15. CASE Disconnect(p)
  <2>1. CASE Exit(p, 1)
    BY <1>0, <1>15, <2>1, ProcessEnds DEF Disconnect
  <2>2. CASE ~Exit(p, 1)
    <3>1. ProcessOK([process[p] EXCEPT !.phase = "closed", !.db = FALSE])
      BY <1>0, <1>15 DEF Disconnect
    <3> QED
      BY <1>0, <1>15, <2>2, <3>1, ProcessMoves DEF Disconnect
  <2> QED
    BY <2>1, <2>2
<1>16. CASE ExitAfterShutdown(p)
  BY <1>0, <1>16, ProcessEnds DEF ExitAfterShutdown
<1> QED
  BY <1>1, <1>2, <1>3, <1>4, <1>5, <1>6, <1>7, <1>8, <1>9, <1>10, <1>11, <1>12, <1>13, <1>14,
     <1>15, <1>16 DEF ShutdownStep
\* What any step does to the limiter.
LEMMA StepLimiter ==
  ASSUME LimiterTypeOK, [Next]_vars
  PROVE  LimiterStep
<1>1. ASSUME NEW p \in Processes, NEW code, Exit(p, code)
      PROVE  LimiterStep
  <2>1. On(p) \in SUBSET Requests
    BY DEF On
  <2> QED
    BY <1>1, <2>1 DEF Exit, LimiterStep
<1>2. ASSUME NEW r \in Requests, StoreFails(r)
      PROVE  LimiterStep
  BY <1>2 DEF LimiterStep
<1>3. CASE UNCHANGED limiterVars \/ \E r \in Requests : ReadClock(r) \/ ConsumeRateLimit(r)
  BY <1>3 DEF LimiterStep
<1>4. ASSUME NEW p \in Processes,
             \/ StartProcess(p) \/ ConnectDb(p) \/ ConnectCache(p)
             \/ WorkerRunBegins(p) \/ WorkerRunEnds(p)
             \/ OtherEnd(p) \/ ShutdownStep(p)
             \/ \E code \in {0, 1} : Terminate(p, code) \/ TerminateBackground(p, code)
      PROVE  LimiterStep
  <2>1. CASE OtherEnd(p) \/ HttpDeadline(p) \/ DisconnectCacheFails(p) \/ ExitAfterShutdown(p)
    BY <1>1, <2>1 DEF OtherEnd, HttpDeadline, DisconnectCacheFails, ExitAfterShutdown
  <2>2. CASE ConnectDb(p) \/ Disconnect(p)
    BY <1>1, <1>3, <2>2 DEF ConnectDb, Disconnect
  <2>3. CASE HttpClosed(p) \/ StopBackground(p)
    BY <1>3, <2>3 DEF HttpClosed, StopBackground, Moves
  <2>4. CASE DisconnectCache(p) \/ StopHealthWorkerGoesOn(p)
    BY <1>3, <2>4 DEF DisconnectCache, StopHealthWorkerGoesOn
  <2>5. CASE StartProcess(p) \/ ConnectCache(p) \/ WorkerRunBegins(p) \/ WorkerRunEnds(p)
    BY <1>3, <2>5 DEF StartProcess, ConnectCache, WorkerRunBegins, WorkerRunEnds
  <2>6. CASE \E code \in {0, 1} : Terminate(p, code) \/ TerminateBackground(p, code)
    BY <1>3, <2>6 DEF Terminate, TerminateBackground
  <2> QED
    BY <1>4, <2>1, <2>2, <2>3, <2>4, <2>5, <2>6 DEF ShutdownStep
<1>5. ASSUME NEW p \in Processes, NEW r \in Requests, Arrive(r, p)
      PROVE  LimiterStep
  BY <1>3, <1>5 DEF Arrive
<1>6. ASSUME NEW r \in Requests, PassLimiter(r) \/ HandlerEnds(r) \/ ClientLeaves(r)
      PROVE  LimiterStep
  BY <1>2, <1>3, <1>6 DEF PassLimiter, HandlerEnds, ClientLeaves
<1>7. CASE Tick \/ \E w \in Windows : ExpireBucket(w)
  BY <1>7 DEF LimiterStep
<1>8. CASE UNCHANGED vars
  BY <1>3, <1>8 DEF vars
<1> QED
  BY <1>4, <1>5, <1>6, <1>7, <1>8 DEF Next, Limiter

\* The steps of one request.
LEMMA RequestStep ==
  ASSUME IInv, NEW r \in Requests, LimiterTypeOK',
         \/ \E p \in Processes : Arrive(r, p)
         \/ PassLimiter(r) \/ HandlerEnds(r) \/ ClientLeaves(r)
  PROVE  IInv'
<1>0. /\ RequestOK(r) /\ request \in [Requests -> Request]
      /\ asked \in [Requests -> Windows \cup {Nothing}] /\ now \in Windows
      /\ \A p \in Processes : ProcessOK(process[p])
  BY ByParts DEF RequestOK, LimiterTypeOK
<1> USE DEF Phase, Kind, Early, Late
<1>1. ASSUME NEW p \in Processes, Arrive(r, p)
      PROVE  IInv'
  <2>1. /\ request' = [request EXCEPT ![r] = request'[r]]
        /\ request'[r] = [at |-> "limited", on |-> p, open |-> TRUE]
        /\ \A s \in Requests : s # r => asked'[s] = asked[s]
        /\ asked'[r] # Nothing
        /\ UNCHANGED <<process, overrun>>
    BY <1>0, <1>1, Constants DEF Arrive, ReadClock
  <2>2. process[p].kind = "api" /\ process[p].phase \in {"up", "draining"}
    BY <1>0, <1>1 DEF Arrive, ProcessOK
  <2>3. RequestOK(r)'
    BY <2>1, <2>2 DEF RequestOK, Request
  <2> QED
    BY <2>1, <2>3, RequestMoves
<1>2. CASE request' = [request EXCEPT ![r] = IdleRequest] /\ UNCHANGED <<process, overrun>>
           /\ \A s \in Requests : s # r => asked'[s] = asked[s]
  <2>1. RequestOK(r)'
    BY <1>0, <1>2 DEF RequestOK, Request, IdleRequest
  <2> QED
    BY <1>0, <1>2, <2>1, RequestMoves
<1>3. CASE PassLimiter(r)
  <2>1. /\ UNCHANGED <<process, overrun>> /\ request[r].at = "limited"
        /\ \A s \in Requests : s # r => asked'[s] = asked[s]
        /\ asked'[r] = Nothing
    BY <1>0, <1>3 DEF PassLimiter, ConsumeRateLimit, StoreFails
  <2>2. \/ request' = [request EXCEPT ![r] = IdleRequest]
        \/ request' = [request EXCEPT ![r].at = "handling"]
    BY <1>3 DEF PassLimiter
  <2>3. CASE request' = [request EXCEPT ![r].at = "handling"]
    <3>1. RequestOK(r)'
      BY <1>0, <2>1, <2>3 DEF RequestOK, Request, IdleRequest
    <3> QED
      BY <1>0, <2>1, <2>3, <3>1, RequestMoves
  <2> QED
    BY <1>2, <2>1, <2>2, <2>3
<1>4. CASE HandlerEnds(r)
  BY <1>2, <1>4 DEF HandlerEnds, limiterVars
<1>5. CASE ClientLeaves(r)
  <2>0. /\ request'[r] \in Request /\ request'[r].at = request[r].at
        /\ request'[r].on = request[r].on /\ ~request'[r].open
        /\ request[r] # IdleRequest /\ UNCHANGED <<process, asked>>
    <3>1. request' = [request EXCEPT ![r].open = FALSE] /\ request[r].open
      BY <1>5 DEF ClientLeaves
    <3>2. request[r] \in Request
      BY <1>0 DEF RequestOK
    <3>3. request[r] # IdleRequest
      BY <3>1 DEF IdleRequest
    <3>4. UNCHANGED <<process, asked>>
      BY <1>5 DEF ClientLeaves, limiterVars
    <3>5. request'[r] = [request[r] EXCEPT !.open = FALSE]
      BY <1>0, <3>1
    <3>6. request'[r] \in Request
      BY <3>2, <3>5 DEF Request
    <3> QED
      BY <3>2, <3>3, <3>4, <3>5, <3>6 DEF Request
  <2>1. RequestOK(r)'
    BY <1>0, <2>0 DEF RequestOK
  <2> QED
    BY <1>0, <1>5, <2>1, RequestMoves DEF ClientLeaves, limiterVars
<1> QED
  BY <1>1, <1>3, <1>4, <1>5
-----------------------------------------------------------------------------
(* The theorems *)

LEMMA Inductive ==
  ASSUME IInv, LimitInv, [Next]_vars
  PROVE  IInv' /\ LimitInv'
<1>1. LimiterTypeOK' /\ LimitInv'
  BY LimiterTyped, LimiterKeeps, StepLimiter DEF IInv, TypeOK
<1>2. CASE UNCHANGED vars
  BY <1>1, <1>2, ByParts DEF vars, limiterVars, RequestOK, ProcessOK, Kind, Phase
<1>3. ASSUME Limiter(Tick) \/ \E w \in Windows : Limiter(ExpireBucket(w))
      PROVE  IInv'
  <2>1. UNCHANGED <<process, request, overrun, asked>>
    BY <1>3 DEF Limiter, Tick, ExpireBucket
  <2> QED
    BY <1>1, <2>1, ByParts DEF RequestOK, ProcessOK, Kind, Phase
<1> QED
  BY <1>1, <1>2, <1>3, ProcessStep, RequestStep DEF Next

LEMMA Invariant == Spec => [](IInv /\ LimitInv)
<1>1. Init => IInv /\ LimitInv
  <2> SUFFICES ASSUME Init PROVE IInv /\ LimitInv
    OBVIOUS
  <2>1. LimiterTypeOK /\ LimitInv
    BY Constants DEF Init, LimiterInit, LimiterTypeOK, LimitInv
  <2>2. \A p \in Processes : process[p] \in {Down("api", 0), Down("health", 0)}
    BY DEF Init
  <2>3. \A p \in Processes : ProcessOK(process[p])
    <3>1. ProcessOK(Down("api", 0))
      BY DEF Down, ProcessOK, Process
    <3>2. ProcessOK(Down("health", 0))
      BY DEF Down, ProcessOK, Process
    <3> QED
      BY <2>2, <3>1, <3>2
  <2>4. \A r \in Requests : RequestOK(r)
    <3>1. IdleRequest \in Request
      BY DEF IdleRequest, Request
    <3> QED
      BY <3>1 DEF Init, RequestOK
  <2> QED
    BY <2>1, <2>3, <2>4, ByParts DEF Init
<1> QED
  BY <1>1, Inductive, PTL DEF Spec

(***************************************************************************)
(* Processes, requests and buckets keep their shapes; only a process that  *)
(* is up, with its database connected, listens.                            *)
(***************************************************************************)
THEOREM TypeCorrect == Spec => []TypeOK
  BY Invariant, PTL DEF IInv

(***************************************************************************)
(* No window lets more than max requests through: a bucket that the TTL    *)
(* index deletes is counted in no more.                                    *)
(***************************************************************************)
THEOREM LimitHolds == Spec => []WithinLimit
<1>1. LimitInv => WithinLimit
  BY DEF LimitInv, WithinLimit
<1> QED
  BY <1>1, Invariant, PTL

(***************************************************************************)
(* A client of MongoDB or Redis is closed only when nobody waits for an    *)
(* answer and no run of a worker is active.                                *)
(***************************************************************************)
THEOREM ShutdownDrains == Spec => []DrainedBeforeClosing
  BY Invariant, PTL DEF IInv

\* A process that ends cuts nobody off unless its deadline passed or it was ended from outside.
LEMMA EndOfProcess ==
  ASSUME IInv, Next, NEW p \in Processes, Phase(p) # "down", Phase(p)' = "down"
  PROVE  Waiting(p) = {} \/ p \in overrun'
<1>1. process \in [Processes -> Process] /\ \A r \in Requests : RequestOK(r)
  BY ByParts DEF ProcessOK
<1>2. Phase(p) = "starting" => Waiting(p) = {}
  BY <1>1 DEF Waiting, On, RequestOK, Early, IdleRequest
<1>3. Phase(p) \in Late => Waiting(p) = {}
  BY DEF IInv, DrainedBeforeClosing, Late
\* Steps that leave every process that runs running are not the step in question.
<1>4. ASSUME NEW d \in Processes, process'[d].phase # "down",
             \A e \in Processes : e # d => process'[e] = process[e]
      PROVE  FALSE
  BY <1>4 DEF Phase
<1>5. ASSUME NEW d \in Processes,
             \/ StartProcess(d) \/ ConnectCache(d) \/ WorkerRunBegins(d) \/ WorkerRunEnds(d)
             \/ HttpClosed(d) \/ StopBackground(d) \/ DisconnectCache(d)
             \/ StopHealthWorkerGoesOn(d)
             \/ \E code \in {0, 1} : Terminate(d, code) \/ TerminateBackground(d, code)
      PROVE  FALSE
  <2>1. process[d] \in Process
    BY <1>1
  <2>2. \A e \in Processes : e # d => process'[e] = process[e]
    BY <1>1, <1>5 DEF StartProcess, ConnectCache, WorkerRunBegins, WorkerRunEnds,
                      HttpClosed, StopBackground,
                      DisconnectCache, StopHealthWorkerGoesOn, Terminate,
                      TerminateBackground, Moves
  <2>3. CASE StartProcess(d)
    BY <1>1, <1>4, <2>1, <2>2, <2>3 DEF StartProcess, Down
  <2>4. CASE ConnectCache(d)
    <3>1. process'[d].phase = "up"
      BY <1>1, <2>1, <2>4 DEF ConnectCache, ServerUp, HealthWorkerUp, Process
    <3> QED
      BY <1>4, <2>2, <3>1
  <2>5. CASE WorkerRunBegins(d)
    <3>1. process'[d].phase \in {"up", "draining"}
      BY <1>1, <2>1, <2>5 DEF WorkerRunBegins, Process, Phase
    <3> QED
      BY <1>4, <2>2, <3>1
  <2>6. CASE HttpClosed(d) \/ StopBackground(d)
    <3>1. process'[d].phase \in {"stopping", "closingCache"}
      BY <1>1, <2>1, <2>6 DEF HttpClosed, StopBackground, Moves, Process
    <3> QED
      BY <1>4, <2>2, <3>1
  <2>7. CASE DisconnectCache(d) \/ StopHealthWorkerGoesOn(d)
    <3>1. process'[d].phase = "closingDb"
      BY <1>1, <2>1, <2>7 DEF DisconnectCache, StopHealthWorkerGoesOn, Process
    <3> QED
      BY <1>4, <2>2, <3>1
  <2>8. CASE \E code \in {0, 1} : Terminate(d, code) \/ TerminateBackground(d, code)
    <3>1. process'[d].phase \in {"draining", "stopping"}
      BY <1>1, <2>1, <2>8 DEF Terminate, TerminateBackground, Process
    <3> QED
      BY <1>4, <2>2, <3>1
  <2>9. CASE WorkerRunEnds(d)
    <3>1. process'[d].phase = process[d].phase
      BY <1>1, <2>1, <2>9 DEF WorkerRunEnds, Process
    <3> QED
      BY <2>2, <3>1 DEF Phase
  <2> QED
    BY <1>5, <2>3, <2>4, <2>5, <2>6, <2>7, <2>8, <2>9
<1>6. ASSUME UNCHANGED process
      PROVE  FALSE
  BY <1>6 DEF Phase
<1>7. ASSUME NEW d \in Processes, ConnectDb(d) \/ Disconnect(d)
      PROVE  Waiting(p) = {}
  <2>1. CASE d = p
    BY <1>2, <1>3, <1>7, <2>1 DEF ConnectDb, Disconnect, Late
  <2>2. CASE d # p
    BY <1>1, <1>7, <2>2 DEF ConnectDb, Disconnect, Exit, Phase
  <2> QED
    BY <2>1, <2>2
<1>8. ASSUME NEW d \in Processes,
             DisconnectCacheFails(d) \/ ExitAfterShutdown(d) \/ OtherEnd(d) \/ HttpDeadline(d)
      PROVE  Waiting(p) = {} \/ p \in overrun'
  <2>1. CASE d = p
    BY <1>3, <1>8, <2>1 DEF DisconnectCacheFails, ExitAfterShutdown, OtherEnd, HttpDeadline, Late
  <2>2. CASE d # p
    BY <1>1, <1>8, <2>2 DEF DisconnectCacheFails, ExitAfterShutdown, OtherEnd, HttpDeadline,
                            Exit, Phase
  <2> QED
    BY <2>1, <2>2
<1> QED
  BY <1>5, <1>6, <1>7, <1>8
  DEF Next, ShutdownStep, Limiter, Arrive, PassLimiter, HandlerEnds, ClientLeaves

(***************************************************************************)
(* A request whose client waits is cut off only by the HTTP deadline or by *)
(* an end from outside.                                                    *)
(***************************************************************************)
THEOREM RequestsAreAnswered == Spec => NoRequestCut
<1>1. IInv /\ [Next]_vars =>
        [\A p \in Processes : Phase(p) # "down" /\ Phase(p)' = "down"
           => Waiting(p) = {} \/ p \in overrun']_vars
  BY EndOfProcess
<1> QED
  BY <1>1, Invariant, PTL DEF Spec, NoRequestCut

-----------------------------------------------------------------------------
(***************************************************************************)
(* The polling worker, of which Lifecycle keeps only whether a run of it   *)
(* is active.                                                              *)
(***************************************************************************)

\* activeRun names the one run there is.
ActiveInv == \A i \in Runs : run[i] # "none" <=> activeRun = i

(***************************************************************************)
(* A wake that the current claim does not answer has left wakeRequested    *)
(* set, and no timer that a run will meet at its end waits for the poll    *)
(* interval.                                                               *)
(***************************************************************************)
WakeInv ==
  /\ woken => started
  /\ \A i \in Runs : woken /\ run[i] \in {"working", "finishing"} => wakeRequested
  /\ timer = "poll" => activeRun = 0

\* A stopped worker has no timer, and the stop waits for the run that goes on.
StopInv ==
  ~started => timer = "none" /\ (activeRun # 0 => stopping = activeRun)

\* The loop counter stays below the batch while the loop goes on.
BatchInv == \A i \in Runs : run[i] \in {"claiming", "working"} => processed[i] < BatchSize

WorkerInv == WorkerTypeOK /\ ActiveInv /\ WakeInv /\ StopInv /\ BatchInv /\ NoLostWakeup

LEMMA WorkerConstants ==
  /\ BatchSize \in Nat \ {0} /\ MaxReady \in Nat
  /\ Runs \subseteq Nat /\ 0 \notin Runs /\ NotStopping \notin Runs
  BY PollingAssumption DEF Runs, NotStopping

\* A callback that begins or joins a run.
LEMMA BeginsRun ==
  ASSUME WorkerInv, started, RunBegins
  PROVE  /\ activeRun' \in Runs /\ run'[activeRun'] # "none"
         /\ run' \in [Runs -> {"none", "claiming", "working", "finishing"}]
         /\ processed' \in [Runs -> 0..BatchSize]
         /\ wakeRequested' \in BOOLEAN
         /\ ActiveInv' /\ BatchInv'
         /\ \A i \in Runs : run'[i] \in {"working", "finishing"} => wakeRequested'
<1> USE WorkerConstants DEF WorkerInv, WorkerTypeOK, ActiveInv, BatchInv
<1>1. CASE activeRun # 0
  BY <1>1 DEF RunBegins
<1>2. CASE activeRun = 0
  <2>1. PICK i \in Runs :
          /\ run[i] = "none" /\ wakeRequested' = FALSE /\ activeRun' = i
          /\ run' = [run EXCEPT ![i] = "claiming"]
          /\ processed' = [processed EXCEPT ![i] = 0]
    BY <1>2 DEF RunBegins
  <2>2. \A k \in Runs : run[k] = "none"
    BY <1>2
  <2>3. run' \in [Runs -> {"none", "claiming", "working", "finishing"}]
    BY <2>1
  <2>4. processed' \in [Runs -> 0..BatchSize]
    BY <2>1
  <2>5. /\ run'[i] = "claiming" /\ processed'[i] = 0 /\ activeRun' = i
        /\ \A k \in Runs : k # i => run'[k] = "none"
    BY <2>1, <2>2
  <2>6. ActiveInv'
    BY <2>5
  <2>7. BatchInv'
    BY <2>5
  <2> QED
    BY <2>1, <2>3, <2>4, <2>5, <2>6, <2>7
<1> QED
  BY <1>1, <1>2

LEMMA WorkerInductive ==
  ASSUME WorkerInv, [WorkerNext]_workerVars
  PROVE  WorkerInv'
<1> USE WorkerConstants DEF WorkerInv, WorkerTypeOK, ActiveInv, WakeInv, StopInv, BatchInv,
                            NoLostWakeup
<1>1. CASE UNCHANGED workerVars
  BY <1>1 DEF workerVars
<1>2. CASE Start
  BY <1>2 DEF Start, Scheduled
<1>3. CASE Stop
  BY <1>3 DEF Stop
<1>4. CASE StopResolves
  BY <1>4 DEF StopResolves
<1>5. CASE Wake
  BY <1>5, BeginsRun DEF Wake
<1>6. CASE TimerFires
  BY <1>6, BeginsRun DEF TimerFires
<1>7. CASE JobBecomesReady
  BY <1>7 DEF JobBecomesReady
<1>8. ASSUME NEW i \in Runs, Claim(i)
      PROVE  WorkerInv'
  <2>1. WorkerTypeOK'
    <3>1. ready > 0 => ready - 1 \in 0..MaxReady
      OBVIOUS
    <3>2. ready' \in 0..MaxReady
      BY <1>8, <3>1 DEF Claim
    <3>3. run' \in [Runs -> {"none", "claiming", "working", "finishing"}]
      BY <1>8 DEF Claim
    <3> QED
      BY <1>8, <3>2, <3>3 DEF Claim
  <2>2. ActiveInv' /\ StopInv' /\ BatchInv'
    BY <1>8 DEF Claim
  <2>3. WakeInv' /\ NoLostWakeup'
    <3>1. woken' = FALSE /\ UNCHANGED <<timer, activeRun>>
      BY <1>8 DEF Claim
    <3> QED
      BY <3>1
  <2> QED
    BY <2>1, <2>2, <2>3
<1>9. ASSUME NEW i \in Runs, NextIteration(i)
      PROVE  WorkerInv'
  BY <1>9 DEF NextIteration
<1>10. ASSUME NEW i \in Runs, ProcessNextThrows(i)
       PROVE  WorkerInv'
  BY <1>10 DEF ProcessNextThrows
<1>11. ASSUME NEW i \in Runs, RunEnds(i)
       PROVE  WorkerInv'
  BY <1>11 DEF RunEnds, Scheduled
<1> QED
  BY <1>1, <1>2, <1>3, <1>4, <1>5, <1>6, <1>7, <1>8, <1>9, <1>10, <1>11
  DEF WorkerNext, RunStep

LEMMA WorkerInvariant == WorkerSpec => []WorkerInv
<1>1. WorkerInit => WorkerInv
  <2> SUFFICES ASSUME WorkerInit PROVE WorkerInv
    OBVIOUS
  <2>1. WorkerTypeOK
    <3>1. 0 \in 0..BatchSize /\ 0 \in 0..MaxReady
      BY WorkerConstants
    <3>2. processed \in [Runs -> 0..BatchSize]
      BY <3>1 DEF WorkerInit
    <3> QED
      BY <3>1, <3>2 DEF WorkerInit, WorkerTypeOK
  <2>2. ActiveInv /\ WakeInv /\ StopInv /\ BatchInv /\ NoLostWakeup
    <3>1. /\ \A i \in Runs : run[i] = "none"
          /\ ~woken /\ timer = "none" /\ activeRun = 0
      BY DEF WorkerInit
    <3> QED
      BY <3>1, WorkerConstants DEF ActiveInv, WakeInv, StopInv, BatchInv, NoLostWakeup
  <2> QED
    BY <2>1, <2>2 DEF WorkerInv
<1> QED
  BY <1>1, WorkerInductive, PTL DEF WorkerSpec

(***************************************************************************)
(* The variables keep their types: no run claims more jobs than its batch. *)
(***************************************************************************)
THEOREM WorkerTypeCorrect == WorkerSpec => []WorkerTypeOK
  BY WorkerInvariant, PTL DEF WorkerInv

(***************************************************************************)
(* Two runs of one worker never overlap, however starts, stops, wakes and  *)
(* timers follow each other: activeRun is cleared by the run itself only.  *)
(***************************************************************************)
THEOREM RunsDoNotOverlap == WorkerSpec => []OneRunAtATime
<1>1. WorkerInv => OneRunAtATime
  BY DEF WorkerInv, ActiveInv, OneRunAtATime
<1> QED
  BY <1>1, WorkerInvariant, PTL

(***************************************************************************)
(* A wake that no claim has answered is never left to the poll interval.   *)
(***************************************************************************)
THEOREM WakeupsAreKept == WorkerSpec => []NoLostWakeup
  BY WorkerInvariant, PTL DEF WorkerInv

(***************************************************************************)
(* Once stop has resolved no run goes on and no timer is left, unless      *)
(* start was called again.                                                 *)
(***************************************************************************)
THEOREM StoppedIsQuiet == WorkerSpec => []QuietAfterStop
<1>1. WorkerInv => QuietAfterStop
  BY WorkerConstants DEF WorkerInv, WorkerTypeOK, ActiveInv, StopInv, QuietAfterStop
<1> QED
  BY <1>1, WorkerInvariant, PTL

(***************************************************************************)
(* What WorkerRunBegins and StopBackground take for granted of a worker: a *)
(* run begins only while the worker is started, and a stop that is not     *)
(* overtaken by a start resolves only when no run is active.               *)
(***************************************************************************)
Busy == \E i \in Runs : run[i] # "none"

THEOREM WorkersRunAsComposed ==
  WorkerSpec => [][/\ ~Busy /\ Busy' => started
                   /\ StopResolves /\ ~started => ~Busy]_workerVars
<1>1. ASSUME WorkerInv, [WorkerNext]_workerVars
      PROVE  [/\ ~Busy /\ Busy' => started
              /\ StopResolves /\ ~started => ~Busy]_workerVars
  <2> USE <1>1, WorkerConstants DEF WorkerInv, WorkerTypeOK, ActiveInv, StopInv, Busy
  <2>1. ASSUME ~started, ~Busy, Busy' PROVE FALSE
    <3>1. CASE TimerFires
      BY <2>1, <3>1 DEF TimerFires
    <3>2. CASE UNCHANGED run
      BY <2>1, <3>2
    <3>3. CASE \E i \in Runs : RunStep(i)
      BY <2>1, <3>3 DEF RunStep, Claim, NextIteration, ProcessNextThrows, RunEnds
    <3> QED
      BY <2>1, <3>1, <3>2, <3>3 DEF WorkerNext, Start, Stop, StopResolves,
                                    Wake, JobBecomesReady, workerVars
  <2>2. ASSUME StopResolves, ~started PROVE ~Busy
    BY <2>2 DEF StopResolves
  <2> QED
    BY <2>1, <2>2
<1> QED
  BY <1>1, WorkerInvariant, PTL DEF WorkerSpec
===============================================================================
