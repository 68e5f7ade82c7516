------------------------ MODULE RedirectOutboxProofs ------------------------
(***************************************************************************)
(* Proofs about the redirect event outbox, for any number of events,       *)
(* workers, links and attempts.                                            *)
(***************************************************************************)
EXTENDS RedirectOutbox, FiniteSetTheorems, TLAPS

\* A job that exists has content.
ContentInv ==
  \A e \in Events : job[e].status # "none" => redirect[e] \in Redirects

(***************************************************************************)
(* Attempts are numbered upwards, so a worker's claim is never ahead of    *)
(* its job, and no two workers hold the same attempt of the same job.      *)
(***************************************************************************)
ClaimInv ==
  /\ \A w \in Workers :
       worker[w].at # "idle" =>
         /\ worker[w].event \in Events
         /\ worker[w].attempts <= job[worker[w].event].attempts
         /\ job[worker[w].event].status # "none"
  /\ \A v, w \in Workers :
       /\ worker[v].at # "idle"
       /\ worker[w].at # "idle"
       /\ worker[v].event = worker[w].event
       /\ worker[v].attempts = worker[w].attempts
       => v = w

\* What every step preserves together.
BaseInv == TypeOK /\ ContentInv /\ ClaimInv

USE RedirectEventsAssumption, OutboxAssumption

-----------------------------------------------------------------------------
(* Types, contents and claims *)

\* One worker drops its claim or moves on with it.
Drops(w) == GoIdle(w)
MovesOn(w) ==
  /\ worker[w].at # "idle"
  /\ \E at \in {"claimed", "writing", "failed"} : MoveTo(w, at)

\* A step of one worker's record keeps every record a Worker.
LEMMA WorkerTyped ==
  ASSUME TypeOK, NEW w \in Workers, Drops(w) \/ MovesOn(w)
  PROVE  worker' \in [Workers -> Worker]
<1>1. CASE Drops(w)
  BY <1>1 DEF Drops, GoIdle, SetWorker, TypeOK, Worker
<1>2. CASE MovesOn(w)
  BY <1>2 DEF MovesOn, MoveTo, SetWorker, TypeOK, Worker
<1> QED
  BY <1>1, <1>2

\* A step that leaves the jobs alone and moves one worker within its claim,
\* or drops the claim, keeps the bounds on what workers hold.
LEMMA ClaimsKept ==
  ASSUME TypeOK, ClaimInv, NEW w \in Workers, Drops(w) \/ MovesOn(w),
         \A e \in Events : /\ job'[e].attempts = job[e].attempts
                           /\ job[e].status # "none" => job'[e].status # "none"
  PROVE  ClaimInv'
<1>1. \A v \in Workers :
        \/ worker'[v].at = "idle"
        \/ /\ worker[v].at # "idle"
           /\ worker'[v].event = worker[v].event
           /\ worker'[v].attempts = worker[v].attempts
  <2>1. CASE Drops(w)
    BY <2>1 DEF Drops, GoIdle, SetWorker, TypeOK
  <2>2. CASE MovesOn(w)
    BY <2>2 DEF MovesOn, MoveTo, SetWorker, TypeOK
  <2> QED
    BY <2>1, <2>2
<1> QED
  BY <1>1 DEF ClaimInv

\* The worker steps that move one worker and leave every document alone.
LocalStep(w) ==
  \/ GetCurrentClaim(w)
  \/ LostClaim(w)
  \/ RetryTransaction(w)
  \/ FailTransaction(w)
  \/ ReleaseFails(w)
  \/ Crash(w)

\* The local steps of a worker change nothing but where that worker is.
LEMMA LocalStepShape ==
  ASSUME TypeOK, NEW w \in Workers, LocalStep(w)
  PROVE  /\ UNCHANGED <<redirect, job, clickEvents, clicks, lastClickedAt, usage,
                        refreshQueue>>
         /\ Drops(w) \/ MovesOn(w)
  BY DEF LocalStep, GetCurrentClaim, LostClaim, RetryTransaction, FailTransaction,
         ReleaseFails, Crash, Drops, MovesOn, ledger

\* Hence they preserve the base invariant.
LEMMA LocalStepBase ==
  ASSUME BaseInv, NEW w \in Workers, LocalStep(w)
  PROVE  BaseInv'
<1>1. TypeOK'
  BY LocalStepShape, WorkerTyped DEF BaseInv, TypeOK
<1>2. ContentInv'
  BY LocalStepShape DEF BaseInv, ContentInv
<1>3. ClaimInv'
  BY LocalStepShape, ClaimsKept DEF BaseInv
<1> QED
  BY <1>1, <1>2, <1>3 DEF BaseInv

\* The producer preserves the base invariant.
LEMMA EnqueueBase ==
  ASSUME BaseInv, NEW e \in Events, NEW r \in Redirects, EnqueueRedirectEvent(e, r)
  PROVE  BaseInv'
<1> USE DEF EnqueueRedirectEvent, SetJob, BaseInv, ledger
<1>1. TypeOK'
  BY DEF TypeOK, Job, JobStatus
<1>2. ContentInv'
  BY DEF TypeOK, ContentInv
<1>3. ClaimInv'
  BY DEF TypeOK, ClaimInv
<1> QED
  BY <1>1, <1>2, <1>3

\* A claim does: its attempt number is above all that were handed out before.
LEMMA ClaimBase ==
  ASSUME BaseInv, NEW w \in Workers, ClaimRedirectEventJob(w)
  PROVE  BaseInv'
<1>1. PICK e \in Events :
        /\ Claimable(e)
        /\ job' = [job EXCEPT ![e] = [status |-> "processing",
                                      attempts |-> job[e].attempts + 1, due |-> FALSE]]
        /\ worker' = [worker EXCEPT ![w] = [at |-> "claimed", event |-> e,
                                            attempts |-> job[e].attempts + 1]]
        /\ UNCHANGED <<redirect, clickEvents, clicks, lastClickedAt, usage, refreshQueue>>
  BY DEF ClaimRedirectEventJob, SetJob, SetWorker, ledger
<1> USE DEF BaseInv
<1>2. job[e].attempts + 1 \in 0..MaxAttempts /\ job[e].attempts \in Nat
  BY <1>1 DEF Claimable, TypeOK, Job
<1>3. TypeOK'
  BY <1>1, <1>2 DEF TypeOK, Job, JobStatus, Worker, Events
<1>4. ContentInv'
  BY <1>1 DEF TypeOK, ContentInv, Claimable
<1>5. ClaimInv'
  <2>1. \A v \in Workers : worker[v].attempts \in Nat
    BY DEF TypeOK, Worker
  <2>2. \A d \in Events : job'[d].attempts \in Nat /\ job'[d].attempts >= job[d].attempts
    BY <1>1, <1>2 DEF TypeOK, Job
  <2> QED
    BY <1>1, <1>2, <2>1, <2>2 DEF TypeOK, ClaimInv, Claimable
<1> QED
  BY <1>3, <1>4, <1>5

\* The commit of a transaction does.
LEMMA PersistBase ==
  ASSUME BaseInv, NEW w \in Workers, PersistRedirectEvent(w)
  PROVE  BaseInv'
<1> DEFINE e == worker[w].event
<1> USE DEF BaseInv
<1>1. e \in Events /\ job[e].status = "processing"
  BY DEF PersistRedirectEvent, HoldsClaim, IsCurrentClaim, ClaimInv
<1>2. redirect[e] \in RedirectType
  BY <1>1 DEF ContentInv
<1>3. Drops(w) \/ MovesOn(w)
  BY DEF PersistRedirectEvent, Drops, MovesOn
<1>4. job' = [job EXCEPT ![e] = [status |-> "completed", attempts |-> job[e].attempts,
                                 due |-> FALSE]]
      /\ redirect' = redirect
  BY <1>1 DEF PersistRedirectEvent, RecordClick, SetJob
<1>5. TypeOK'
  <2>1. worker' \in [Workers -> Worker]
    BY <1>3, WorkerTyped
  <2>2. job' \in [Events -> Job] /\ redirect' \in [Events -> Redirects \cup {NoRedirect}]
    BY <1>1, <1>4 DEF TypeOK, Job, JobStatus
  <2>3. clickEvents' \subseteq Events /\ refreshQueue' \subseteq Urls
    BY <1>1, <1>2 DEF PersistRedirectEvent, RecordClick, TypeOK, RedirectType
  <2>4. clicks' \in [Urls -> Nat] /\ usage' \in [Counters -> Nat]
    BY <1>2, SMTT(30) DEF PersistRedirectEvent, RecordClick, TypeOK, RedirectType
  <2>5. lastClickedAt' \in [Urls -> Nat]
    BY <1>2 DEF PersistRedirectEvent, RecordClick, TypeOK, RedirectType, Later
  <2> QED
    BY <2>1, <2>2, <2>3, <2>4, <2>5 DEF TypeOK
<1>6. ContentInv'
  BY <1>1, <1>4 DEF TypeOK, ContentInv
<1>7. ClaimInv'
  BY <1>1, <1>3, <1>4, ClaimsKept DEF TypeOK, Job
<1> QED
  BY <1>5, <1>6, <1>7

\* The release of a failed job does.
LEMMA ReleaseBase ==
  ASSUME BaseInv, NEW w \in Workers, ReleaseFailedRedirectEvent(w)
  PROVE  BaseInv'
<1> DEFINE e == worker[w].event
<1> USE DEF BaseInv
<1>1. e \in Events /\ job[e].status # "none"
  BY DEF ReleaseFailedRedirectEvent, ClaimInv
<1>2. \/ job' = job
      \/ \E s \in {"dead", "pending"} :
           job' = [job EXCEPT ![e] = [status |-> s, attempts |-> job[e].attempts,
                                      due |-> FALSE]]
  BY <1>1 DEF ReleaseFailedRedirectEvent, IsCurrentClaim, SetJob
<1>3. /\ Drops(w)
      /\ UNCHANGED <<redirect, clickEvents, clicks, lastClickedAt, usage, refreshQueue>>
  BY DEF ReleaseFailedRedirectEvent, Drops, ledger
<1>4. TypeOK'
  <2>1. \A s \in {"dead", "pending"} :
          [status |-> s, attempts |-> job[e].attempts, due |-> FALSE] \in Job
    BY <1>1 DEF TypeOK, Job, JobStatus
  <2>2. job' \in [Events -> Job]
    BY <1>1, <1>2, <2>1 DEF TypeOK
  <2> QED
    BY <2>2, <1>3, WorkerTyped DEF TypeOK
<1>5. ContentInv'
  BY <1>1, <1>2, <1>3 DEF TypeOK, ContentInv
<1>6. ClaimInv'
  BY <1>1, <1>2, <1>3, ClaimsKept DEF TypeOK, Job
<1> QED
  BY <1>4, <1>5, <1>6

\* The clock, the TTL index and the health queue do.
LEMMA EnvironmentBase ==
  ASSUME BaseInv,
         \/ \E e \in Events : TimePasses(e) \/ DeleteRetained(e)
         \/ \E u \in Urls : SettleRefresh(u)
  PROVE  BaseInv'
<1> USE DEF BaseInv
<1>1. CASE \E u \in Urls : SettleRefresh(u)
  BY <1>1 DEF SettleRefresh, TypeOK, ContentInv, ClaimInv
<1>2. ASSUME NEW e \in Events, TimePasses(e) \/ DeleteRetained(e)
      PROVE  BaseInv'
  <2>1. UNCHANGED <<redirect, clickEvents, clicks, lastClickedAt, usage, refreshQueue,
                    worker>>
    BY <1>2 DEF TimePasses, DeleteRetained, ledger
  <2>2. /\ job[e].status # "none"
        /\ \E s \in JobStatus \ {"none"}, b \in BOOLEAN :
             job' = [job EXCEPT ![e] = [status |-> s, attempts |-> job[e].attempts,
                                        due |-> b]]
    BY <1>2 DEF TimePasses, DeleteRetained, SetJob, JobStatus
  <2>3. TypeOK'
    BY <2>1, <2>2 DEF TypeOK, Job, JobStatus
  <2>4. ContentInv'
    BY <2>1, <2>2 DEF TypeOK, ContentInv
  <2>5. ClaimInv'
    BY <2>1, <2>2 DEF TypeOK, ClaimInv, Job
  <2> QED
    BY <2>3, <2>4, <2>5
<1> QED
  BY <1>1, <1>2

\* The base invariant: types, content of accepted jobs, bounds on claims.
LEMMA Base == Spec => []BaseInv
<1>1. Init => BaseInv
  BY DEF Init, BaseInv, TypeOK, ContentInv, ClaimInv, Job, JobStatus, Worker, Idle, Events
<1>2. BaseInv /\ [Next]_vars => BaseInv'
  <2> SUFFICES ASSUME BaseInv, [Next]_vars PROVE BaseInv'
    OBVIOUS
  <2>1. CASE UNCHANGED vars
    BY <2>1 DEF vars, BaseInv, TypeOK, ContentInv, ClaimInv
  <2> QED
    BY <2>1, EnqueueBase, ClaimBase, PersistBase, ReleaseBase, LocalStepBase, EnvironmentBase
    DEF Next, WorkerStep, LocalStep
<1> QED
  BY <1>1, <1>2, PTL DEF Spec

(***************************************************************************)
(* The documents of the outbox always have the shape of their schemas: in  *)
(* particular no claim takes a job past MAX_ATTEMPTS.                      *)
(***************************************************************************)
THEOREM TypeCorrect == Spec => []TypeOK
  BY Base, PTL DEF BaseInv

(***************************************************************************)
(* At most one worker holds the current claim of a job: the attempt number *)
(* fences off every worker whose lease expired.                            *)
(***************************************************************************)
THEOREM ClaimsAreFenced == Spec => []OneCurrentClaim
<1>1. BaseInv => OneCurrentClaim
  BY DEF BaseInv, ClaimInv, OneCurrentClaim, HoldsClaim, IsCurrentClaim
<1> QED
  BY Base, <1>1, PTL

\* The step fact behind LeaseRespected, by the action that is taken.
LEMMA LeaseStep ==
  ASSUME BaseInv, [Next]_vars, NEW w \in Workers, HoldsClaim(w),
         ~job[worker[w].event].due, worker'[w] = worker[w]
  PROVE  /\ job'[worker[w].event].status = "processing"
         /\ job'[worker[w].event].attempts = job[worker[w].event].attempts
<1> DEFINE e == worker[w].event
<1>1. /\ e \in Events
      /\ worker[w].at # "idle"
      /\ job[e].status = "processing"
      /\ worker[w].attempts = job[e].attempts
      /\ job \in [Events -> Job]
      /\ worker \in [Workers -> Worker]
  BY DEF BaseInv, TypeOK, ClaimInv, HoldsClaim, IsCurrentClaim
<1> SUFFICES job'[e].status = "processing" /\ job'[e].attempts = job[e].attempts
  OBVIOUS
\* A worker that commits or releases a current claim does not hold this one.
<1>2. ASSUME NEW v \in Workers, v # w, HoldsClaim(v)
      PROVE  worker[v].event # e
  BY <1>1, <1>2 DEF BaseInv, ClaimInv, HoldsClaim, IsCurrentClaim
<1>3. ASSUME NEW d \in Events, NEW r \in Redirects, EnqueueRedirectEvent(d, r)
      PROVE  job'[e] = job[e]
  BY <1>1, <1>3 DEF EnqueueRedirectEvent, SetJob
<1>4. ASSUME NEW v \in Workers, ClaimRedirectEventJob(v)
      PROVE  job'[e] = job[e]
  BY <1>1, <1>4 DEF ClaimRedirectEventJob, Claimable, SetJob
<1>5. ASSUME NEW v \in Workers, PersistRedirectEvent(v)
      PROVE  job'[e] = job[e]
  <2>1. v # w
    BY <1>1, <1>5 DEF PersistRedirectEvent, GoIdle, MoveTo, SetWorker
  <2> QED
    BY <1>1, <1>2, <1>5, <2>1 DEF PersistRedirectEvent, RecordClick, SetJob
<1>6. ASSUME NEW v \in Workers, ReleaseFailedRedirectEvent(v)
      PROVE  job'[e] = job[e]
  <2>1. v # w
    BY <1>1, <1>6 DEF ReleaseFailedRedirectEvent, GoIdle, SetWorker
  <2>2. CASE IsCurrentClaim(worker[v].event, worker[v].attempts)
    <3>1. worker[v].event # e
      BY <1>2, <1>6, <2>1, <2>2 DEF ReleaseFailedRedirectEvent, HoldsClaim
    <3>2. job' = job \/ \E s \in {"dead", "pending"} :
                         SetJob(worker[v].event, s, worker[v].attempts, FALSE)
      BY <1>6 DEF ReleaseFailedRedirectEvent
    <3> QED
      BY <1>1, <3>1, <3>2 DEF SetJob
  <2>3. CASE ~IsCurrentClaim(worker[v].event, worker[v].attempts)
    BY <1>6, <2>3 DEF ReleaseFailedRedirectEvent
  <2> QED
    BY <2>2, <2>3
<1>7. ASSUME NEW v \in Workers, LocalStep(v)
      PROVE  job'[e] = job[e]
  BY <1>7, LocalStepShape DEF BaseInv
<1>8. ASSUME NEW d \in Events, TimePasses(d) \/ DeleteRetained(d)
      PROVE  /\ job'[e].status = job[e].status
             /\ job'[e].attempts = job[e].attempts
  BY <1>1, <1>8 DEF TimePasses, DeleteRetained, SetJob
<1>9. CASE UNCHANGED vars \/ \E u \in Urls : SettleRefresh(u)
  BY <1>1, <1>9 DEF vars, SettleRefresh
<1> QED
  BY <1>1, <1>3, <1>4, <1>5, <1>6, <1>7, <1>8, <1>9 DEF Next, WorkerStep, LocalStep

(***************************************************************************)
(* Until a lease expires only its holder ends the claim.                   *)
(***************************************************************************)
THEOREM LeaseRespected == Spec => LeaseIsExclusive
<1> DEFINE A == \A w \in Workers :
                  LET e == worker[w].event IN
                  /\ HoldsClaim(w)
                  /\ ~job[e].due
                  /\ worker'[w] = worker[w]
                  => /\ job'[e].status = "processing"
                     /\ job'[e].attempts = job[e].attempts
<1>1. BaseInv /\ [Next]_vars => [A]_vars
  BY LeaseStep
<1> QED
  BY <1>1, Base, PTL DEF Spec, LeaseIsExclusive

-----------------------------------------------------------------------------
(* What is recorded, and how it is counted *)

\* A commit is the only step that records; it records an event for the first time.
LEMMA PersistShape ==
  ASSUME BaseInv, CompletedIffRecorded, NEW w \in Workers, PersistRedirectEvent(w)
  PROVE  /\ worker[w].event \in Events \ clickEvents
         /\ job[worker[w].event].status = "processing"
         /\ redirect[worker[w].event] \in RedirectType
         /\ RecordClick(worker[w].event)
         /\ redirect' = redirect
  BY DEF BaseInv, ClaimInv, ContentInv, CompletedIffRecorded, PersistRedirectEvent,
         HoldsClaim, IsCurrentClaim

\* Every other step records and counts nothing, and keeps what the recorded
\* events say.
LEMMA OtherStepShape ==
  ASSUME BaseInv, CompletedIffRecorded, [Next]_vars,
         ~ \E w \in Workers : PersistRedirectEvent(w)
  PROVE  /\ UNCHANGED <<clickEvents, clicks, lastClickedAt, usage>>
         /\ \A e \in clickEvents : redirect'[e] = redirect[e]
<1> USE DEF ledger
<1>1. ASSUME NEW e \in Events, NEW r \in Redirects, EnqueueRedirectEvent(e, r)
      PROVE  /\ UNCHANGED <<clickEvents, clicks, lastClickedAt, usage>>
             /\ \A d \in clickEvents : redirect'[d] = redirect[d]
  BY <1>1 DEF EnqueueRedirectEvent, BaseInv, TypeOK, CompletedIffRecorded
<1>2. CASE \E w \in Workers : \/ ClaimRedirectEventJob(w) \/ ReleaseFailedRedirectEvent(w)
                             \/ LocalStep(w)
  BY <1>2, LocalStepShape DEF ClaimRedirectEventJob, ReleaseFailedRedirectEvent, BaseInv
<1>3. CASE \/ \E e \in Events : TimePasses(e) \/ DeleteRetained(e)
           \/ \E u \in Urls : SettleRefresh(u)
  BY <1>3 DEF TimePasses, DeleteRetained, SettleRefresh
<1>4. CASE UNCHANGED vars
  BY <1>4 DEF vars
<1> QED
  BY <1>1, <1>2, <1>3, <1>4 DEF Next, WorkerStep, LocalStep

\* CompletedIffRecorded is inductive relative to the base invariant.
LEMMA CompletedStep ==
  ASSUME BaseInv, CompletedIffRecorded, [Next]_vars
  PROVE  CompletedIffRecorded'
<1>1. ASSUME NEW w \in Workers, PersistRedirectEvent(w)
      PROVE  CompletedIffRecorded'
  <2> DEFINE e == worker[w].event
  <2>1. /\ e \in Events
        /\ clickEvents' = clickEvents \cup {e}
        /\ SetJob(e, "completed", job[e].attempts, FALSE)
    BY <1>1, PersistShape DEF RecordClick
  <2> QED
    BY <2>1 DEF CompletedIffRecorded, SetJob, BaseInv, TypeOK
<1> USE DEF BaseInv, CompletedIffRecorded, SetJob
<1>2. ASSUME NEW e \in Events, NEW r \in Redirects, EnqueueRedirectEvent(e, r)
      PROVE  CompletedIffRecorded'
  BY <1>2 DEF EnqueueRedirectEvent, TypeOK, ledger
<1>3. ASSUME NEW w \in Workers, ClaimRedirectEventJob(w)
      PROVE  CompletedIffRecorded'
  BY <1>3 DEF ClaimRedirectEventJob, Claimable, TypeOK, ledger
<1>4. ASSUME NEW w \in Workers, ReleaseFailedRedirectEvent(w)
      PROVE  CompletedIffRecorded'
  <2>1. UNCHANGED clickEvents /\ worker[w].event \in Events
    BY <1>4 DEF ReleaseFailedRedirectEvent, ClaimInv, ledger
  <2>2. CASE job' = job
    BY <2>1, <2>2
  <2>3. CASE job' # job
    <3>1. /\ job[worker[w].event].status = "processing"
          /\ \E s \in {"dead", "pending"} :
               SetJob(worker[w].event, s, worker[w].attempts, FALSE)
      BY <1>4, <2>3 DEF ReleaseFailedRedirectEvent, IsCurrentClaim
    <3> QED
      BY <2>1, <3>1 DEF TypeOK
  <2> QED
    BY <2>2, <2>3
<1>5. ASSUME NEW w \in Workers, LocalStep(w)
      PROVE  CompletedIffRecorded'
  BY <1>5, LocalStepShape
<1>6. ASSUME NEW e \in Events, TimePasses(e) \/ DeleteRetained(e)
      PROVE  CompletedIffRecorded'
  BY <1>6 DEF TimePasses, DeleteRetained, TypeOK, ledger
<1>7. ASSUME NEW u \in Urls, SettleRefresh(u)
      PROVE  CompletedIffRecorded'
  BY <1>7 DEF SettleRefresh
<1>8. CASE UNCHANGED vars
  BY <1>8 DEF vars
<1> QED
  BY <1>1, <1>2, <1>3, <1>4, <1>5, <1>6, <1>7, <1>8 DEF Next, WorkerStep, LocalStep

(***************************************************************************)
(* A job is completed exactly when its click event is recorded: a dead or  *)
(* a retried job was never counted, whatever became of its transactions.   *)
(***************************************************************************)
THEOREM CompletionIsRecording == Spec => []CompletedIffRecorded
<1>1. Init => CompletedIffRecorded
  BY DEF Init, CompletedIffRecorded
<1> QED
  BY <1>1, CompletedStep, Base, PTL DEF Spec

\* The sets that CountersMatchEvents counts are finite.
LEMMA RecordedAreFinite ==
  ASSUME TypeOK
  PROVE  IsFiniteSet(clickEvents)
<1>1. IsFiniteSet(Events)
  BY FS_Interval DEF Events, RedirectEventsAssumption
<1> QED
  BY <1>1, FS_Subset DEF TypeOK

\* CountersMatchEvents is preserved: a commit adds one new event to the set
\* that each incremented counter counts.
LEMMA CountersStep ==
  ASSUME BaseInv, CompletedIffRecorded, CountersMatchEvents, [Next]_vars
  PROVE  CountersMatchEvents'
<1> USE DEF CountersMatchEvents
<1>1. CASE ~ \E w \in Workers : PersistRedirectEvent(w)
  <2>1. \A u \in Urls : ServedClicks(u)' = ServedClicks(u)
    BY <1>1, OtherStepShape DEF ServedClicks
  <2>2. \A c \in Counters : BilledClicks(c)' = BilledClicks(c)
    BY <1>1, OtherStepShape DEF BilledClicks
  <2> QED
    BY <1>1, <2>1, <2>2, OtherStepShape
<1>2. ASSUME NEW w \in Workers, PersistRedirectEvent(w)
      PROVE  CountersMatchEvents'
  <2> DEFINE e == worker[w].event
             r == redirect[e]
  <2>1. /\ e \in Events \ clickEvents
        /\ r \in RedirectType
        /\ clickEvents' = clickEvents \cup {e}
        /\ redirect' = redirect
        /\ clicks' = IF r.served THEN [clicks EXCEPT ![r.url] = @ + 1] ELSE clicks
        /\ usage' = IF r.counter \in Counters
                    THEN [usage EXCEPT ![r.counter] = @ + 1]
                    ELSE usage
    BY <1>2, PersistShape DEF RecordClick
  <2> HIDE DEF e
  <2>2. TypeOK /\ IsFiniteSet(clickEvents)
    BY RecordedAreFinite DEF BaseInv
  <2>3. ASSUME NEW u \in Urls
        PROVE  clicks'[u] = Cardinality(ServedClicks(u)')
    <3>1. IsFiniteSet(ServedClicks(u)) /\ e \notin ServedClicks(u)
      BY <2>1, <2>2, FS_Subset DEF ServedClicks
    <3>2. CASE r.served /\ r.url = u
      <4>1. ServedClicks(u)' = ServedClicks(u) \cup {e}
        BY <2>1, <3>2 DEF ServedClicks
      <4>2. Cardinality(ServedClicks(u)') = Cardinality(ServedClicks(u)) + 1
        BY <3>1, <4>1, FS_AddElement, ZenonT(60)
      <4> QED
        BY <2>1, <2>2, <3>2, <4>2 DEF TypeOK
    <3>3. CASE ~(r.served /\ r.url = u)
      <4>1. ServedClicks(u)' = ServedClicks(u)
        BY <2>1, <3>3 DEF ServedClicks
      <4>2. clicks'[u] = clicks[u]
        BY <2>1, <2>2, <3>3 DEF TypeOK, RedirectType
      <4> QED
        BY <4>1, <4>2
    <3> QED
      BY <3>2, <3>3
  <2>4. ASSUME NEW c \in Counters
        PROVE  usage'[c] = Cardinality(BilledClicks(c)')
    <3>1. IsFiniteSet(BilledClicks(c)) /\ e \notin BilledClicks(c)
      BY <2>1, <2>2, FS_Subset DEF BilledClicks
    <3>2. CASE r.counter = c
      <4>1. BilledClicks(c)' = BilledClicks(c) \cup {e}
        BY <2>1, <3>2 DEF BilledClicks
      <4>2. Cardinality(BilledClicks(c)') = Cardinality(BilledClicks(c)) + 1
        BY <3>1, <4>1, FS_AddElement, ZenonT(60)
      <4> QED
        BY <2>1, <2>2, <3>2, <4>2 DEF TypeOK
    <3>3. CASE r.counter # c
      <4>1. BilledClicks(c)' = BilledClicks(c)
        BY <2>1, <3>3 DEF BilledClicks
      <4>2. usage'[c] = usage[c]
        BY <2>1, <2>2, <3>3 DEF TypeOK
      <4> QED
        BY <4>1, <4>2
    <3> QED
      BY <3>2, <3>3
  <2> QED
    BY <2>3, <2>4
<1> QED
  BY <1>1, <1>2

(***************************************************************************)
(* The counters of every link and of every workspace and period are the    *)
(* numbers of click events recorded for them, through any number of        *)
(* crashes, expired leases, retried and unacknowledged transactions.       *)
(***************************************************************************)
THEOREM CountersAreExact == Spec => []CountersMatchEvents
<1>1. Init => CountersMatchEvents
  BY FS_EmptySet DEF Init, CountersMatchEvents, ServedClicks, BilledClicks
<1> QED
  BY <1>1, CountersStep, CompletionIsRecording, Base, PTL DEF Spec

\* LastClickIsLatest is preserved: a commit takes the later of two instants.
LEMMA LastClickStep ==
  ASSUME BaseInv, CompletedIffRecorded, LastClickIsLatest, [Next]_vars
  PROVE  LastClickIsLatest'
<1>1. CASE ~ \E w \in Workers : PersistRedirectEvent(w)
  <2>1. \A u \in Urls : ServedClicks(u)' = ServedClicks(u)
    BY <1>1, OtherStepShape DEF ServedClicks
  <2>2. \A u \in Urls : \A e \in ServedClicks(u) : redirect'[e] = redirect[e]
    BY <1>1, OtherStepShape DEF ServedClicks
  <2> QED
    BY <1>1, <2>1, <2>2, OtherStepShape DEF LastClickIsLatest
<1>2. ASSUME NEW w \in Workers, PersistRedirectEvent(w)
      PROVE  LastClickIsLatest'
  <2> DEFINE e == worker[w].event
             r == redirect[e]
  <2>1. /\ e \in Events \ clickEvents
        /\ r \in RedirectType
        /\ clickEvents' = clickEvents \cup {e}
        /\ redirect' = redirect
        /\ lastClickedAt' = IF r.served
                            THEN [lastClickedAt EXCEPT ![r.url] = Later(@, r.clickedAt)]
                            ELSE lastClickedAt
    BY <1>2, PersistShape DEF RecordClick
  <2> HIDE DEF e
  <2> SUFFICES ASSUME NEW u \in Urls
               PROVE  /\ \A d \in ServedClicks(u)' : redirect[d].clickedAt <= lastClickedAt'[u]
                      /\ lastClickedAt'[u] # 0 =>
                           \E d \in ServedClicks(u)' : redirect[d].clickedAt = lastClickedAt'[u]
    BY <2>1 DEF LastClickIsLatest
  <2>2. lastClickedAt[u] \in Nat /\ r.clickedAt \in Nat
    BY <2>1 DEF BaseInv, TypeOK, RedirectType
  <2>3. \A d \in ServedClicks(u) : redirect[d].clickedAt \in Nat
    <3>1. \A d \in ServedClicks(u) : d \in Events /\ job[d].status # "none"
      BY DEF ServedClicks, BaseInv, TypeOK, CompletedIffRecorded
    <3> QED
      BY <3>1 DEF BaseInv, ContentInv, RedirectType
  <2>4. CASE r.served /\ r.url = u
    <3>1. ServedClicks(u)' = ServedClicks(u) \cup {e}
      BY <2>1, <2>4 DEF ServedClicks
    <3>2. lastClickedAt'[u] = Later(lastClickedAt[u], r.clickedAt)
      BY <2>1, <2>4 DEF BaseInv, TypeOK
    <3> QED
      BY <2>2, <2>3, <3>1, <3>2 DEF LastClickIsLatest, Later
  <2>5. CASE ~(r.served /\ r.url = u)
    <3>1. ServedClicks(u)' = ServedClicks(u)
      BY <2>1, <2>5 DEF ServedClicks
    <3>2. lastClickedAt'[u] = lastClickedAt[u]
      BY <2>1, <2>5 DEF BaseInv, TypeOK, RedirectType
    <3> QED
      BY <3>1, <3>2 DEF LastClickIsLatest
  <2> QED
    BY <2>4, <2>5
<1> QED
  BY <1>1, <1>2

(***************************************************************************)
(* In whatever order the jobs complete, lastClickedAt of a link is the     *)
(* instant of its latest recorded redirect.                                *)
(***************************************************************************)
THEOREM LastClickIsExact == Spec => []LastClickIsLatest
<1>1. Init => LastClickIsLatest
  BY DEF Init, LastClickIsLatest, ServedClicks
<1> QED
  BY <1>1, LastClickStep, CompletionIsRecording, Base, PTL DEF Spec

-----------------------------------------------------------------------------
(* The outbox implements the ledger *)

\* The refinement mapping takes initial states to initial states.
LEMMA LedgerInit == Init => Ledger!Init
  BY DEF Init, Ledger!Init, Outcome, Events, Ledger!Events

\* No job is created, recorded or given up by a step that keeps these.
LEMMA LedgerStutter ==
  ASSUME TypeOK, CompletedIffRecorded,
         UNCHANGED <<redirect, clickEvents, clicks, lastClickedAt, usage, refreshQueue>>,
         \A e \in Events : Outcome(e)' = Outcome(e)
  PROVE  UNCHANGED Ledger!vars
  BY DEF Ledger!vars

\* Every step of the outbox is a step of the ledger or leaves it unchanged.
LEMMA LedgerStep ==
  ASSUME BaseInv, CompletedIffRecorded, [Next]_vars
  PROVE  [Ledger!Next]_(Ledger!vars)
<1>1. ASSUME NEW e \in Events, NEW r \in Redirects, EnqueueRedirectEvent(e, r)
      PROVE  Ledger!Accept(e, r)
  BY <1>1 DEF EnqueueRedirectEvent, SetJob, Ledger!Accept, Outcome, CompletedIffRecorded,
              BaseInv, TypeOK, ledger
<1>2. ASSUME NEW w \in Workers, PersistRedirectEvent(w)
      PROVE  Ledger!Record(worker[w].event)
  <2>1. [d \in Events |-> Outcome(d)]'
        = [[d \in Events |-> Outcome(d)] EXCEPT ![worker[w].event] = "recorded"]
    BY <1>2, PersistShape DEF RecordClick, SetJob, Outcome, BaseInv, TypeOK
  <2>2. Outcome(worker[w].event) = "accepted"
    BY <1>2, PersistShape DEF Outcome
  <2>3. [d \in Events |-> Outcome(d)][worker[w].event] = "accepted"
    BY <1>2, <2>2, PersistShape
  <2> QED
    BY <1>2, <2>1, <2>3, PersistShape DEF RecordClick, Ledger!Record, Later, Ledger!Later
<1>3. ASSUME NEW w \in Workers, ReleaseFailedRedirectEvent(w)
      PROVE  Ledger!Discard(worker[w].event) \/ UNCHANGED Ledger!vars
  <2> DEFINE e == worker[w].event
  <2>1. /\ e \in Events
        /\ UNCHANGED <<redirect, clickEvents, clicks, lastClickedAt, usage, refreshQueue>>
    BY <1>3 DEF ReleaseFailedRedirectEvent, BaseInv, ClaimInv, ledger
  <2>2. CASE UNCHANGED job
    BY <2>1, <2>2, LedgerStutter DEF Outcome, BaseInv
  <2>3. CASE job' # job
    <3>1. /\ job[e].status = "processing"
          /\ \/ SetJob(e, "dead", worker[w].attempts, FALSE)
             \/ SetJob(e, "pending", worker[w].attempts, FALSE)
      BY <1>3, <2>3 DEF ReleaseFailedRedirectEvent, IsCurrentClaim
    <3>2. e \notin clickEvents
      BY <2>1, <3>1 DEF CompletedIffRecorded
    <3>3. CASE SetJob(e, "pending", worker[w].attempts, FALSE)
      BY <2>1, <3>1, <3>3, LedgerStutter DEF SetJob, Outcome, BaseInv, TypeOK
    <3>4. CASE SetJob(e, "dead", worker[w].attempts, FALSE)
      BY <2>1, <3>1, <3>2, <3>4 DEF SetJob, Outcome, BaseInv, TypeOK, Ledger!Discard
    <3> QED
      BY <3>1, <3>3, <3>4
  <2> QED
    BY <2>2, <2>3
<1>4. ASSUME NEW w \in Workers, LocalStep(w)
      PROVE  UNCHANGED Ledger!vars
  BY <1>4, LocalStepShape, LedgerStutter DEF Outcome, BaseInv
<1>5. ASSUME NEW w \in Workers, ClaimRedirectEventJob(w)
      PROVE  UNCHANGED Ledger!vars
  <2>1. UNCHANGED <<redirect, clickEvents, clicks, lastClickedAt, usage, refreshQueue>>
    BY <1>5 DEF ClaimRedirectEventJob, ledger
  <2>2. \A e \in Events : Outcome(e)' = Outcome(e)
    BY <1>5, <2>1 DEF ClaimRedirectEventJob, Claimable, SetJob, Outcome, BaseInv, TypeOK
  <2> QED
    BY <2>1, <2>2, LedgerStutter DEF BaseInv
<1>6. ASSUME NEW e \in Events, TimePasses(e) \/ DeleteRetained(e)
      PROVE  UNCHANGED Ledger!vars
  <2>1. UNCHANGED <<redirect, clickEvents, clicks, lastClickedAt, usage, refreshQueue>>
    BY <1>6 DEF TimePasses, DeleteRetained, ledger
  <2>2. \A d \in Events : Outcome(d)' = Outcome(d)
    BY <1>6, <2>1 DEF TimePasses, DeleteRetained, SetJob, Outcome, BaseInv, TypeOK,
                      CompletedIffRecorded
  <2> QED
    BY <2>1, <2>2, LedgerStutter DEF BaseInv
<1>7. ASSUME NEW u \in Urls, SettleRefresh(u)
      PROVE  Ledger!Refreshed(u)
  BY <1>7 DEF SettleRefresh, Ledger!Refreshed, Outcome
<1>8. CASE UNCHANGED vars
  BY <1>8 DEF vars, Ledger!vars, Outcome
<1>9. ASSUME NEW w \in Workers, PersistRedirectEvent(w) \/ ReleaseFailedRedirectEvent(w)
      PROVE  worker[w].event \in Ledger!Events
  BY <1>9, PersistShape
  DEF Events, Ledger!Events, ReleaseFailedRedirectEvent, BaseInv, ClaimInv
<1>10. Ledger!Events = Events
  BY DEF Events, Ledger!Events
<1> QED
  BY <1>1, <1>2, <1>3, <1>4, <1>5, <1>6, <1>7, <1>8, <1>9, <1>10
  DEF Next, WorkerStep, LocalStep, Ledger!Next

(***************************************************************************)
(* The workers, leases and retries of the outbox implement the ledger that *)
(* records each accepted event at most once and as a whole.                *)
(***************************************************************************)
THEOREM OutboxImplementsLedger == Spec => ImplementsLedger
  BY LedgerInit, LedgerStep, CompletionIsRecording, Base, PTL
  DEF Spec, ImplementsLedger, Ledger!Spec
===============================================================================
