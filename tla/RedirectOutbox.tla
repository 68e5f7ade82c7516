---------------------------- MODULE RedirectOutbox ----------------------------
(***************************************************************************)
(* The redirect event outbox of the API: redirects enqueue jobs in MongoDB *)
(* and the workers of the API processes claim them under a lease, commit   *)
(* the click in one transaction, and complete, retry or dead-letter the    *)
(* job (services/redirectEventService.js, models/RedirectEventJob.js).     *)
(*                                                                         *)
(* Time.  The claim filter compares the clock with one instant per job:    *)
(* availableAt of a pending job, leaseUntil of a processing one.  due says *)
(* whether that instant has passed; it passes at any moment, so leases     *)
(* expire under slow workers and under skewed clocks alike.                *)
(*                                                                         *)
(* Transactions.  persistRedirectEvent reads the job and commits all its   *)
(* writes, the job's among them, under snapshot isolation.  A transaction  *)
(* is a read step and a commit step; the commit is possible only while the *)
(* job still is as it was read, since any other writer of the job is a     *)
(* write conflict.  After an abort withTransaction runs the callback again.*)
(*                                                                         *)
(* Jobs are numbered in the order of createdAt.                            *)
(***************************************************************************)
EXTENDS RedirectEvents, FiniteSets

CONSTANTS
  Workers,       \* one polling worker per API process
  MaxAttempts    \* MAX_ATTEMPTS, 5 in the code

ASSUME OutboxAssumption == MaxAttempts \in Nat \ {0}

VARIABLES
  redirect,      \* redirect[e]: what the job of event e says, once it exists
  job,           \* job[e]: the RedirectEventJob document of event e
  clickEvents,   \* the ingestion keys ever inserted as a ClickEvent
  clicks,        \* clicks[u]: Url.clicks
  lastClickedAt, \* lastClickedAt[u]: Url.lastClickedAt, 0 if never clicked
  usage,         \* usage[c]: UsageCounter.clicks of a workspace and period
  refreshQueue,  \* the links with an active UrlHealthJob
  worker         \* worker[w]: where a worker is, and the job it holds

vars == <<redirect, job, clickEvents, clicks, lastClickedAt, usage,
                refreshQueue, worker>>

ledger == <<clickEvents, clicks, lastClickedAt, usage, refreshQueue>>

\* "none": not created yet; "deleted": removed by the TTL index.
JobStatus == {"none", "pending", "processing", "completed", "dead", "deleted"}

Job == [status : JobStatus, attempts : 0..MaxAttempts, due : BOOLEAN]

(***************************************************************************)
(* idle: before a claim.  claimed: about to run the transaction callback.  *)
(* writing: the callback found its claim current and wrote its changes in  *)
(* the session.  failed: processClaimed threw, the job is to be released.  *)
(***************************************************************************)
Worker == [at : {"idle", "claimed", "writing", "failed"},
           event : 0..MaxEvents, attempts : 0..MaxAttempts]

Idle == [at |-> "idle", event |-> 0, attempts |-> 0]

Init ==
  /\ redirect = [e \in Events |-> NoRedirect]
  /\ job = [e \in Events |-> [status |-> "none", attempts |-> 0, due |-> FALSE]]
  /\ clickEvents = {}
  /\ clicks = [u \in Urls |-> 0]
  /\ lastClickedAt = [u \in Urls |-> 0]
  /\ usage = [c \in Counters |-> 0]
  /\ refreshQueue = {}
  /\ worker = [w \in Workers |-> Idle]

\* An update of one job document, and of where one worker is.
SetJob(e, status, attempts, due) ==
  job' = [job EXCEPT ![e] = [status |-> status, attempts |-> attempts, due |-> due]]

SetWorker(w, at, event, attempts) ==
  worker' = [worker EXCEPT ![w] = [at |-> at, event |-> event, attempts |-> attempts]]

MoveTo(w, at) == SetWorker(w, at, worker[w].event, worker[w].attempts)

GoIdle(w) == SetWorker(w, "idle", 0, 0)

-----------------------------------------------------------------------------
(* The producer *)

\* redirectToOriginal awaits the insert, and answers only then.
EnqueueRedirectEvent(e, r) ==
  /\ job[e].status = "none"
  /\ \A d \in Events : d < e => job[d].status # "none"
  /\ redirect' = [redirect EXCEPT ![e] = r]
  /\ SetJob(e, "pending", 0, TRUE)
  /\ UNCHANGED <<ledger, worker>>

-----------------------------------------------------------------------------
(* The worker *)

\* A filter that has lost its bound on the attempts.
Claimable_Unbounded(e) ==
  /\ job[e].status \in {"pending", "processing"}
  /\ job[e].due

\* A filter that does not wait for the lease of a processing job.
Claimable_IgnoresLease(e) ==
  /\ \/ job[e].status = "pending" /\ job[e].due
     \/ job[e].status = "processing"
  /\ job[e].attempts < MaxAttempts

Claimable(e) ==
  /\ job[e].status \in {"pending", "processing"}
  /\ job[e].due
  /\ job[e].attempts < MaxAttempts

\* A claim that counts the attempts of failures, not of expired leases.
ClaimRedirectEventJob_SameAttempt(w) ==
  /\ worker[w].at = "idle"
  /\ \E e \in Events :
       LET n == IF job[e].status = "pending" THEN job[e].attempts + 1
                ELSE job[e].attempts IN
       /\ Claimable(e)
       /\ \A d \in Events : Claimable(d) => e <= d
       /\ SetJob(e, "processing", n, FALSE)
       /\ SetWorker(w, "claimed", e, n)
  /\ UNCHANGED <<redirect, ledger>>

\* The atomic findOneAndUpdate, oldest job first.
ClaimRedirectEventJob(w) ==
  /\ worker[w].at = "idle"
  /\ \E e \in Events :
       /\ Claimable(e)
       /\ \A d \in Events : Claimable(d) => e <= d
       /\ SetJob(e, "processing", job[e].attempts + 1, FALSE)
       /\ SetWorker(w, "claimed", e, job[e].attempts + 1)
  /\ UNCHANGED <<redirect, ledger>>

\* A filter without the status.
IsCurrentClaim_AnyStatus(e, attempts) == job[e].attempts = attempts

\* The filter _id, attempts, status of every write that follows a claim.
IsCurrentClaim(e, attempts) ==
  /\ job[e].status = "processing"
  /\ job[e].attempts = attempts

HoldsClaim(w) ==
  /\ worker[w].at # "idle"
  /\ IsCurrentClaim(worker[w].event, worker[w].attempts)

\* The callback starts: getCurrentClaim finds the job, the writes follow.
GetCurrentClaim(w) ==
  /\ worker[w].at = "claimed"
  /\ HoldsClaim(w)
  /\ MoveTo(w, "writing")
  /\ UNCHANGED <<redirect, job, ledger>>

\* The callback starts and finds no current claim: nothing is written.
LostClaim(w) ==
  /\ worker[w].at = "claimed"
  /\ ~HoldsClaim(w)
  /\ GoIdle(w)
  /\ UNCHANGED <<redirect, job, ledger>>

\* A write conflict or another transient error: the callback runs again.
RetryTransaction(w) ==
  /\ worker[w].at = "writing"
  /\ MoveTo(w, "claimed")
  /\ UNCHANGED <<redirect, job, ledger>>

\* The hand-off to the health queue made only when no destination was served.
RecordClick_HandOffLost(e) ==
  LET r == redirect[e] IN
  /\ clickEvents' = clickEvents \cup {e}
  /\ clicks' = IF r.served THEN [clicks EXCEPT ![r.url] = @ + 1] ELSE clicks
  /\ lastClickedAt' = IF r.served
                      THEN [lastClickedAt EXCEPT ![r.url] = Later(@, r.clickedAt)]
                      ELSE lastClickedAt
  /\ usage' = IF r.counter \in Counters
              THEN [usage EXCEPT ![r.counter] = @ + 1]
              ELSE usage
  /\ refreshQueue' = IF r.stale /\ ~r.served THEN refreshQueue \cup {r.url} ELSE refreshQueue
  /\ SetJob(e, "completed", job[e].attempts, FALSE)

\* The writes of persistRedirectEvent for event e, all in one transaction.
RecordClick(e) ==
  LET r == redirect[e] IN
  /\ clickEvents' = clickEvents \cup {e}
  /\ clicks' = IF r.served THEN [clicks EXCEPT ![r.url] = @ + 1] ELSE clicks
  /\ lastClickedAt' = IF r.served
                      THEN [lastClickedAt EXCEPT ![r.url] = Later(@, r.clickedAt)]
                      ELSE lastClickedAt
  /\ usage' = IF r.counter \in Counters
              THEN [usage EXCEPT ![r.counter] = @ + 1]
              ELSE usage
  /\ refreshQueue' = IF r.stale THEN refreshQueue \cup {r.url} ELSE refreshQueue
  /\ SetJob(e, "completed", job[e].attempts, FALSE)

\* Counters incremented outside the session: no conflict with a new claim.
PersistRedirectEvent_OutsideSession(w) ==
  /\ worker[w].at = "writing"
  /\ RecordClick(worker[w].event)
  /\ GoIdle(w)
  /\ UNCHANGED redirect

\* The commit, with or without its acknowledgement reaching the worker: an
\* outcome that stays unknown is thrown, although the commit took effect.
PersistRedirectEvent(w) ==
  /\ worker[w].at = "writing"
  /\ HoldsClaim(w)
  /\ RecordClick(worker[w].event)
  /\ \/ GoIdle(w)
     \/ MoveTo(w, "failed")
  /\ UNCHANGED redirect

\* Any error that withTransaction does not retry, or its time limit.
FailTransaction(w) ==
  /\ worker[w].at \in {"claimed", "writing"}
  /\ MoveTo(w, "failed")
  /\ UNCHANGED <<redirect, job, ledger>>

\* A release that never gives up: the last failure leaves the job pending.
ReleaseFailedRedirectEvent_NeverDead(w) ==
  LET e == worker[w].event IN
  /\ worker[w].at = "failed"
  /\ IF HoldsClaim(w) THEN SetJob(e, "pending", job[e].attempts, FALSE) ELSE UNCHANGED job
  /\ GoIdle(w)
  /\ UNCHANGED <<redirect, ledger>>

\* One guarded update: dead after the last attempt, pending with a back-off
\* before it, and no match when the claim is not current any more.
ReleaseFailedRedirectEvent(w) ==
  LET e == worker[w].event
      n == worker[w].attempts IN
  /\ worker[w].at = "failed"
  /\ IF IsCurrentClaim(e, n)
     THEN SetJob(e, IF n >= MaxAttempts THEN "dead" ELSE "pending", n, FALSE)
     ELSE UNCHANGED job
  /\ GoIdle(w)
  /\ UNCHANGED <<redirect, ledger>>

\* The release itself fails; the polling worker logs it and polls again.
ReleaseFails(w) ==
  /\ worker[w].at = "failed"
  /\ GoIdle(w)
  /\ UNCHANGED <<redirect, job, ledger>>

\* The process dies with a job in hand and a new one takes its place.
Crash(w) ==
  /\ worker[w].at # "idle"
  /\ GoIdle(w)
  /\ UNCHANGED <<redirect, job, ledger>>

-----------------------------------------------------------------------------
(* The environment: the clock, the TTL index and the health queue *)

TimePasses(e) ==
  /\ job[e].status \in {"pending", "processing"}
  /\ ~job[e].due
  /\ SetJob(e, job[e].status, job[e].attempts, TRUE)
  /\ UNCHANGED <<redirect, ledger, worker>>

\* Only a completed or dead job carries a deleteAfter.
DeleteRetained(e) ==
  /\ job[e].status \in {"completed", "dead"}
  /\ SetJob(e, "deleted", job[e].attempts, FALSE)
  /\ UNCHANGED <<redirect, ledger, worker>>

\* The health queue settles the active refresh job of a link.
SettleRefresh(u) ==
  /\ u \in refreshQueue
  /\ refreshQueue' = refreshQueue \ {u}
  /\ UNCHANGED <<redirect, job, clickEvents, clicks, lastClickedAt, usage, worker>>

-----------------------------------------------------------------------------

WorkerStep(w) ==
  \/ ClaimRedirectEventJob(w)
  \/ GetCurrentClaim(w)
  \/ LostClaim(w)
  \/ RetryTransaction(w)
  \/ PersistRedirectEvent(w)
  \/ FailTransaction(w)
  \/ ReleaseFailedRedirectEvent(w)
  \/ ReleaseFails(w)

Next ==
  \/ \E e \in Events, r \in Redirects : EnqueueRedirectEvent(e, r)
  \/ \E w \in Workers : WorkerStep(w) \/ Crash(w)
  \/ \E e \in Events : TimePasses(e) \/ DeleteRetained(e)
  \/ \E u \in Urls : SettleRefresh(u)

Spec == Init /\ [][Next]_vars

(***************************************************************************)
(* The polling worker runs as long as its process does, the clock runs,    *)
(* and withTransaction gives up after its time limit, so a worker does not *)
(* repeat its callback for ever.  Nothing makes a process crash, a visitor *)
(* click or a write fail.                                                  *)
(***************************************************************************)
Fairness ==
  /\ \A w \in Workers :
       /\ WF_vars(WorkerStep(w))
       /\ WF_vars(PersistRedirectEvent(w) \/ FailTransaction(w))
  /\ \A e \in Events : WF_vars(TimePasses(e))

FairSpec == Spec /\ Fairness

-----------------------------------------------------------------------------
(* What the outbox is for *)

TypeOK ==
  /\ redirect \in [Events -> Redirects \cup {NoRedirect}]
  /\ job \in [Events -> Job]
  /\ clickEvents \subseteq Events
  /\ clicks \in [Urls -> Nat]
  /\ lastClickedAt \in [Urls -> Nat]
  /\ usage \in [Counters -> Nat]
  /\ refreshQueue \subseteq Urls
  /\ worker \in [Workers -> Worker]

ServedClicks(u) == {e \in clickEvents : redirect[e].served /\ redirect[e].url = u}

BilledClicks(c) == {e \in clickEvents : redirect[e].counter = c}

(***************************************************************************)
(* Whatever workers crash, stall past their lease or are told nothing of   *)
(* their commit, a link's click counter and a workspace's usage counter    *)
(* are the numbers of click events recorded for them: nothing is counted   *)
(* twice by a retry and nothing is recorded without being counted          *)
(* (persistRedirectEvent increments, it does not recount).                 *)
(***************************************************************************)
CountersMatchEvents ==
  /\ \A u \in Urls : clicks[u] = Cardinality(ServedClicks(u))
  /\ \A c \in Counters : usage[c] = Cardinality(BilledClicks(c))

(***************************************************************************)
(* Jobs are completed in any order, yet lastClickedAt of a link is the     *)
(* instant of its latest recorded redirect.                                *)
(***************************************************************************)
LastClickIsLatest ==
  \A u \in Urls :
    /\ \A e \in ServedClicks(u) : redirect[e].clickedAt <= lastClickedAt[u]
    /\ lastClickedAt[u] # 0 =>
         \E e \in ServedClicks(u) : redirect[e].clickedAt = lastClickedAt[u]

(***************************************************************************)
(* A job is completed exactly when its click is recorded.  So a dead       *)
(* letter was never counted (replaying it by hand is safe), a job that a   *)
(* worker may still claim was not counted either, and a failed release     *)
(* after an unacknowledged commit does not reopen the job.                 *)
(***************************************************************************)
CompletedIffRecorded ==
  \A e \in Events :
    /\ job[e].status = "completed" => e \in clickEvents
    /\ e \in clickEvents => job[e].status \in {"completed", "deleted"}

(***************************************************************************)
(* The attempt number fences the workers: of all that ever claimed a job,  *)
(* zombies included, at most one passes the filter of getCurrentClaim.     *)
(***************************************************************************)
OneCurrentClaim ==
  \A v, w \in Workers :
    HoldsClaim(v) /\ HoldsClaim(w) /\ worker[v].event = worker[w].event => v = w

(***************************************************************************)
(* Until the lease expires a claim can be ended by its holder only: no     *)
(* other worker's claim, commit or release moves the job.                  *)
(***************************************************************************)
LeaseIsExclusive ==
  [][\A w \in Workers :
       LET e == worker[w].event IN
       /\ HoldsClaim(w)
       /\ ~job[e].due
       /\ worker'[w] = worker[w]
       => /\ job'[e].status = "processing"
          /\ job'[e].attempts = job[e].attempts]_vars

Settled(e) == job[e].status \in {"completed", "dead", "deleted"}

\* Claimed for the last time by a worker that can do nothing more for it.
AbandonedAtLastAttempt(e) ==
  /\ job[e].status = "processing"
  /\ job[e].attempts = MaxAttempts
  /\ \A w \in Workers : ~(HoldsClaim(w) /\ worker[w].event = e)

(***************************************************************************)
(* Every accepted event is settled, unless the worker of its last attempt  *)
(* dies or fails to release it: crashes, expired leases and failed writes  *)
(* before that only delay it.                                              *)
(***************************************************************************)
SettledUnlessAbandoned ==
  \A e \in Events :
    (job[e].status # "none") ~> (Settled(e) \/ AbandonedAtLastAttempt(e))

(***************************************************************************)
(* What the deployment guide expects of a restart: every queued job        *)
(* recovers and is settled in the end.                                     *)
(***************************************************************************)
QueuedJobsRecover ==
  \A e \in Events : (job[e].status # "none") ~> Settled(e)

-----------------------------------------------------------------------------
(* The outbox implements the ledger *)

Outcome(e) ==
  IF e \in clickEvents THEN "recorded"
  ELSE IF job[e].status \in {"dead", "deleted"} THEN "discarded"
  ELSE IF job[e].status = "none" THEN "none"
  ELSE "accepted"

Ledger == INSTANCE ClickLedger WITH outcome <- [e \in Events |-> Outcome(e)]

\* Every behaviour of the workers is one of the atomic ledger.
ImplementsLedger == Ledger!Spec
===============================================================================
