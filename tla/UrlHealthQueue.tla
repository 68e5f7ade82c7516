---------------------------- MODULE UrlHealthQueue ----------------------------
(***************************************************************************)
(* The coalescing queue of URL health refreshes and its workers            *)
(* (services/urlHealthQueueService.js, models/UrlHealthJob.js), with the   *)
(* URL-level lease a refresh runs under and the probes it consists of      *)
(* (services/healthService.js).                                            *)
(*                                                                         *)
(* Two leases guard a refresh: the job's, 30 s from its claim, and the     *)
(* URL's, 2 min from the refresh.  Both are instants that a filter         *)
(* compares with the clock and may pass at any moment of a slow refresh.   *)
(* requestedAt is left out: it is written, and nothing reads it.  So is    *)
(* what the probes find: a probe ends, and nothing here depends on how.    *)
(***************************************************************************)
EXTENDS Integers

CONSTANTS
  Urls,          \* links
  NoUrl,         \* the urlId of a job that does not exist yet
  Primary,       \* originalUrl of a link
  Fallbacks,     \* its fallbackUrls
  Workers,       \* one polling worker per process
  MaxJobs,       \* bound: number of jobs ever inserted
  MaxAttempts    \* MAX_ATTEMPTS, 5 in the code

ASSUME HealthQueueAssumption ==
  /\ NoUrl \notin Urls
  /\ Primary \notin Fallbacks
  /\ MaxJobs \in Nat
  /\ MaxAttempts \in Nat \ {0}

VARIABLES
  job,      \* job[j]: the UrlHealthJob documents, in the order of createdAt
  lease,    \* lease[u]: Url.healthRefreshLease
  saved,    \* the refreshes, by job and attempt, that saved a health snapshot
  worker,   \* worker[w]: where a worker is, and the job it holds
  probe     \* probe[w][d]: how far the check of destination d is

vars == <<job, lease, saved, worker, probe>>

Jobs == 1..MaxJobs

JobStatus == {"none", "pending", "processing", "completed", "dead", "deleted"}

Job == [url : Urls \cup {NoUrl}, status : JobStatus, attempts : 0..MaxAttempts,
        due : BOOLEAN]

(***************************************************************************)
(* A refresh draws a fresh random token; a worker refreshes once per       *)
(* claim, so the claim stands for the token.  Job 0: no lease (null).      *)
(***************************************************************************)
Lease == [job : 0..MaxJobs, attempts : 0..MaxAttempts, expired : BOOLEAN]

NoLease == [job |-> 0, attempts |-> 0, expired |-> FALSE]

(***************************************************************************)
(* sweeping: the claim found no job, the dead-letter update is next.       *)
(* probing: holds the URL's lease.  probed, unprobed: in the finally that  *)
(* returns it.  completing: the refresh returned true.  failed:            *)
(* processClaimed threw, the job is to be released.                        *)
(***************************************************************************)
Worker == [at : {"idle", "sweeping", "claimed", "probing", "probed", "unprobed",
                 "completing", "failed"},
           job : 0..MaxJobs, attempts : 0..MaxAttempts]

Destinations == {Primary} \cup Fallbacks

\* resolving: awaits the lookup of the host.  head, get: awaits the answer to
\* that request.
ProbeStep == {"none", "resolving", "head", "get", "done"}

NoProbe == [d \in Destinations |-> "none"]

Init ==
  /\ job = [j \in Jobs |-> [url |-> NoUrl, status |-> "none", attempts |-> 0, due |-> FALSE]]
  /\ lease = [u \in Urls |-> NoLease]
  /\ saved = {}
  /\ worker = [w \in Workers |-> [at |-> "idle", job |-> 0, attempts |-> 0]]
  /\ probe = [w \in Workers |-> NoProbe]

\* The field active of a job: it is set and cleared together with the status.
Active(j) == job[j].status \in {"pending", "processing"}

SetJob(j, status, attempts, due) ==
  job' = [job EXCEPT ![j] = [url |-> job[j].url, status |-> status,
                             attempts |-> attempts, due |-> due]]

SetWorker(w, at, j, attempts) ==
  worker' = [worker EXCEPT ![w] = [at |-> at, job |-> j, attempts |-> attempts]]

MoveTo(w, at) == SetWorker(w, at, worker[w].job, worker[w].attempts)

GoIdle(w) == SetWorker(w, "idle", 0, 0)

\* The filter of every write that follows a claim, without its status.
IsCurrentClaim_AnyStatus(w) ==
  job[worker[w].job].attempts = worker[w].attempts

\* The same filter without the attempt that the worker claimed.
IsCurrentClaim_AnyAttempt(w) ==
  job[worker[w].job].status = "processing"

IsCurrentClaim(w) ==
  LET j == worker[w].job IN
  /\ job[j].status = "processing"
  /\ job[j].attempts = worker[w].attempts

-----------------------------------------------------------------------------
(* The queue *)

\* The upsert of a link without an active job; another request only touches
\* requestedAt of the active one.
EnqueueUrlHealthRefresh(u) ==
  /\ \A j \in Jobs : Active(j) => job[j].url # u
  /\ \E j \in Jobs :
       /\ job[j].status = "none"
       /\ \A i \in Jobs : i < j => job[i].status # "none"
       /\ job' = [job EXCEPT ![j] = [url |-> u, status |-> "pending", attempts |-> 0,
                                     due |-> TRUE]]
  /\ UNCHANGED <<lease, saved, worker, probe>>

Claimable(j) ==
  /\ Active(j)
  /\ job[j].due
  /\ job[j].attempts < MaxAttempts

ClaimUrlHealthJob(w) ==
  /\ worker[w].at = "idle"
  /\ \E j \in Jobs :
       /\ Claimable(j)
       /\ \A i \in Jobs : Claimable(i) => j <= i
       /\ SetJob(j, "processing", job[j].attempts + 1, FALSE)
       /\ SetWorker(w, "claimed", j, job[j].attempts + 1)
  /\ UNCHANGED <<lease, saved, probe>>

FindNoJob(w) ==
  /\ worker[w].at = "idle"
  /\ \A j \in Jobs : ~Claimable(j)
  /\ MoveTo(w, "sweeping")
  /\ UNCHANGED <<job, lease, saved, probe>>

\* A claim that finds no job and looks no further.
DeadLetterExpiredUrlHealthJob_Skipped(w) ==
  /\ worker[w].at = "sweeping"
  /\ GoIdle(w)
  /\ UNCHANGED <<job, lease, saved, probe>>

\* Buries one job, if any, whose last claim was never ended.
DeadLetterExpiredUrlHealthJob(w) ==
  LET expired == {j \in Jobs : /\ job[j].status = "processing"
                               /\ job[j].due
                               /\ job[j].attempts >= MaxAttempts} IN
  /\ worker[w].at = "sweeping"
  /\ \/ expired = {} /\ UNCHANGED job
     \/ \E j \in expired : SetJob(j, "dead", job[j].attempts, FALSE)
  /\ GoIdle(w)
  /\ UNCHANGED <<lease, saved, probe>>

-----------------------------------------------------------------------------
(* The refresh under the URL's lease *)

UrlOf(w) == job[worker[w].job].url

Holds(l, w) == l.job = worker[w].job /\ l.attempts = worker[w].attempts

\* refreshUrlHealthWithLease takes a free or expired lease, or returns false
\* and processClaimed throws.
ClaimLease(w) ==
  /\ worker[w].at = "claimed"
  /\ IF lease[UrlOf(w)].job = 0 \/ lease[UrlOf(w)].expired
     THEN /\ lease' = [lease EXCEPT ![UrlOf(w)] = [job |-> worker[w].job,
                                                   attempts |-> worker[w].attempts,
                                                   expired |-> FALSE]]
          /\ MoveTo(w, "probing")
          /\ probe' = [probe EXCEPT ![w][Primary] = "resolving"]
     ELSE /\ MoveTo(w, "failed")
          /\ UNCHANGED <<lease, probe>>
  /\ UNCHANGED <<job, saved>>

-----------------------------------------------------------------------------
(* The probes: checkDestinationHealth *)

Probed(w, d, step) ==
  /\ probe' = [probe EXCEPT ![w][d] = step]
  /\ UNCHANGED <<job, lease, saved, worker>>

\* validatePublicDestination: a blocked address, a host without an address or
\* an error of the lookup ends the probe.
ValidatePublicDestination(w, d) ==
  /\ probe[w][d] = "resolving"
  /\ Probed(w, d, "done") \/ Probed(w, d, "head")

\* The destination responds, or the connection fails.  After a 405 or 501 it
\* is asked again.
RequestDestination(w, d) ==
  /\ probe[w][d] \in {"head", "get"}
  /\ \/ Probed(w, d, "done")
     \/ probe[w][d] = "head" /\ Probed(w, d, "get")

\* A timer for the first request only.
RequestTimesOut_FirstOnly(w, d) ==
  /\ probe[w][d] = "head"
  /\ Probed(w, d, "done")

\* The timer destroys the request, whose error ends the probe.
RequestTimesOut(w, d) ==
  /\ probe[w][d] \in {"head", "get"}
  /\ Probed(w, d, "done")

\* The primary destination first, then the fallbacks all at once.
ProbeFallbacks(w) ==
  /\ probe[w][Primary] = "done"
  /\ \E d \in Fallbacks : probe[w][d] = "none"
  /\ probe' = [probe EXCEPT ![w] = [d \in Destinations |->
                                     IF d = Primary THEN "done" ELSE "resolving"]]
  /\ UNCHANGED <<job, lease, saved, worker>>

AllProbed(w) == \A d \in Destinations : probe[w][d] = "done"

-----------------------------------------------------------------------------
(* The end of the refresh *)

\* refreshUrlHealth saves what the probes found.
SaveHealth(w) ==
  /\ worker[w].at = "probing" /\ AllProbed(w)
  /\ saved' = saved \cup {<<worker[w].job, worker[w].attempts>>}
  /\ MoveTo(w, "probed")
  /\ probe' = [probe EXCEPT ![w] = NoProbe]
  /\ UNCHANGED <<job, lease>>

\* Only the save throws, a probe never does.
SaveHealthThrows(w) ==
  /\ worker[w].at = "probing" /\ AllProbed(w)
  /\ MoveTo(w, "unprobed")
  /\ probe' = [probe EXCEPT ![w] = NoProbe]
  /\ UNCHANGED <<job, lease, saved>>

\* A release that forgets to compare the token.
ReleaseLease_AnyToken(w) ==
  /\ worker[w].at \in {"probed", "unprobed"}
  /\ lease' = [lease EXCEPT ![UrlOf(w)] = NoLease]
  /\ MoveTo(w, IF worker[w].at = "probed" THEN "completing" ELSE "failed")
  /\ UNCHANGED <<job, saved, probe>>

ReleaseLease(w) ==
  /\ worker[w].at \in {"probed", "unprobed"}
  /\ lease' = IF Holds(lease[UrlOf(w)], w)
              THEN [lease EXCEPT ![UrlOf(w)] = NoLease]
              ELSE lease
  /\ MoveTo(w, IF worker[w].at = "probed" THEN "completing" ELSE "failed")
  /\ UNCHANGED <<job, saved, probe>>

ReleaseLeaseThrows(w) ==
  /\ worker[w].at \in {"probed", "unprobed"}
  /\ MoveTo(w, "failed")
  /\ UNCHANGED <<job, lease, saved, probe>>

-----------------------------------------------------------------------------
(* The end of a claim *)

\* A match that is acknowledged ends the claim.  Without a match, or without
\* an acknowledgement, processClaimed throws.
CompleteUrlHealthJob(w) ==
  /\ worker[w].at = "completing"
  /\ IF IsCurrentClaim(w)
     THEN /\ SetJob(worker[w].job, "completed", job[worker[w].job].attempts, FALSE)
          /\ GoIdle(w) \/ MoveTo(w, "failed")
     ELSE UNCHANGED job /\ MoveTo(w, "failed")
  /\ UNCHANGED <<lease, saved, probe>>

\* Any step of processClaimed may throw before it has an effect.
ProcessingThrows(w) ==
  /\ worker[w].at \in {"claimed", "completing"}
  /\ MoveTo(w, "failed")
  /\ UNCHANGED <<job, lease, saved, probe>>

ReleaseFailedUrlHealthJob(w) ==
  LET n == worker[w].attempts IN
  /\ worker[w].at = "failed"
  /\ IF IsCurrentClaim(w)
     THEN SetJob(worker[w].job, IF n >= MaxAttempts THEN "dead" ELSE "pending", n, FALSE)
     ELSE UNCHANGED job
  /\ GoIdle(w)
  /\ UNCHANGED <<lease, saved, probe>>

ReleaseFails(w) ==
  /\ worker[w].at = "failed"
  /\ GoIdle(w)
  /\ UNCHANGED <<job, lease, saved, probe>>

Crash(w) ==
  /\ worker[w].at \notin {"idle", "sweeping"}
  /\ GoIdle(w)
  /\ probe' = [probe EXCEPT ![w] = NoProbe]
  /\ UNCHANGED <<job, lease, saved>>

-----------------------------------------------------------------------------
(* The environment *)

JobTimePasses(j) ==
  /\ Active(j)
  /\ ~job[j].due
  /\ SetJob(j, job[j].status, job[j].attempts, TRUE)
  /\ UNCHANGED <<lease, saved, worker, probe>>

LeaseTimePasses(u) ==
  /\ lease[u].job # 0
  /\ ~lease[u].expired
  /\ lease' = [lease EXCEPT ![u].expired = TRUE]
  /\ UNCHANGED <<job, saved, worker, probe>>

DeleteRetained(j) ==
  /\ job[j].status \in {"completed", "dead"}
  /\ SetJob(j, "deleted", job[j].attempts, FALSE)
  /\ UNCHANGED <<lease, saved, worker, probe>>

-----------------------------------------------------------------------------

WorkerStep(w) ==
  \/ ClaimUrlHealthJob(w)
  \/ FindNoJob(w)
  \/ DeadLetterExpiredUrlHealthJob(w)
  \/ ClaimLease(w)
  \/ \E d \in Destinations : ValidatePublicDestination(w, d) \/ RequestTimesOut(w, d)
  \/ ProbeFallbacks(w)
  \/ SaveHealth(w)
  \/ SaveHealthThrows(w)
  \/ ReleaseLease(w)
  \/ ReleaseLeaseThrows(w)
  \/ CompleteUrlHealthJob(w)
  \/ ProcessingThrows(w)
  \/ ReleaseFailedUrlHealthJob(w)
  \/ ReleaseFails(w)

Next ==
  \/ \E u \in Urls : EnqueueUrlHealthRefresh(u) \/ LeaseTimePasses(u)
  \/ \E w \in Workers :
       \/ WorkerStep(w)
       \/ \E d \in Destinations : RequestDestination(w, d)
       \/ Crash(w)
  \/ \E j \in Jobs : JobTimePasses(j) \/ DeleteRetained(j)

Spec == Init /\ [][Next]_vars

\* A running process polls for ever, lookups end, timers are due, and the
\* clock runs.  No destination need ever respond.
Fairness ==
  /\ \A w \in Workers : WF_vars(WorkerStep(w))
  /\ \A j \in Jobs : WF_vars(JobTimePasses(j))

FairSpec == Spec /\ Fairness

-----------------------------------------------------------------------------
(* What the queue is for *)

TypeOK ==
  /\ job \in [Jobs -> Job]
  /\ lease \in [Urls -> Lease]
  /\ saved \subseteq Jobs \X (1..MaxAttempts)
  /\ worker \in [Workers -> Worker]
  /\ probe \in [Workers -> [Destinations -> ProbeStep]]
  /\ \A w \in Workers : worker[w].at = "probing" \/ probe[w] = NoProbe

(***************************************************************************)
(* A link never has two active jobs: a worker that lost its claim does not *)
(* reactivate a settled job beside the job of a later request.             *)
(***************************************************************************)
OneActiveJobPerUrl ==
  \A i, j \in Jobs : Active(i) /\ Active(j) /\ job[i].url = job[j].url => i = j

(***************************************************************************)
(* The URL-level lease coordinates the workers: while a refresh is within  *)
(* its lease no other worker takes the lease or clears it, a late one that *)
(* returns the lease it lost included.                                     *)
(***************************************************************************)
UrlLeaseIsExclusive ==
  [][\A w \in Workers :
       LET u == UrlOf(w) IN
       /\ worker[w].at = "probing"
       /\ Holds(lease[u], w)
       /\ ~lease[u].expired
       /\ worker'[w] = worker[w]
       => Holds(lease'[u], w)]_vars

(***************************************************************************)
(* A job is completed by the attempt that saved a health snapshot: neither *)
(* a refused lease nor a worker whose claim was taken over completes it.   *)
(***************************************************************************)
CompletedByItsRefresh ==
  \A j \in Jobs : job[j].status = "completed" => <<j, job[j].attempts>> \in saved

(***************************************************************************)
(* Every requested refresh is carried out or retained as a dead letter,    *)
(* also when the worker of the last attempt dies (an empty poll buries it) *)
(* and when a destination accepts connections and never answers.           *)
(***************************************************************************)
EveryJobSettles == \A j \in Jobs : Active(j) ~> ~Active(j)

(***************************************************************************)
(* The queue as the rest of the system sees it: the links that wait for a  *)
(* refresh, what became of each request, and the requests with a snapshot. *)
(***************************************************************************)
Outcome(j) ==
  CASE Active(j) -> "open"
    [] job[j].status = "completed" -> "refreshed"
    [] job[j].status = "dead" -> "buried"
    [] job[j].status = "deleted" -> "forgotten"
    [] OTHER -> "none"

RefreshQueue == {job[j].url : j \in {i \in Jobs : Active(i)}}

Request == [j \in Jobs |-> [url |-> job[j].url, outcome |-> Outcome(j)]]

Snapshots == {j \in Jobs : \E n \in 1..MaxAttempts : <<j, n>> \in saved}

Refreshes == INSTANCE HealthRefreshes
             WITH refreshQueue <- RefreshQueue, request <- Request, snapshots <- Snapshots

(***************************************************************************)
(* Every behaviour of the workers, with their retries, lost leases and     *)
(* crashes, is one of the queue without them: no late worker reopens a     *)
(* closed request or closes one that another attempt has closed, a link    *)
(* waits at most once, and only a saved snapshot completes a request.      *)
(***************************************************************************)
ImplementsRefreshes == Refreshes!Spec
===============================================================================
