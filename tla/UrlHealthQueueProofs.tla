-------------------------- MODULE UrlHealthQueueProofs --------------------------
(***************************************************************************)
(* Proofs about the URL health refresh queue, for any number of links,     *)
(* jobs, workers, destinations and attempts.                               *)
(***************************************************************************)
EXTENDS UrlHealthQueue, TLAPS

USE HealthQueueAssumption

\* A worker that has claimed a job.
Holding(w) == worker[w].at \notin {"idle", "sweeping"}

(***************************************************************************)
(* Attempts are numbered upwards: a worker's claim is never ahead of its   *)
(* job, and no two workers hold the same attempt of the same job.          *)
(***************************************************************************)
ClaimInv ==
  /\ \A w \in Workers :
       Holding(w) =>
         /\ worker[w].job \in Jobs /\ worker[w].attempts \in 1..MaxAttempts
         /\ worker[w].attempts <= job[worker[w].job].attempts
         /\ job[worker[w].job].status # "none"
  /\ \A v, w \in Workers :
       /\ Holding(v) /\ Holding(w)
       /\ worker[v].job = worker[w].job /\ worker[v].attempts = worker[w].attempts
       => v = w

\* A job that exists is some link's.
UrlInv == \A j \in Jobs : job[j].status # "none" => job[j].url \in Urls

\* A worker past its probes has saved what they found.
SavedInv ==
  \A w \in Workers : worker[w].at \in {"probed", "completing"} =>
    <<worker[w].job, worker[w].attempts>> \in saved

IInv == /\ TypeOK /\ ClaimInv /\ UrlInv /\ SavedInv
        /\ OneActiveJobPerUrl /\ CompletedByItsRefresh

-----------------------------------------------------------------------------
(* What the steps have in common *)

LEMMA Records ==
  /\ Jobs \subseteq Nat /\ 0 \notin Jobs /\ 0 \in 0..MaxJobs /\ 0 \in 0..MaxAttempts
  /\ NoLease \in Lease
  /\ NoProbe \in [Destinations -> ProbeStep]
<1>1. Jobs \subseteq Nat /\ 0 \notin Jobs /\ 0 \in 0..MaxJobs /\ 0 \in 0..MaxAttempts
  BY DEF Jobs
<1>2. NoLease \in Lease
  BY <1>1 DEF NoLease, Lease
<1>3. NoProbe \in [Destinations -> ProbeStep]
  BY DEF NoProbe, ProbeStep
<1> QED
  BY <1>1, <1>2, <1>3

\* A worker goes on with its job, or drops it; what else happens keeps the jobs' attempts.
Keeps(w) ==
  \/ GoIdle(w)
  \/ Holding(w) /\ \E at \in {"claimed", "probing", "probed", "unprobed", "completing",
                              "failed"} : MoveTo(w, at)
  \/ ~Holding(w) /\ MoveTo(w, "sweeping")
  \/ UNCHANGED worker

LEMMA KeepsTyped ==
  ASSUME TypeOK, NEW w \in Workers, Keeps(w)
  PROVE  /\ worker' \in [Workers -> Worker]
         /\ \A v \in Workers : v # w => worker'[v] = worker[v]
         /\ Holding(w)' => Holding(w) /\ worker'[w].job = worker[w].job
                                      /\ worker'[w].attempts = worker[w].attempts
<1>1. worker \in [Workers -> Worker] /\ worker[w] \in Worker
  BY DEF TypeOK
<1>2. CASE GoIdle(w)
  BY <1>1, <1>2, Records DEF GoIdle, SetWorker, Worker, Holding
<1>3. ASSUME NEW at \in {"claimed", "probing", "probed", "unprobed", "completing", "failed"},
             Holding(w), MoveTo(w, at)
      PROVE  /\ worker' \in [Workers -> Worker]
             /\ \A v \in Workers : v # w => worker'[v] = worker[v]
             /\ worker'[w].job = worker[w].job /\ worker'[w].attempts = worker[w].attempts
  BY <1>1, <1>3 DEF MoveTo, SetWorker, Worker
<1>4. CASE MoveTo(w, "sweeping")
  BY <1>1, <1>4 DEF MoveTo, SetWorker, Worker, Holding
<1>5. CASE UNCHANGED worker
  BY <1>1, <1>5 DEF Holding
<1> QED
  BY <1>2, <1>3, <1>4, <1>5 DEF Keeps

LEMMA KeepsClaims ==
  ASSUME IInv, NEW w \in Workers, Keeps(w),
         \A j \in Jobs : /\ job'[j].attempts = job[j].attempts
                         /\ job[j].status # "none" => job'[j].status # "none"
  PROVE  ClaimInv'
<1>1. \A v \in Workers :
        Holding(v)' => Holding(v) /\ worker'[v].job = worker[v].job
                                  /\ worker'[v].attempts = worker[v].attempts
  BY KeepsTyped DEF IInv, Holding
<1> QED
  BY <1>1 DEF IInv, ClaimInv

\* One job changes its status within its life; completed is reserved to saved attempts.
LEMMA JobMoves ==
  ASSUME IInv, NEW j \in Jobs, job[j].status # "none", saved \subseteq saved',
         NEW r \in Job, job' = [job EXCEPT ![j] = r],
         r.url = job[j].url, r.status # "none",
         r.status \in {"pending", "processing"} => Active(j),
         r.status = "completed" => <<j, r.attempts>> \in saved
  PROVE  /\ job' \in [Jobs -> Job] /\ UrlInv' /\ OneActiveJobPerUrl' /\ CompletedByItsRefresh'
         /\ \A i \in Jobs : i # j => job'[i] = job[i]
         /\ job'[j] = r
<1>1. /\ job' \in [Jobs -> Job]
      /\ \A i \in Jobs : i # j => job'[i] = job[i]
      /\ job'[j] = r
  BY DEF IInv, TypeOK
<1>2. UrlInv'
  BY <1>1 DEF IInv, UrlInv
<1>3. OneActiveJobPerUrl'
  BY <1>1 DEF IInv, OneActiveJobPerUrl, Active
<1>4. CompletedByItsRefresh'
  BY <1>1 DEF IInv, CompletedByItsRefresh
<1> QED
  BY <1>1, <1>2, <1>3, <1>4

\* The documents that SetJob writes.
LEMMA Written ==
  ASSUME IInv, NEW j \in Jobs, NEW status \in JobStatus, NEW n \in 0..MaxAttempts,
         NEW due \in BOOLEAN
  PROVE  [url |-> job[j].url, status |-> status, attempts |-> n, due |-> due] \in Job
  BY DEF IInv, TypeOK, Job

\* The jobs are left alone.
LEMMA JobsStay ==
  ASSUME IInv, job' = job, saved \subseteq saved'
  PROVE  UrlInv' /\ OneActiveJobPerUrl' /\ CompletedByItsRefresh'
  BY DEF IInv, UrlInv, OneActiveJobPerUrl, Active, CompletedByItsRefresh

-----------------------------------------------------------------------------
(* The steps *)

LEMMA EnqueueStep ==
  ASSUME IInv, NEW u \in Urls, EnqueueUrlHealthRefresh(u)
  PROVE  IInv'
<1>1. PICK j \in Jobs :
        /\ job[j].status = "none"
        /\ job' = [job EXCEPT ![j] = [url |-> u, status |-> "pending", attempts |-> 0,
                                      due |-> TRUE]]
  BY DEF EnqueueUrlHealthRefresh
<1>2. /\ \A i \in Jobs : Active(i) => job[i].url # u
      /\ UNCHANGED <<lease, saved, worker, probe>>
  BY DEF EnqueueUrlHealthRefresh
<1>3. /\ \A i \in Jobs : i # j => job'[i] = job[i]
      /\ job'[j] = [url |-> u, status |-> "pending", attempts |-> 0, due |-> TRUE]
      /\ job' \in [Jobs -> Job]
  BY <1>1, Records DEF IInv, TypeOK, Job, JobStatus
<1>4. TypeOK'
  BY <1>2, <1>3 DEF IInv, TypeOK
<1>5. ClaimInv' /\ SavedInv'
  BY <1>1, <1>2, <1>3 DEF IInv, ClaimInv, SavedInv, Holding
<1>6. UrlInv' /\ CompletedByItsRefresh'
  BY <1>2, <1>3 DEF IInv, UrlInv, CompletedByItsRefresh
<1>7. OneActiveJobPerUrl'
  BY <1>2, <1>3 DEF IInv, OneActiveJobPerUrl, Active
<1> QED
  BY <1>4, <1>5, <1>6, <1>7 DEF IInv

\* A claim's attempt number is above all that were handed out before.
LEMMA ClaimStep ==
  ASSUME IInv, NEW w \in Workers, ClaimUrlHealthJob(w)
  PROVE  IInv'
<1>1. PICK j \in Jobs :
        /\ Claimable(j)
        /\ SetJob(j, "processing", job[j].attempts + 1, FALSE)
        /\ SetWorker(w, "claimed", j, job[j].attempts + 1)
  BY DEF ClaimUrlHealthJob
<1>2. UNCHANGED <<lease, saved, probe>> /\ worker[w].at = "idle"
  BY DEF ClaimUrlHealthJob
<1> DEFINE n == job[j].attempts + 1
<1>3. job[j].attempts \in Nat /\ n \in 1..MaxAttempts
  BY <1>1 DEF Claimable, IInv, TypeOK, Job
<1>4. /\ job' \in [Jobs -> Job] /\ UrlInv' /\ OneActiveJobPerUrl' /\ CompletedByItsRefresh'
      /\ \A i \in Jobs : i # j => job'[i] = job[i]
      /\ job'[j].attempts = n /\ job'[j].status = "processing"
  <2> DEFINE r == [url |-> job[j].url, status |-> "processing", attempts |-> n, due |-> FALSE]
  <2>1. job[j].status # "none" /\ n \in 0..MaxAttempts /\ Active(j)
    BY <1>1, <1>3 DEF Claimable, Active
  <2>2. r \in Job
    BY <2>1, Written DEF JobStatus
  <2>3. job' = [job EXCEPT ![j] = r]
    BY <1>1 DEF SetJob
  <2>4. r.url = job[j].url /\ r.status = "processing" /\ r.attempts = n
    OBVIOUS
  <2> HIDE DEF r, n
  <2> QED
    BY <1>2, <2>1, <2>2, <2>3, <2>4, JobMoves
<1>5. /\ worker' \in [Workers -> Worker]
      /\ \A v \in Workers : v # w => worker'[v] = worker[v]
      /\ worker'[w] = [at |-> "claimed", job |-> j, attempts |-> n]
  <2>1. [at |-> "claimed", job |-> j, attempts |-> n] \in Worker
    BY <1>3, Records DEF Worker, Jobs
  <2> QED
    BY <1>1, <2>1 DEF SetWorker, IInv, TypeOK
<1>6. TypeOK'
  BY <1>2, <1>4, <1>5 DEF IInv, TypeOK
<1>7. ClaimInv'
  <2>1. \A i \in Jobs : job[i].attempts \in Nat
    BY DEF IInv, TypeOK, Job
  <2>2. \A v \in Workers : v # w /\ Holding(v)' =>
          Holding(v) /\ ~(worker[v].job = j /\ worker[v].attempts = n)
    BY <1>3, <1>5, <2>1 DEF IInv, ClaimInv, Holding
  <2> HIDE DEF n
  <2>3. \A v \in Workers : Holding(v)' =>
          /\ worker'[v].job \in Jobs /\ worker'[v].attempts \in 1..MaxAttempts
          /\ worker'[v].attempts <= job'[worker'[v].job].attempts
          /\ job'[worker'[v].job].status # "none"
    <3>1. ASSUME NEW v \in Workers, v # w, Holding(v)'
          PROVE  /\ worker'[v].job \in Jobs /\ worker'[v].attempts \in 1..MaxAttempts
                 /\ worker'[v].attempts <= job'[worker'[v].job].attempts
                 /\ job'[worker'[v].job].status # "none"
      <4>1. /\ worker[v].job \in Jobs /\ worker[v].attempts \in 1..MaxAttempts
            /\ worker[v].attempts <= job[worker[v].job].attempts
            /\ job[worker[v].job].status # "none"
        BY <2>2, <3>1 DEF IInv, ClaimInv
      <4>2. n = job[j].attempts + 1 /\ n \in Nat
        BY <1>3 DEF n
      <4> QED
        BY <1>3, <1>4, <1>5, <2>1, <3>1, <4>1, <4>2
    <3> QED
      BY <1>3, <1>4, <1>5, <3>1
  <2> QED
    BY <1>5, <2>2, <2>3 DEF IInv, ClaimInv, Holding
<1>8. SavedInv'
  BY <1>2, <1>5 DEF IInv, SavedInv
<1> QED
  BY <1>4, <1>6, <1>7, <1>8 DEF IInv

\* A probe moves on within a worker's refresh.
LEMMA ProbeStepKeeps ==
  ASSUME IInv, NEW w \in Workers, NEW d \in Destinations,
         \/ ValidatePublicDestination(w, d) \/ RequestDestination(w, d)
         \/ RequestTimesOut(w, d) \/ ProbeFallbacks(w)
  PROVE  IInv'
<1>0. probe \in [Workers -> [Destinations -> ProbeStep]]
  BY DEF IInv, TypeOK
<1>1. UNCHANGED <<job, lease, saved, worker>>
  BY DEF ValidatePublicDestination, RequestDestination, RequestTimesOut, ProbeFallbacks, Probed
<1>2. probe[w] # NoProbe
  BY DEF ValidatePublicDestination, RequestDestination, RequestTimesOut, ProbeFallbacks,
         NoProbe, Destinations
<1>3. /\ probe' \in [Workers -> [Destinations -> ProbeStep]]
      /\ \A v \in Workers : v # w => probe'[v] = probe[v]
  <2>1. CASE ProbeFallbacks(w)
    <3>1. [e \in Destinations |-> IF e = Primary THEN "done" ELSE "resolving"]
            \in [Destinations -> ProbeStep]
      BY DEF ProbeStep
    <3> QED
      BY <1>0, <2>1, <3>1 DEF ProbeFallbacks
  <2>2. CASE \E step \in {"head", "get", "done"} : Probed(w, d, step)
    BY <1>0, <2>2 DEF Probed, ProbeStep
  <2> QED
    BY <2>1, <2>2 DEF ValidatePublicDestination, RequestDestination, RequestTimesOut
<1>4. TypeOK'
  BY <1>1, <1>2, <1>3 DEF IInv, TypeOK
<1> QED
  BY <1>1, <1>4 DEF IInv, ClaimInv, UrlInv, SavedInv, OneActiveJobPerUrl, CompletedByItsRefresh,
                    Holding, Active

\* The lease, the snapshot and the failures: a worker goes on or gives up, its job untouched.
LEMMA LocalStep ==
  ASSUME IInv, NEW w \in Workers,
         \/ FindNoJob(w) \/ ClaimLease(w) \/ SaveHealth(w) \/ SaveHealthThrows(w)
         \/ ReleaseLease(w) \/ ReleaseLeaseThrows(w) \/ ProcessingThrows(w)
         \/ ReleaseFails(w) \/ Crash(w)
  PROVE  IInv'
<1>0. /\ lease \in [Urls -> Lease] /\ saved \subseteq Jobs \X (1..MaxAttempts)
      /\ probe \in [Workers -> [Destinations -> ProbeStep]]
      /\ \A v \in Workers : worker[v].at = "probing" \/ probe[v] = NoProbe
  BY DEF IInv, TypeOK
<1>1. UNCHANGED job /\ Keeps(w) /\ saved \subseteq saved'
  BY DEF FindNoJob, ClaimLease, SaveHealth, SaveHealthThrows, ReleaseLease, ReleaseLeaseThrows,
         ProcessingThrows, ReleaseFails, Crash, Keeps, Holding
<1>2. lease' \in [Urls -> Lease]
  <2>1. CASE ClaimLease(w)
    <3>1. Holding(w)
      BY <2>1 DEF ClaimLease, Holding
    <3>2. [job |-> worker[w].job, attempts |-> worker[w].attempts, expired |-> FALSE] \in Lease
      BY <3>1 DEF IInv, ClaimInv, Lease, Jobs
    <3> QED
      BY <1>0, <2>1, <3>2 DEF ClaimLease
  <2>2. CASE ReleaseLease(w)
    BY <1>0, <2>2, Records DEF ReleaseLease
  <2>3. CASE ~ClaimLease(w) /\ ~ReleaseLease(w)
    BY <1>0, <2>3 DEF FindNoJob, SaveHealth, SaveHealthThrows, ReleaseLeaseThrows,
                      ProcessingThrows, ReleaseFails, Crash
  <2> QED
    BY <2>1, <2>2, <2>3
<1>3. saved' \subseteq Jobs \X (1..MaxAttempts) /\ SavedInv'
  <2>1. CASE SaveHealth(w)
    <3>1. Holding(w)
      BY <2>1 DEF SaveHealth, Holding
    <3>2. worker[w].job \in Jobs /\ worker[w].attempts \in 1..MaxAttempts
      BY <3>1 DEF IInv, ClaimInv
    <3>3. /\ worker'[w].job = worker[w].job /\ worker'[w].attempts = worker[w].attempts
          /\ saved' = saved \cup {<<worker[w].job, worker[w].attempts>>}
      BY <2>1 DEF SaveHealth, MoveTo, SetWorker, IInv, TypeOK
    <3>4. \A v \in Workers : v # w => worker'[v] = worker[v]
      BY <1>1, KeepsTyped DEF IInv
    <3>5. saved' \subseteq Jobs \X (1..MaxAttempts)
      BY <1>0, <3>2, <3>3
    <3>6. \A v \in Workers : v # w /\ worker'[v].at \in {"probed", "completing"} =>
            <<worker'[v].job, worker'[v].attempts>> \in saved'
      BY <1>1, <3>4 DEF IInv, SavedInv
    <3>7. <<worker'[w].job, worker'[w].attempts>> \in saved'
      BY <3>3
    <3> QED
      BY <3>5, <3>6, <3>7 DEF SavedInv
  <2>2. CASE ~SaveHealth(w)
    <3>1. saved' = saved
      BY <2>2 DEF FindNoJob, ClaimLease, SaveHealthThrows, ReleaseLease, ReleaseLeaseThrows,
                  ProcessingThrows, ReleaseFails, Crash
    <3>2. worker'[w].at \in {"probed", "completing"} => worker[w].at = "probed"
      BY <2>2 DEF FindNoJob, ClaimLease, SaveHealthThrows, ReleaseLease, ReleaseLeaseThrows,
                  ProcessingThrows, ReleaseFails, Crash, GoIdle, MoveTo, SetWorker, IInv, TypeOK
    <3> QED
      BY <1>0, <1>1, <3>1, <3>2, KeepsTyped DEF IInv, SavedInv, Holding
  <2> QED
    BY <2>1, <2>2
<1>4. /\ probe' \in [Workers -> [Destinations -> ProbeStep]]
      /\ \A v \in Workers : worker'[v].at = "probing" \/ probe'[v] = NoProbe
  <2>1. CASE ClaimLease(w)
    <3>1. [probe[w] EXCEPT ![Primary] = "resolving"] \in [Destinations -> ProbeStep]
      BY <1>0 DEF ProbeStep
    <3>2. CASE probe' = [probe EXCEPT ![w][Primary] = "resolving"] /\ MoveTo(w, "probing")
      BY <1>0, <3>1, <3>2 DEF MoveTo, SetWorker, IInv, TypeOK
    <3>3. CASE UNCHANGED probe /\ MoveTo(w, "failed")
      BY <1>0, <2>1, <3>3 DEF ClaimLease, MoveTo, SetWorker, IInv, TypeOK
    <3> QED
      BY <2>1, <3>2, <3>3 DEF ClaimLease
  <2>2. CASE SaveHealth(w) \/ SaveHealthThrows(w) \/ Crash(w)
    <3>1. probe' = [probe EXCEPT ![w] = NoProbe]
      BY <2>2 DEF SaveHealth, SaveHealthThrows, Crash
    <3> QED
      BY <1>0, <1>1, <3>1, KeepsTyped, Records DEF IInv
  <2>3. CASE FindNoJob(w) \/ ReleaseLease(w) \/ ReleaseLeaseThrows(w) \/ ProcessingThrows(w)
             \/ ReleaseFails(w)
    <3>1. UNCHANGED probe /\ worker[w].at # "probing"
      BY <2>3 DEF FindNoJob, ReleaseLease, ReleaseLeaseThrows, ProcessingThrows, ReleaseFails
    <3> QED
      BY <1>0, <1>1, <3>1, KeepsTyped DEF IInv
  <2> QED
    BY <2>1, <2>2, <2>3
<1> QED
  BY <1>1, <1>2, <1>3, <1>4, KeepsTyped, KeepsClaims, JobsStay DEF IInv, TypeOK

\* What the write that ends a job, or moves its date, leaves to show.
LEMMA JobStep ==
  ASSUME IInv, NEW j \in Jobs, job[j].status # "none",
         NEW r \in Job, job' = [job EXCEPT ![j] = r],
         r.url = job[j].url, r.attempts = job[j].attempts, r.status # "none",
         r.status \in {"pending", "processing"} => Active(j),
         r.status = "completed" => <<j, r.attempts>> \in saved,
         UNCHANGED <<lease, saved, probe>>,
         NEW w \in Workers, Keeps(w),
         worker[w].at # "probing", worker'[w].at \notin {"probed", "completing"}
  PROVE  IInv'
<1>1. /\ job' \in [Jobs -> Job] /\ UrlInv' /\ OneActiveJobPerUrl' /\ CompletedByItsRefresh'
      /\ \A i \in Jobs : i # j => job'[i] = job[i]
      /\ job'[j] = r
  BY JobMoves
<1>2. ClaimInv'
  BY <1>1, KeepsClaims
<1>3. TypeOK' /\ SavedInv'
  BY <1>1, KeepsTyped DEF IInv, TypeOK, SavedInv, Holding
<1> QED
  BY <1>1, <1>2, <1>3 DEF IInv

LEMMA EndStep ==
  ASSUME IInv, NEW w \in Workers,
         DeadLetterExpiredUrlHealthJob(w) \/ CompleteUrlHealthJob(w)
         \/ ReleaseFailedUrlHealthJob(w)
  PROVE  IInv'
<1>0. worker \in [Workers -> Worker] /\ job \in [Jobs -> Job]
  BY DEF IInv, TypeOK
<1>1. /\ Keeps(w) /\ UNCHANGED <<lease, saved, probe>>
      /\ worker[w].at # "probing" /\ worker'[w].at \notin {"probed", "completing"}
  <2>1. \/ GoIdle(w)
        \/ worker[w].at = "completing" /\ MoveTo(w, "failed")
    BY DEF DeadLetterExpiredUrlHealthJob, CompleteUrlHealthJob, ReleaseFailedUrlHealthJob
  <2>2. UNCHANGED <<lease, saved, probe>> /\ worker[w].at # "probing"
    BY DEF DeadLetterExpiredUrlHealthJob, CompleteUrlHealthJob, ReleaseFailedUrlHealthJob
  <2>3. Keeps(w)
    BY <2>1 DEF Keeps, Holding
  <2>4. worker'[w].at \in {"idle", "failed"}
    BY <1>0, <2>1 DEF GoIdle, MoveTo, SetWorker
  <2> QED
    BY <2>2, <2>3, <2>4
<1>2. CASE UNCHANGED job
  <2>1. ClaimInv'
    BY <1>1, <1>2, KeepsClaims
  <2>2. TypeOK' /\ SavedInv'
    BY <1>1, <1>2, KeepsTyped DEF IInv, TypeOK, SavedInv, Holding
  <2> QED
    BY <1>1, <1>2, <2>1, <2>2, JobsStay DEF IInv
<1>3. CASE DeadLetterExpiredUrlHealthJob(w) /\ ~UNCHANGED job
  <2>1. PICK j \in Jobs : /\ job[j].status = "processing"
                          /\ SetJob(j, "dead", job[j].attempts, FALSE)
    BY <1>3 DEF DeadLetterExpiredUrlHealthJob
  <2> DEFINE r == [url |-> job[j].url, status |-> "dead", attempts |-> job[j].attempts,
                   due |-> FALSE]
  <2>2. r \in Job
    BY <1>0, Written DEF Job, JobStatus
  <2>3. job' = [job EXCEPT ![j] = r]
    BY <2>1 DEF SetJob
  <2>4. r.url = job[j].url /\ r.status = "dead" /\ r.attempts = job[j].attempts
    OBVIOUS
  <2> HIDE DEF r
  <2> QED
    BY <1>1, <2>1, <2>2, <2>3, <2>4, JobStep
<1>4. CASE (CompleteUrlHealthJob(w) \/ ReleaseFailedUrlHealthJob(w)) /\ ~UNCHANGED job
  <2> DEFINE j == worker[w].job
  <2>1. IsCurrentClaim(w) /\ Holding(w)
    BY <1>4 DEF CompleteUrlHealthJob, ReleaseFailedUrlHealthJob, Holding
  <2>2. j \in Jobs /\ job[j].status = "processing" /\ job[j].attempts = worker[w].attempts
    BY <2>1 DEF IsCurrentClaim, IInv, ClaimInv
  <2>3. PICK status \in {"completed", "dead", "pending"} :
          /\ job' = [job EXCEPT ![j] = [url |-> job[j].url, status |-> status,
                                        attempts |-> job[j].attempts, due |-> FALSE]]
          /\ status = "completed" => worker[w].at = "completing"
    BY <1>4, <2>1, <2>2 DEF CompleteUrlHealthJob, ReleaseFailedUrlHealthJob, SetJob
  <2> DEFINE r == [url |-> job[j].url, status |-> status, attempts |-> job[j].attempts,
                   due |-> FALSE]
  <2>4. r \in Job
    BY <1>0, <2>2, Written DEF Job, JobStatus
  <2>5. r.url = job[j].url /\ r.status = status /\ r.attempts = job[j].attempts
    OBVIOUS
  <2>6. status = "completed" => <<j, job[j].attempts>> \in saved
    BY <2>2, <2>3 DEF IInv, SavedInv
  <2>7. job' = [job EXCEPT ![j] = r] /\ Active(j)
    BY <2>2, <2>3 DEF Active
  <2> HIDE DEF r, j
  <2> QED
    BY <1>1, <2>2, <2>4, <2>5, <2>6, <2>7, JobStep
<1> QED
  BY <1>2, <1>3, <1>4

\* Time passes for a job or a lease, and the TTL index deletes jobs.
LEMMA EnvironmentStep ==
  ASSUME IInv,
         \/ \E j \in Jobs : JobTimePasses(j) \/ DeleteRetained(j)
         \/ \E u \in Urls : LeaseTimePasses(u)
  PROVE  IInv'
<1>1. ASSUME NEW j \in Jobs, JobTimePasses(j) \/ DeleteRetained(j)
      PROVE  IInv'
  <2>1. /\ job[j].status # "none" /\ job[j].status \in JobStatus
        /\ job[j].attempts \in 0..MaxAttempts
    BY <1>1 DEF JobTimePasses, DeleteRetained, Active, IInv, TypeOK, Job
  <2>2. PICK status \in JobStatus \ {"none", "completed"}, due \in BOOLEAN :
          /\ SetJob(j, status, job[j].attempts, due)
          /\ status \in {"pending", "processing"} => Active(j)
    BY <1>1, <2>1 DEF JobTimePasses, DeleteRetained, Active, JobStatus
  <2>3. UNCHANGED <<lease, saved, worker, probe>>
    BY <1>1 DEF JobTimePasses, DeleteRetained
  <2> DEFINE r == [url |-> job[j].url, status |-> status, attempts |-> job[j].attempts,
                   due |-> due]
  <2>6. r \in Job /\ job' = [job EXCEPT ![j] = r]
    BY <2>1, <2>2, Written DEF SetJob
  <2>7. r.url = job[j].url /\ r.status = status /\ r.attempts = job[j].attempts
    OBVIOUS
  <2> HIDE DEF r
  <2>4. /\ job' \in [Jobs -> Job] /\ UrlInv' /\ OneActiveJobPerUrl' /\ CompletedByItsRefresh'
        /\ \A i \in Jobs : i # j => job'[i] = job[i]
        /\ job'[j].attempts = job[j].attempts /\ job'[j].status = status
    BY <2>1, <2>2, <2>3, <2>6, <2>7, JobMoves
  <2>5. TypeOK' /\ SavedInv' /\ ClaimInv'
    BY <2>3, <2>4 DEF IInv, TypeOK, SavedInv, ClaimInv, Holding
  <2> QED
    BY <2>4, <2>5 DEF IInv
<1>2. ASSUME NEW u \in Urls, LeaseTimePasses(u)
      PROVE  IInv'
  <2>1. lease' \in [Urls -> Lease]
    BY <1>2, ZenonT(60) DEF LeaseTimePasses, IInv, TypeOK, Lease
  <2> QED
    BY <1>2, <2>1, JobsStay DEF LeaseTimePasses, IInv, TypeOK, SavedInv, ClaimInv, Holding
<1> QED
  BY <1>1, <1>2

-----------------------------------------------------------------------------
(* The theorems *)

LEMMA InitHolds == Init => IInv
<1> SUFFICES ASSUME Init PROVE IInv
  OBVIOUS
<1>1. \A j \in Jobs : job[j].status = "none" /\ job[j].attempts = 0 /\ job[j].due = FALSE
                     /\ job[j].url = NoUrl
  BY DEF Init
<1>2. \A w \in Workers : worker[w].at = "idle"
  BY DEF Init
<1>3. job \in [Jobs -> Job]
  BY Records DEF Init, Job, JobStatus
<1>4. worker \in [Workers -> Worker]
  BY Records DEF Init, Worker
<1>5. TypeOK
  BY <1>3, <1>4, Records DEF Init, TypeOK
<1> QED
  BY <1>1, <1>2, <1>5 DEF IInv, ClaimInv, UrlInv, SavedInv, OneActiveJobPerUrl,
                          CompletedByItsRefresh, Active, Holding

LEMMA StutterStep ==
  ASSUME IInv, UNCHANGED vars
  PROVE  IInv'
BY DEF vars, IInv, TypeOK, ClaimInv, UrlInv, SavedInv, OneActiveJobPerUrl,
       CompletedByItsRefresh, Active, Holding

LEMMA Inductive == IInv /\ [Next]_vars => IInv'
<1> SUFFICES ASSUME IInv, [Next]_vars PROVE IInv'
  OBVIOUS
<1>1. ASSUME NEW u \in Urls, EnqueueUrlHealthRefresh(u) PROVE IInv'
  BY <1>1, EnqueueStep
<1>2. ASSUME NEW w \in Workers, WorkerStep(w) PROVE IInv'
  BY <1>2, ClaimStep, ProbeStepKeeps, LocalStep, EndStep DEF WorkerStep, Destinations
<1>3. ASSUME NEW w \in Workers, NEW d \in Destinations, RequestDestination(w, d) PROVE IInv'
  BY <1>3, ProbeStepKeeps
<1>4. ASSUME NEW w \in Workers, Crash(w) PROVE IInv'
  BY <1>4, LocalStep
<1> QED
  BY <1>1, <1>2, <1>3, <1>4, EnvironmentStep, StutterStep DEF Next

\* The inductive invariant holds in every reachable state.
THEOREM Invariant == Spec => []IInv
<1>1. Init => IInv
  BY InitHolds
<1>2. IInv /\ [Next]_vars => IInv'
  BY Inductive
<1> QED
  BY <1>1, <1>2, PTL DEF Spec

(***************************************************************************)
(* The documents, leases and workers keep their types, and no probe of a   *)
(* worker outlives its refresh (urlHealthQueueService.js,                  *)
(* healthService.js).                                                      *)
(***************************************************************************)
THEOREM TypeCorrect == Spec => []TypeOK
<1>1. IInv => TypeOK
  BY DEF IInv
<1> QED
  BY <1>1, Invariant, PTL

(***************************************************************************)
(* A link never has two active jobs: the filters of the writes that end a  *)
(* claim never revive a settled one.                                       *)
(***************************************************************************)
THEOREM OneActiveJob == Spec => []OneActiveJobPerUrl
<1>1. IInv => OneActiveJobPerUrl
  BY DEF IInv
<1> QED
  BY <1>1, Invariant, PTL

(***************************************************************************)
(* Only the attempt that saved its health snapshot completes a job.        *)
(***************************************************************************)
THEOREM CompletedBySaved == Spec => []CompletedByItsRefresh
<1>1. IInv => CompletedByItsRefresh
  BY DEF IInv
<1> QED
  BY <1>1, Invariant, PTL

(***************************************************************************)
(* While a refresh is within its lease no other worker takes or clears the *)
(* lease: its token, the claim, is no other worker's.                      *)
(***************************************************************************)
LEMMA LeaseKept ==
  ASSUME IInv, Next, NEW w \in Workers,
         worker[w].at = "probing", Holds(lease[UrlOf(w)], w), ~lease[UrlOf(w)].expired,
         worker'[w] = worker[w]
  PROVE  Holds(lease'[UrlOf(w)], w)
<1> DEFINE u == UrlOf(w)
<1>1. /\ Holding(w) /\ u \in Urls /\ lease \in [Urls -> Lease] /\ worker \in [Workers -> Worker]
      /\ worker[w].job # 0
  BY SMTT(30) DEF Holding, UrlOf, IInv, ClaimInv, UrlInv, TypeOK, Jobs
<1>2. ASSUME NEW v \in Workers, ClaimLease(v) PROVE Holds(lease'[u], w)
  <2>1. CASE UNCHANGED lease
    BY <2>1 DEF Holds
  <2>2. CASE lease[UrlOf(v)].job = 0 \/ lease[UrlOf(v)].expired
    <3>1. UrlOf(v) # u
      BY <1>1, <2>2 DEF Holds
    <3>2. lease'[u] = lease[u]
      BY <1>1, <1>2, <2>2, <3>1 DEF ClaimLease
    <3> QED
      BY <3>2 DEF Holds
  <2> QED
    BY <1>2, <2>1, <2>2 DEF ClaimLease
<1>3. ASSUME NEW v \in Workers, ReleaseLease(v) PROVE Holds(lease'[u], w)
  <2>1. Holding(v) /\ v # w
    BY <1>3 DEF ReleaseLease, Holding
  <2>2. ~Holds(lease[u], v)
    BY <1>1, <2>1 DEF Holds, IInv, ClaimInv
  <2>3. lease'[u] = lease[u]
    BY <1>1, <1>3, <2>2 DEF ReleaseLease
  <2> QED
    BY <2>3 DEF Holds
<1>4. ASSUME NEW x \in Urls, LeaseTimePasses(x) PROVE Holds(lease'[u], w)
  <2>1. lease'[u].job = lease[u].job /\ lease'[u].attempts = lease[u].attempts
    BY <1>1, <1>4 DEF LeaseTimePasses, Lease
  <2> QED
    BY <2>1 DEF Holds
<1>5. CASE UNCHANGED lease
  BY <1>5 DEF Holds
<1>6. \/ UNCHANGED lease
      \/ \E v \in Workers : ClaimLease(v) \/ ReleaseLease(v)
      \/ \E x \in Urls : LeaseTimePasses(x)
  <2>1. ASSUME NEW v \in Workers, WorkerStep(v), ~ClaimLease(v), ~ReleaseLease(v)
        PROVE  UNCHANGED lease
    BY <2>1 DEF WorkerStep, ClaimUrlHealthJob, FindNoJob, DeadLetterExpiredUrlHealthJob,
                ValidatePublicDestination, RequestTimesOut, Probed, ProbeFallbacks, SaveHealth,
                SaveHealthThrows, ReleaseLeaseThrows, CompleteUrlHealthJob, ProcessingThrows,
                ReleaseFailedUrlHealthJob, ReleaseFails
  <2> QED
    BY <2>1 DEF Next, EnqueueUrlHealthRefresh, RequestDestination, Probed, Crash, JobTimePasses,
                DeleteRetained
<1> QED
  BY <1>2, <1>3, <1>4, <1>5, <1>6

\* The lease of a refresh is exclusive while it lasts.
THEOREM LeaseExclusive == Spec => UrlLeaseIsExclusive
<1> DEFINE Kept == \A w \in Workers :
                    LET u == UrlOf(w) IN
                    /\ worker[w].at = "probing"
                    /\ Holds(lease[u], w)
                    /\ ~lease[u].expired
                    /\ worker'[w] = worker[w]
                    => Holds(lease'[u], w)
<1>1. IInv /\ [Next]_vars => [Kept]_vars
  BY LeaseKept
<1>2. Spec => [][Kept]_vars
  BY <1>1, Invariant, PTL DEF Spec
<1> QED
  BY <1>2 DEF UrlLeaseIsExclusive

-----------------------------------------------------------------------------
(* The queue without its workers *)

\* What a job's status says of its request.
LEMMA Outcomes ==
  ASSUME TypeOK, NEW j \in Jobs
  PROVE  /\ Outcome(j) = "open" <=> Active(j)
         /\ job[j].status = "completed" => Outcome(j) = "refreshed"
         /\ job[j].status = "dead" => Outcome(j) = "buried"
         /\ job[j].status = "deleted" => Outcome(j) = "forgotten"
         /\ job[j].status = "none" => Outcome(j) = "none"
         /\ Outcome(j) = "none" => job[j].status = "none"
<1>1. job[j].status \in JobStatus
  BY DEF TypeOK, Job
<1> QED
  BY <1>1 DEF Outcome, Active, JobStatus

\* One request is written, the others stay as they are.
LEMMA RequestWritten ==
  ASSUME TypeOK, TypeOK', NEW j \in Jobs,
         \A i \in Jobs : i # j => job'[i] = job[i]
  PROVE  /\ Request' = [Request EXCEPT ![j] = [url |-> job'[j].url, outcome |-> Outcome(j)']]
         /\ \A i \in Jobs : i # j => Outcome(i)' = Outcome(i) /\ (Active(i)' <=> Active(i))
<1>1. \A i \in Jobs : i # j => Outcome(i)' = Outcome(i) /\ (Active(i)' <=> Active(i))
  BY DEF Outcome, Active
<1>2. Request \in [Jobs -> [url : Urls \cup {NoUrl},
                            outcome : {"none", "open", "refreshed", "buried", "forgotten"}]]
  BY DEF Request, TypeOK, Job, Outcome
<1> QED
  BY <1>1, <1>2 DEF Request

\* Steps that change no job's link or outcome are invisible.
LEMMA RefreshesStutter ==
  ASSUME TypeOK, TypeOK', saved' = saved,
         \A i \in Jobs : job'[i].url = job[i].url /\ Outcome(i)' = Outcome(i)
  PROVE  UNCHANGED Refreshes!vars
<1>1. \A i \in Jobs : Active(i)' <=> Active(i)
  BY DEF Outcome, Active
<1>2. RefreshQueue' = RefreshQueue
  BY <1>1 DEF RefreshQueue
<1>3. Request' = Request
  BY DEF Request
<1>4. Snapshots' = Snapshots
  BY DEF Snapshots
<1> QED
  BY <1>2, <1>3, <1>4 DEF Refreshes!vars

LEMMA RefreshesClose ==
  ASSUME IInv, IInv', NEW j \in Jobs, NEW outcome \in {"refreshed", "buried"},
         Active(j), saved' = saved,
         \A i \in Jobs : i # j => job'[i] = job[i],
         job'[j].url = job[j].url, Outcome(j)' = outcome
  PROVE  Refreshes!Close(j, outcome)
<1>1. TypeOK /\ TypeOK'
  BY DEF IInv
<1>2. Request[j] = [url |-> job[j].url, outcome |-> "open"]
  BY <1>1, Outcomes DEF Request
<1>3. Request' = [Request EXCEPT ![j].outcome = outcome]
  BY <1>1, <1>2, RequestWritten DEF Request
<1>4. ~Active(j)'
  BY DEF Outcome, Active
<1>5. \A i \in Jobs : i # j => (Active(i)' <=> Active(i))
  BY <1>1, RequestWritten
<1>6. RefreshQueue' = RefreshQueue \ {job[j].url}
  <2>1. \A i \in Jobs : Active(i) /\ i # j => job[i].url # job[j].url
    BY DEF IInv, OneActiveJobPerUrl
  <2> QED
    BY <1>5, <1>4, <2>1 DEF RefreshQueue
<1>7. Snapshots' = Snapshots
  BY DEF Snapshots
<1> QED
  BY <1>2, <1>3, <1>6, <1>7 DEF Refreshes!Close

\* The upsert that inserts a job opens a request.
LEMMA RefreshesOpen ==
  ASSUME IInv, IInv', NEW u \in Urls, EnqueueUrlHealthRefresh(u)
  PROVE  \E j \in Jobs : Refreshes!Open(j, u)
<1>1. PICK j \in Jobs :
        /\ job[j].status = "none"
        /\ job' = [job EXCEPT ![j] = [url |-> u, status |-> "pending", attempts |-> 0,
                                      due |-> TRUE]]
  BY DEF EnqueueUrlHealthRefresh
<1>2. /\ \A i \in Jobs : Active(i) => job[i].url # u
      /\ saved' = saved /\ TypeOK /\ TypeOK'
  BY DEF EnqueueUrlHealthRefresh, IInv
<1>3. /\ job'[j].url = u /\ job'[j].status = "pending"
      /\ \A i \in Jobs : i # j => job'[i] = job[i]
  BY <1>1, <1>2 DEF TypeOK
<1>4. ~Active(j) /\ Active(j)' /\ Outcome(j)' = "open" /\ Request[j].outcome = "none"
  BY <1>1, <1>2, <1>3, Outcomes DEF Active, Outcome, Request
<1>5. /\ Request' = [Request EXCEPT ![j] = [url |-> u, outcome |-> "open"]]
      /\ \A i \in Jobs : i # j => (Active(i)' <=> Active(i))
  BY <1>2, <1>3, <1>4, RequestWritten
<1>6. u \notin RefreshQueue /\ RefreshQueue' = RefreshQueue \cup {u}
  BY <1>2, <1>3, <1>4, <1>5 DEF RefreshQueue
<1>7. Snapshots' = Snapshots
  BY <1>2 DEF Snapshots
<1> QED
  BY <1>4, <1>5, <1>6, <1>7 DEF Refreshes!Open

\* A refresh saves what its probes found, whatever became of its claim.
LEMMA RefreshesSave ==
  ASSUME IInv, NEW w \in Workers, SaveHealth(w)
  PROVE  worker[w].job \in Jobs /\ Refreshes!SaveSnapshot(worker[w].job)
<1> DEFINE j == worker[w].job
<1>1. /\ j \in Jobs /\ worker[w].attempts \in 1..MaxAttempts
      /\ job[j].status # "none" /\ TypeOK
  BY DEF SaveHealth, Holding, IInv, ClaimInv
<1>2. job' = job /\ saved' = saved \cup {<<j, worker[w].attempts>>}
  BY DEF SaveHealth
<1>3. Snapshots' = Snapshots \cup {j}
  BY <1>1, <1>2 DEF Snapshots
<1>4. Request' = Request /\ RefreshQueue' = RefreshQueue
  BY <1>2 DEF Request, RefreshQueue, Outcome, Active
<1>5. Request[j].outcome # "none"
  BY <1>1, Outcomes DEF Request
<1> QED
  BY <1>1, <1>3, <1>4, <1>5 DEF Refreshes!SaveSnapshot

\* A claim, a release for another attempt and the clock leave a request open.
LEMMA RefreshesActive ==
  ASSUME IInv, IInv', NEW j \in Jobs, Active(j), saved' = saved,
         \A i \in Jobs : i # j => job'[i] = job[i],
         job'[j].url = job[j].url, job'[j].status \in {"pending", "processing"}
  PROVE  UNCHANGED Refreshes!vars
<1>1. TypeOK /\ TypeOK'
  BY DEF IInv
<1>2. \A i \in Jobs : job'[i].url = job[i].url /\ Outcome(i)' = Outcome(i)
  BY DEF Outcome, Active
<1> QED
  BY <1>1, <1>2, RefreshesStutter

\* What a worker does that leaves the jobs and the snapshots alone.
LEMMA RefreshesUnseen ==
  ASSUME IInv, IInv', UNCHANGED <<job, saved>>
  PROVE  UNCHANGED Refreshes!vars
<1>1. \A i \in Jobs : job'[i].url = job[i].url /\ Outcome(i)' = Outcome(i)
  BY DEF Outcome, Active
<1> QED
  BY <1>1, RefreshesStutter DEF IInv

\* The job that SetJob writes, and the ones it leaves alone.
LEMMA SetJobWrites ==
  ASSUME TypeOK, NEW j \in Jobs, NEW status, NEW n, NEW due, SetJob(j, status, n, due)
  PROVE  /\ job'[j].url = job[j].url /\ job'[j].status = status
         /\ \A i \in Jobs : i # j => job'[i] = job[i]
BY DEF SetJob, TypeOK

LEMMA RefreshesClaim ==
  ASSUME IInv, IInv', NEW w \in Workers, ClaimUrlHealthJob(w)
  PROVE  UNCHANGED Refreshes!vars
<1>1. PICK j \in Jobs : Active(j) /\ SetJob(j, "processing", job[j].attempts + 1, FALSE)
  BY DEF ClaimUrlHealthJob, Claimable
<1>2. saved' = saved /\ TypeOK
  BY DEF ClaimUrlHealthJob, IInv
<1> QED
  BY <1>1, <1>2, SetJobWrites, RefreshesActive

\* The sweep buries a request; so does the release of the last attempt.
LEMMA RefreshesBury ==
  ASSUME IInv, IInv', NEW w \in Workers,
         DeadLetterExpiredUrlHealthJob(w) \/ ReleaseFailedUrlHealthJob(w)
  PROVE  \/ UNCHANGED Refreshes!vars
         \/ \E j \in Jobs : Refreshes!Bury(j)
<1>1. saved' = saved /\ TypeOK
  BY DEF DeadLetterExpiredUrlHealthJob, ReleaseFailedUrlHealthJob, IInv
<1>2. CASE UNCHANGED job
  BY <1>1, <1>2, RefreshesUnseen
<1>3. CASE ~UNCHANGED job
  <2>1. PICK j \in Jobs, status \in {"dead", "pending"}, n \in 0..MaxAttempts :
          job[j].status = "processing" /\ SetJob(j, status, n, FALSE)
    <3>1. CASE DeadLetterExpiredUrlHealthJob(w)
      BY <1>3, <3>1 DEF DeadLetterExpiredUrlHealthJob, IInv, TypeOK, Job
    <3>2. CASE ReleaseFailedUrlHealthJob(w)
      <4>1. worker[w].job \in Jobs /\ worker[w].attempts \in 0..MaxAttempts
        BY <3>2 DEF ReleaseFailedUrlHealthJob, Holding, IInv, ClaimInv
      <4> QED
        BY <1>3, <3>2, <4>1 DEF ReleaseFailedUrlHealthJob, IsCurrentClaim
    <3> QED
      BY <3>1, <3>2
  <2>2. /\ job'[j].url = job[j].url /\ job'[j].status = status /\ Active(j)
        /\ \A i \in Jobs : i # j => job'[i] = job[i]
    BY <1>1, <2>1, SetJobWrites DEF Active
  <2>3. CASE status = "pending"
    BY <1>1, <2>2, <2>3, RefreshesActive
  <2>4. CASE status = "dead"
    <3>1. Outcome(j)' = "buried"
      BY <2>2, <2>4 DEF Outcome, Active
    <3>2. Refreshes!Close(j, "buried")
      BY <1>1, <2>2, <3>1, RefreshesClose
    <3> QED
      BY <3>2 DEF Refreshes!Bury
  <2> QED
    BY <2>3, <2>4
<1> QED
  BY <1>2, <1>3

\* The completion of a current claim, whose refresh has saved a snapshot.
LEMMA RefreshesComplete ==
  ASSUME IInv, IInv', NEW w \in Workers, CompleteUrlHealthJob(w)
  PROVE  \/ UNCHANGED Refreshes!vars
         \/ \E j \in Jobs : Refreshes!Complete(j)
<1>1. /\ saved' = saved /\ TypeOK
      /\ worker[w].job \in Jobs /\ worker[w].attempts \in 1..MaxAttempts
      /\ <<worker[w].job, worker[w].attempts>> \in saved
  BY DEF CompleteUrlHealthJob, Holding, IInv, ClaimInv, SavedInv
<1>2. CASE ~IsCurrentClaim(w)
  BY <1>1, <1>2, RefreshesUnseen DEF CompleteUrlHealthJob
<1>3. CASE IsCurrentClaim(w)
  <2>1. PICK j \in Jobs :
          /\ j = worker[w].job /\ job[j].status = "processing"
          /\ SetJob(j, "completed", job[j].attempts, FALSE)
    BY <1>1, <1>3 DEF CompleteUrlHealthJob, IsCurrentClaim
  <2>2. /\ job'[j].url = job[j].url /\ job'[j].status = "completed" /\ Active(j)
        /\ \A i \in Jobs : i # j => job'[i] = job[i]
    BY <1>1, <2>1, SetJobWrites DEF Active
  <2>3. Outcome(j)' = "refreshed"
    BY <2>2 DEF Outcome, Active
  <2>4. Refreshes!Close(j, "refreshed")
    BY <1>1, <2>2, <2>3, RefreshesClose
  <2>5. j \in Snapshots
    BY <1>1, <2>1 DEF Snapshots
  <2> QED
    BY <2>4, <2>5 DEF Refreshes!Complete
<1> QED
  BY <1>2, <1>3

LEMMA RefreshesForget ==
  ASSUME IInv, IInv', NEW j \in Jobs, DeleteRetained(j)
  PROVE  Refreshes!Forget(j)
<1>1. /\ job[j].status \in {"completed", "dead"} /\ saved' = saved /\ TypeOK /\ TypeOK'
      /\ SetJob(j, "deleted", job[j].attempts, FALSE)
  BY DEF DeleteRetained, IInv
<1>2. /\ job'[j].url = job[j].url /\ job'[j].status = "deleted"
      /\ \A i \in Jobs : i # j => job'[i] = job[i]
  BY <1>1, SetJobWrites
<1>3. Request[j] = [url |-> job[j].url, outcome |-> Outcome(j)]
  BY DEF Request
<1>4. Outcome(j) \in {"refreshed", "buried"} /\ Outcome(j)' = "forgotten"
  BY <1>1, <1>2, Outcomes DEF Outcome, Active
<1>5. Request' = [Request EXCEPT ![j].outcome = "forgotten"]
  BY <1>1, <1>2, <1>3, <1>4, RequestWritten DEF Request
<1>6. ~Active(j) /\ ~Active(j)' /\ \A i \in Jobs : i # j => (Active(i)' <=> Active(i))
  BY <1>1, <1>2, RequestWritten DEF Active
<1>7. RefreshQueue' = RefreshQueue /\ Snapshots' = Snapshots
  BY <1>1, <1>2, <1>6 DEF RefreshQueue, Snapshots
<1> QED
  BY <1>3, <1>4, <1>5, <1>7 DEF Refreshes!Forget

LEMMA RefreshesInit == Init => Refreshes!Init
<1> SUFFICES ASSUME Init PROVE Refreshes!Init
  OBVIOUS
<1>1. \A j \in Jobs : job[j].status = "none" /\ job[j].url = NoUrl
  BY DEF Init
<1>2. \A j \in Jobs : ~Active(j) /\ Outcome(j) = "none"
  BY <1>1 DEF Active, Outcome
<1>3. RefreshQueue = {} /\ Snapshots = {}
  BY <1>2 DEF Init, RefreshQueue, Snapshots
<1>4. Request = [j \in Jobs |-> [url |-> NoUrl, outcome |-> "none"]]
  BY <1>1, <1>2 DEF Request
<1> QED
  BY <1>3, <1>4 DEF Refreshes!Init, Refreshes!Requests, Jobs

LEMMA RefreshesStep ==
  ASSUME IInv, IInv', [Next]_vars
  PROVE  [Refreshes!Next]_(Refreshes!vars)
<1>1. Refreshes!Requests = Jobs
  BY DEF Refreshes!Requests, Jobs
<1>2. ASSUME NEW u \in Urls, EnqueueUrlHealthRefresh(u) PROVE Refreshes!Next
  BY <1>1, <1>2, RefreshesOpen DEF Refreshes!Next
<1>3. ASSUME NEW w \in Workers, SaveHealth(w) PROVE Refreshes!Next
  BY <1>1, <1>3, RefreshesSave DEF Refreshes!Next
<1>4. ASSUME NEW w \in Workers, CompleteUrlHealthJob(w)
      PROVE  Refreshes!Next \/ UNCHANGED Refreshes!vars
  BY <1>1, <1>4, RefreshesComplete DEF Refreshes!Next
<1>5. ASSUME NEW w \in Workers, DeadLetterExpiredUrlHealthJob(w) \/ ReleaseFailedUrlHealthJob(w)
      PROVE  Refreshes!Next \/ UNCHANGED Refreshes!vars
  BY <1>1, <1>5, RefreshesBury DEF Refreshes!Next
<1>6. ASSUME NEW j \in Jobs, DeleteRetained(j) PROVE Refreshes!Next
  BY <1>1, <1>6, RefreshesForget DEF Refreshes!Next
<1>7. ASSUME NEW j \in Jobs, JobTimePasses(j) PROVE UNCHANGED Refreshes!vars
  <2>1. /\ Active(j) /\ SetJob(j, job[j].status, job[j].attempts, TRUE)
        /\ saved' = saved /\ TypeOK
    BY <1>7 DEF JobTimePasses, IInv
  <2> QED
    BY <2>1, SetJobWrites, RefreshesActive DEF Active
<1>8. ASSUME UNCHANGED <<job, saved>> PROVE UNCHANGED Refreshes!vars
  BY <1>8, RefreshesUnseen
<1>9. ASSUME NEW w \in Workers, WorkerStep(w)
      PROVE  \/ UNCHANGED <<job, saved>> \/ ClaimUrlHealthJob(w) \/ SaveHealth(w)
             \/ CompleteUrlHealthJob(w) \/ DeadLetterExpiredUrlHealthJob(w)
             \/ ReleaseFailedUrlHealthJob(w)
  BY <1>9 DEF WorkerStep, FindNoJob, ClaimLease, ValidatePublicDestination, RequestTimesOut,
              Probed, ProbeFallbacks, SaveHealthThrows, ReleaseLease, ReleaseLeaseThrows,
              ProcessingThrows, ReleaseFails
<1>10. ASSUME \/ \E u \in Urls : LeaseTimePasses(u)
              \/ \E w \in Workers, d \in Destinations : RequestDestination(w, d)
              \/ \E w \in Workers : Crash(w)
              \/ UNCHANGED vars
       PROVE  UNCHANGED <<job, saved>>
  BY <1>10 DEF LeaseTimePasses, RequestDestination, Probed, Crash, vars
<1> QED
  BY <1>2, <1>3, <1>4, <1>5, <1>6, <1>7, <1>8, <1>9, <1>10, RefreshesClaim DEF Next

(***************************************************************************)
(* The workers, their retries, leases and crashes implement the queue      *)
(* without them: a request is closed once, as carried out only with a      *)
(* snapshot saved, never reopened, and a link has one open at most         *)
(* (urlHealthQueueService.js).                                             *)
(***************************************************************************)
THEOREM QueueImplementsRefreshes == Spec => ImplementsRefreshes
<1>1. IInv /\ IInv' /\ [Next]_vars => [Refreshes!Next]_(Refreshes!vars)
  BY RefreshesStep
<1> QED
  BY <1>1, RefreshesInit, Invariant, PTL DEF Spec, ImplementsRefreshes, Refreshes!Spec

=============================================================================
