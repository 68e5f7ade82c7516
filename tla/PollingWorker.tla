---------------------------- MODULE PollingWorker ----------------------------
(***************************************************************************)
(* The polling loop that drives both queues (services/pollingWorker.js):   *)
(* one timer, one active run, start, stop and wake.                        *)
(*                                                                         *)
(* JavaScript runs each callback to its next await, so a step here is a    *)
(* callback.  A run awaits processNext; it ends in a later microtask, the  *)
(* finally that clears activeRun, and other callbacks may come before it.  *)
(* The clock is abstract: a timer is due at once or after the poll         *)
(* interval, and fires some time after it was set.                         *)
(***************************************************************************)
EXTENDS Integers

CONSTANTS
  BatchSize,     \* batchSize: 50 redirect events, 10 health jobs
  MaxReady,      \* bound: claimable jobs waiting in the database
  MaxRuns        \* bound: runs that could overlap, if the code let them

ASSUME PollingAssumption ==
  /\ BatchSize \in Nat \ {0}
  /\ MaxReady \in Nat
  /\ MaxRuns \in Nat \ {0}

Runs == 1..MaxRuns

VARIABLES
  started,        \* between start and stop
  timer,          \* what the pending timer waits for, if there is one
  activeRun,      \* the run activeRun refers to, 0 for null
  wakeRequested,
  run,            \* run[i]: where an execution of the loop is
  processed,      \* processed[i]: its loop counter
  stopping,       \* what a pending stop awaits: a run, 0; or no stop is pending
  ready,          \* claimable jobs in the database
  woken           \* history: a wake that no claim has answered yet

workerVars == <<started, timer, activeRun, wakeRequested, run, processed, stopping, ready, woken>>

NotStopping == -1

WorkerInit ==
  /\ started = FALSE
  /\ timer = "none"
  /\ activeRun = 0
  /\ wakeRequested = FALSE
  /\ run = [i \in Runs |-> "none"]
  /\ processed = [i \in Runs |-> 0]
  /\ stopping = NotStopping
  /\ ready = 0
  /\ woken = FALSE

\* schedule, from a state where timer is t.
Scheduled(t, delay) == IF t = "none" THEN delay ELSE t

\* run() while started: join the active run or begin one, up to its first await.
RunBegins ==
  IF activeRun # 0
  THEN /\ wakeRequested' = TRUE
       /\ UNCHANGED <<activeRun, run, processed>>
  ELSE \E i \in Runs :
         /\ run[i] = "none"
         /\ \A k \in Runs : k < i => run[k] # "none"
         /\ wakeRequested' = FALSE
         /\ activeRun' = i
         /\ run' = [run EXCEPT ![i] = "claiming"]
         /\ processed' = [processed EXCEPT ![i] = 0]

Start ==
  /\ ~started
  /\ started' = TRUE
  /\ timer' = Scheduled(timer, "now")
  /\ UNCHANGED <<activeRun, wakeRequested, run, processed, stopping, ready, woken>>

\* A stop that forgets the active run.
Stop_Detaches ==
  /\ stopping = NotStopping
  /\ started' = FALSE
  /\ timer' = "none"
  /\ activeRun' = 0
  /\ stopping' = activeRun
  /\ woken' = FALSE
  /\ UNCHANGED <<wakeRequested, run, processed, ready>>

\* A stop that does not wait for the active run.
Stop_DoesNotWait ==
  /\ stopping = NotStopping
  /\ started' = FALSE
  /\ timer' = "none"
  /\ stopping' = 0
  /\ woken' = FALSE
  /\ UNCHANGED <<activeRun, wakeRequested, run, processed, ready>>

\* stop() up to its await; one stop at a time (the shutdown handlers' once).
Stop ==
  /\ stopping = NotStopping
  /\ started' = FALSE
  /\ timer' = "none"
  /\ stopping' = activeRun
  /\ woken' = FALSE
  /\ UNCHANGED <<activeRun, wakeRequested, run, processed, ready>>

\* The run that stop awaited is over (or there was none): stop() resolves.
StopResolves ==
  /\ stopping # NotStopping
  /\ stopping # 0 => run[stopping] = "none"
  /\ stopping' = NotStopping
  /\ UNCHANGED <<started, timer, activeRun, wakeRequested, run, processed, ready, woken>>

\* A wake that leaves everything to a run that is active already.
Wake_TrustsActiveRun ==
  /\ started
  /\ timer' = "none"
  /\ IF activeRun # 0
     THEN UNCHANGED <<activeRun, wakeRequested, run, processed>>
     ELSE RunBegins
  /\ woken' = TRUE
  /\ UNCHANGED <<started, stopping, ready>>

\* wake() sets wakeRequested, clears the timer and calls run().
Wake ==
  /\ started
  /\ timer' = "none"
  /\ RunBegins
  /\ woken' = TRUE
  /\ UNCHANGED <<started, stopping, ready>>

TimerFires ==
  /\ timer # "none"
  /\ timer' = "none"
  /\ IF started
     THEN RunBegins
     ELSE UNCHANGED <<activeRun, wakeRequested, run, processed>>
  /\ UNCHANGED <<started, stopping, ready, woken>>

\* processNext asks the database: it finds a job, or the loop breaks.
Claim(i) ==
  /\ run[i] = "claiming"
  /\ IF ready > 0
     THEN ready' = ready - 1 /\ run' = [run EXCEPT ![i] = "working"]
     ELSE UNCHANGED ready /\ run' = [run EXCEPT ![i] = "finishing"]
  /\ woken' = FALSE
  /\ UNCHANGED <<started, timer, activeRun, wakeRequested, processed, stopping>>

\* A loop that runs once more than its batch.
NextIteration_OneMore(i) ==
  /\ run[i] = "working"
  /\ processed' = [processed EXCEPT ![i] = @ + 1]
  /\ run' = [run EXCEPT ![i] = IF started /\ processed[i] + 1 <= BatchSize
                               THEN "claiming" ELSE "finishing"]
  /\ UNCHANGED <<started, timer, activeRun, wakeRequested, stopping, ready, woken>>

\* processNext resolves to true: the loop goes on or is at its limit.
NextIteration(i) ==
  /\ run[i] = "working"
  /\ processed' = [processed EXCEPT ![i] = @ + 1]
  /\ run' = [run EXCEPT ![i] = IF started /\ processed[i] + 1 < BatchSize
                               THEN "claiming" ELSE "finishing"]
  /\ UNCHANGED <<started, timer, activeRun, wakeRequested, stopping, ready, woken>>

\* processNext rejects: the catch logs it.
ProcessNextThrows(i) ==
  /\ run[i] \in {"claiming", "working"}
  /\ run' = [run EXCEPT ![i] = "finishing"]
  /\ woken' = IF run[i] = "claiming" THEN FALSE ELSE woken
  /\ UNCHANGED <<started, timer, activeRun, wakeRequested, processed, stopping, ready>>

\* A finally that schedules the next poll only when there was a wake.
RunEnds_NoPoll(i) ==
  /\ run[i] = "finishing"
  /\ run' = [run EXCEPT ![i] = "none"]
  /\ activeRun' = 0
  /\ timer' = IF started /\ wakeRequested THEN Scheduled(timer, "now") ELSE timer
  /\ UNCHANGED <<started, wakeRequested, processed, stopping, ready, woken>>

\* The finally: clear activeRun, and schedule the next run while started.
RunEnds(i) ==
  /\ run[i] = "finishing"
  /\ run' = [run EXCEPT ![i] = "none"]
  /\ activeRun' = 0
  /\ timer' = IF started
              THEN Scheduled(timer, IF wakeRequested THEN "now" ELSE "poll")
              ELSE timer
  /\ UNCHANGED <<started, wakeRequested, processed, stopping, ready, woken>>

\* A job becomes claimable: enqueued, backed off or with an expired lease.
JobBecomesReady ==
  /\ ready < MaxReady
  /\ ready' = ready + 1
  /\ UNCHANGED <<started, timer, activeRun, wakeRequested, run, processed, stopping, woken>>

RunStep(i) == Claim(i) \/ NextIteration(i) \/ ProcessNextThrows(i) \/ RunEnds(i)

WorkerNext ==
  \/ Start \/ Stop \/ StopResolves \/ Wake \/ TimerFires \/ JobBecomesReady
  \/ \E i \in Runs : RunStep(i)

WorkerSpec == WorkerInit /\ [][WorkerNext]_workerVars

\* The event loop runs every callback whose timer or promise is done, and a
\* database call ends, at the latest with the driver's time-out.
WorkerFairness ==
  /\ WF_workerVars(TimerFires)
  /\ WF_workerVars(StopResolves)
  /\ \A i \in Runs : WF_workerVars(RunStep(i))

WorkerFairSpec == WorkerSpec /\ WorkerFairness

-----------------------------------------------------------------------------

WorkerTypeOK ==
  /\ started \in BOOLEAN
  /\ timer \in {"none", "now", "poll"}
  /\ activeRun \in {0} \cup Runs
  /\ wakeRequested \in BOOLEAN
  /\ run \in [Runs -> {"none", "claiming", "working", "finishing"}]
  /\ processed \in [Runs -> 0..BatchSize]
  /\ stopping \in {NotStopping, 0} \cup Runs
  /\ ready \in 0..MaxReady
  /\ woken \in BOOLEAN

(***************************************************************************)
(* However starts, stops, wakes and timers follow each other, two runs of  *)
(* one worker never overlap: a process works on one job at a time.         *)
(***************************************************************************)
OneRunAtATime ==
  \A i, k \in Runs : run[i] # "none" /\ run[k] # "none" => i = k

(***************************************************************************)
(* No wake-up is lost: unless the worker has asked the database since a    *)
(* wake, a run is going on or is due at once, and never only after the     *)
(* poll interval.  The race is a wake after an empty claim and before the  *)
(* run has ended.                                                          *)
(***************************************************************************)
NoLostWakeup ==
  woken /\ started => timer = "now" \/ \E i \in Runs : run[i] # "none"

(***************************************************************************)
(* A stopped worker is quiet: unless start is called again, once stop has  *)
(* resolved no run goes on and no timer is left, so the database may be    *)
(* disconnected.                                                           *)
(***************************************************************************)
QuietAfterStop ==
  ~started /\ stopping = NotStopping =>
    timer = "none" /\ \A i \in Runs : run[i] = "none"

(***************************************************************************)
(* The polling never dies: whatever processNext throws and however a stop  *)
(* and a start overlap a run, a worker that stays started claims again     *)
(* and again.                                                              *)
(***************************************************************************)
PollsForEver ==
  started ~> (~started \/ \E i \in Runs : run[i] = "claiming")
==============================================================================
