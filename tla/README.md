# ShotLink: a verification project in TLA+

ShotLink shortens links, redirects visitors, counts clicks, checks whether
destinations are healthy and sells subscriptions. The backend is a Node.js API
over MongoDB (authoritative), Redis (a cache) and Razorpay (payments); the
dashboard is a React client. This directory models the parts where processes,
requests, callbacks, leases and lost messages meet. Paths below are relative to
`src/backend/src/` unless they start with `src/`.

- [The system](#the-system)
- [Modules](#modules)
- [What the runs show](#what-the-runs-show)
- [Bounds](#bounds)
- [Fairness](#fairness)
- [What is proved](#what-is-proved)
- [Findings](#findings)
- [What is not modelled](#what-is-not-modelled)
- [Plan](#plan)

## The system

| Component | State | Operations | Interacts with | What is hard |
|---|---|---|---|---|
| Redirect event outbox (`services/redirectEventService.js`) | `RedirectEventJob`, `ClickEvent`, click counters of `Url` and `UsageCounter` | enqueue, claim, transaction, release | called by the redirect controller; hands over to the health queue in the same transaction | crashed and stalled workers, expired leases, unknown commits, exactly-once counting |
| Polling worker (`services/pollingWorker.js`) | timer, active run, flags | start, stop, wake, run | drives both queues; woken by redirects, stopped at shutdown | callbacks between two awaits |
| URL health queue (`services/urlHealthQueueService.js`) | `UrlHealthJob` with one active job per link | enqueue (coalescing), claim, dead-letter, complete, release | refreshes under the URL lease of `healthService.js` | two leases of different length, zombies, reactivated jobs, destinations that never answer |
| Health checks (`services/healthService.js`) | health snapshot and lease in `Url` | refresh, choose a destination | health queue, link controllers, route cache | late saves over newer snapshots |
| Redirect resolution and cache (`services/redirectResolutionService.js`, `cacheService.js`, `cacheInvalidationService.js`) | Redis entries with TTLs, loads in flight per process | read through, single flight, invalidate | redirect controller reads; every writer of links, domains and workspaces invalidates | a load overtaken by a write, lost and late commands, expiry |
| Links (`controllers/linkController.js`) | `Url` | create (guest, owner), expire, refresh | plan limit in the workspace document, cache | limits under concurrent creates |
| Domains (`controllers/workspaceController.js`) | `Workspace.customDomains`, `managedEmailDomains` | add, verify, set primary, remove | DNS, cache, links | decisions on a copy of the workspace, what a save of Mongoose writes |
| Billing (`controllers/billingController.js`) | `BillingRecord`, `Workspace.billing` | payment link, subscription, cancel, sync, webhook | Razorpay | claims, ambiguous answers, webhooks late, twice, out of order |
| Accounts (`controllers/authController.js`, `middleware/authMiddleware.js`) | `User`, `Session` | register, login, logout, reset, verify, check of a request | e-mail, browsers | a reset against logins and requests in flight |
| Rate limiter (`middleware/rateLimitMiddleware.js`) | `RateLimitBucket` | consume | every route | windows, clean-up of buckets |
| Lifecycle (`config/lifecycle.js`, `server.js`, `healthWorker.js`) | listeners, HTTP server, connections | start, signals, fatal errors, shutdown | stops the workers, closes Redis and MongoDB | deadlines, order of closing |
| Dashboard (`src/frontend/src/App.jsx`, `apiClient.js`) | session, links, selection, analytics, billing of a tab | restore, sign in and out, effects, buttons | the API, other tabs through the cookie | answers that arrive after the session has changed |

The rest (usage helpers, audit log, metrics, request plumbing, pure utilities,
migrations, edge worker) is listed in `PROJECT.json` with the reason it is not
modelled.

What makes the components correct:

- Outbox: an accepted click is counted once, in all counters or in none; a job
  is settled in the end; leases exclude other workers.
- Polling worker: one run at a time, no lost wake-up, quiet after stop.
- Health queue: one active job per link; completion means a refresh was saved;
  a dead worker or a silent destination does not block a link for ever.
- Cache: who comes after the end of a link or a plan is not served it; the cache
  agrees with MongoDB in the end; Redis never makes a request hang.
- Links and domains: no link is added beyond the limit of the plan its transaction
  resolved; a domain is verified by its own
  token only; no add is lost to somebody else's save.
- Billing: one charge agreement at a time; no plan without a payment for it; an
  ended checkout stays ended.
- Accounts: a completed reset ends every older session; no request undoes
  another's change of the account.
- Lifecycle: requests are answered and runs end before connections close, and
  a shutdown ends unless Redis withholds an answer for ever.
- Dashboard: a tab shows nothing of an earlier session, and nothing of a later one
  while the browser's cookie is still the tab's.

## Modules

| Module | Models | How |
|---|---|---|
| `RedirectEvents` | what a redirect leaves behind | constants shared by the next two |
| `ClickLedger` | the promise of the analytics pipeline | abstract: `Accept`, `Record` (all effects in one step), `Discard` |
| `RedirectOutbox` | `redirectEventService.js` | one document per event, one record per worker; implements `ClickLedger` |
| `UrlHealthQueue` | `urlHealthQueueService.js`, the lease and the probes of `healthService.js` | jobs in order of `createdAt`, one URL lease per link, one probe per destination; implements `HealthRefreshes` |
| `HealthRefreshes` | the promise of the health queue | abstract: `Open`, `SaveSnapshot`, `Complete`, `Bury`, `Forget`; no workers, attempts or leases |
| `PollingWorker` | `pollingWorker.js` | one action per JavaScript callback |
| `RouteCache` | `redirectResolutionService.js`, `cacheService.js`, `cacheInvalidationService.js` and the handlers that write what is cached | one key of one of four kinds, one Redis connection per process |
| `WorkspaceResources` | `linkController.js`, `workspaceController.js` | the workspace document with its version, and the copies requests decide on |
| `Subscription` | `billingController.js` | one record per checkout, a provider that loses answers and repeats events |
| `Accounts` | `authController.js`, `authMiddleware.js` | one account, one action per operation on MongoDB |
| `RateLimiter`, `Lifecycle` | `rateLimitMiddleware.js`; `lifecycle.js`, `server.js`, `healthWorker.js`, `redis.js` | `Lifecycle` composes processes, requests and the limiter |
| `Dashboard` | `App.jsx`, `apiClient.js` against `authMiddleware.js` | one tab in detail, the other tabs as changes of the cookie |
| `MCRedirectOutbox`, `MCSubscription`, `MCWorkspaceResources`, `MCAccounts`, `MCDashboard` | | definitions and symmetries for TLC |
| `*Proofs` | | theorems about the module they are named after; `LifecycleProofs` also about `PollingWorker` |

**RedirectOutbox.** `job[e]` is the job document: status, attempts, and `due`,
which says that the instant the claim filter compares with the clock
(`availableAt` of a pending job, `leaseUntil` of a processing one) has passed.
`TimePasses` may make it pass at any moment, so leases expire under slow workers
and skewed clocks. `ClaimRedirectEventJob` is the atomic `findOneAndUpdate` with
its sort. The transaction is two steps, the callback's read (`GetCurrentClaim`
or `LostClaim`) and the commit (`PersistRedirectEvent`). The commit requires the
claim to be current still, because under snapshot isolation another writer of the
job is a write conflict, upon which `withTransaction` runs the callback again
(`RetryTransaction`). A commit may succeed without its worker being told.
`ReleaseFailedRedirectEvent` is the guarded update of the error path, and it may
fail too. `Crash` loses a worker's hold at any point. `DeleteRetained` is the TTL
index; `SettleRefresh` is all that the outbox sees of the health queue. A click
event's other fields, queue depth and logging are left out; the retention of
click events (at least a day) is longer than anything a job lives for here.

**UrlHealthQueue.** The same shape with the upsert that coalesces requests, the
sweep that buries a job whose last lease expired (run only after an empty claim),
and the refresh under the URL's lease: take it, probe the primary destination
and then the fallbacks, save the snapshot, give the lease back if the token
still is one's own; each of these may throw. A probe looks up the name
(`ValidatePublicDestination`) and sends up to two requests
(`RequestDestination`), each ended by an answer or by its timer
(`RequestTimesOut`). A worker refreshes once per claim, so the claim stands for
the random token. `saved` is a history variable: the refreshes that saved.
`Outcome`, `RefreshQueue` and `Snapshots` map it to `HealthRefreshes`, whose
`refreshQueue` is the variable that `RedirectOutbox` hands refreshes to.

**PollingWorker.** `run[i]` allows several runs so that overlapping could be
seen; `activeRun` is the variable of the code. `Claim` and `NextIteration` are
the two halves of a loop iteration around its await, `RunEnds` is the `finally`.
`stopping` is what a pending `stop()` awaits, `woken` a history variable.

**RouteCache.** A behaviour is about one key: a short code's route, a custom
domain's workspace, a workspace's plan, or its clicks of the month. The table in
the module says what "missing", "active" and "inactive" mean of each. A request
reads Redis, joins or starts the load that its process shares, and is judged
on a snapshot (`Check` with `AnswerTo`: the expiry check of a link,
`resolveEffectivePlan` of a plan, the comparison with the click limit). It is refused at
once or answered later (`Respond`), when the other lookups and the insert of the
redirect event have been awaited; time and writers go on between the two.
`ended` remembers that a request began after the end. A load ends when its `setEx` does, or
after 150 ms. `pending[p]` holds the commands of a process, applied in order at
any later time or lost by a disconnect. The writers (`CreateLink`,
`ExpireLink`, `VerifyDomain`, `DropDomain`, `ActivatePlan`, `CountClick`) write
MongoDB first and then send the delete, whose outcome they ignore.

**WorkspaceResources.** `requireAuth` loads the workspace before a handler runs,
so a request is two or three steps: decide on a copy, perhaps look up DNS, save.
What a save writes is Mongoose's doing and is what the module is about: a push
appends and increments `__v`; an assigned array replaces the stored one if the
version still matches; a changed field of an element goes to the position it had
in the copy, if the version matches, and does not increment it. The creation of
a link is a transaction that holds the workspace document through
`linkCreationVersion` (`writer`): it resolves the plan (`ResolvesPlan`), counts and
inserts. A write of the plan waits for it (`PlanChanges`), the end of the paid period
does not, as it is a comparison with the clock (`PlanLapses`).

**Subscription.** A number stands for the reference of a checkout, its
`BillingRecord` and Razorpay's object. `ClaimCreation` is the guarded update of
the workspace, `AskForSubscription` the call, after which the tab may hear nothing,
a refusal or an object. A handler (webhook, sync, cancel) reads the record, then
the workspace (`LoadWorkspace`), saves the workspace, releases the claim of an
ended checkout and saves the record, each in a step. `OutOfDate` and `Unpaid`
are the webhook's tests, `Superseded` and `Activated` those of
`applySubscriptionState`; `SaveFields` and `SaveBilling` say which fields a save
writes.
`events` is never emptied: any event may be delivered again, or first, at any
later time. With `Torn` other requests may write between a handler's read and
its saves, and a handler may end between two of its saves.

**Accounts.** Each of the six routes is its chain of reads, writes and e-mails;
another browser's request may run between any two, and a handler may end at each
with an error. `FindSession` and `LoadUser` are the two reads of
`requireAuth`. `revoked` is a history variable: the sessions that existed when a reset that
succeeded read the clock.

**Lifecycle.** The phases of a process are the awaits of `startServer` and
`gracefullyShutdown`. A signal or fatal error is dismissed only the first time:
listeners are registered with `once` (`OtherEnd` is what Node does then).
`overrun` is a history variable: processes whose HTTP deadline passed, or that
were ended from outside. `RateLimiter` counts a request in the window it has read
from the clock; the TTL index deletes buckets one window after they end.

**Dashboard.** A session, and the CSRF token derived from it, is a number. A
request takes the cookie when it is sent and is judged and answered in one later
step, for the session of that cookie, which another tab may have replaced (`Label`: what is
shown bears the session that answered). `CommitWith` is what a change of the state sets off: effects whose dependencies
changed are cancelled (`Cancelled`) and run again (`Started`), their requests carrying
the cookie of that moment (`Carried`; after a sign-in the new one). Handlers of
buttons are not cancelled. An answer that is no success is a 401 or anything else; the buttons
of the domain panel share one handler here, and which link of a list is selected
first is open.

## What the runs show

| Run | Bounds | Shows |
|---|---|---|
| `outbox` | 2 events, 2 workers, 3 attempts, 2 links, 1 usage counter | counters equal recorded events; `lastClickedAt` is the latest; completed exactly when recorded; fencing; lease exclusivity; refinement of `ClickLedger`; every event settled unless its last attempt is abandoned |
| `outbox_recovery` | 1 event, 2 workers, 5 attempts (the code's number) | violation: finding 1 |
| `health_queue` | 1 link with 2 destinations, 2 successive jobs, 2 workers, 2 attempts | one active job, completion by the attempt that saved, lease exclusivity, refinement of `HealthRefreshes`, every job settles |
| `polling_worker` | batch of 2, 2 ready jobs, room for 2 overlapping runs | one run at a time, no lost wake-up, quiet after stop, polls for ever, no deadlock |
| `route_cache` | each of 4 kinds of key, 1 process, 2 requests, life up to 2 ticks, TTLs of a tick, 1 command in flight | a request that began after the end is not served, cache converges, requests end, no deadlock |
| `route_cache_expiry` | routes, 2 processes, 1 request, TTL of 2 ticks, 2 commands in flight | violation: finding 2 |
| `subscription` | 1 paid plan, 2 checkouts, one of which may be a payment link, 4 events, 2 tabs, 1 handler | one charge agreement, no plan without a payment for it, an ended record does not become active again |
| `subscription_late` | 3 checkouts, 5 events, 1 tab, 1 handler | violation: finding 3 |
| `workspace` | 2 plans, 1 custom and 2 managed domains, 2 codes, 2 requests, 2 tokens | a link is added within the limit its transaction resolved, a domain is verified by its own token, no domain is lost |
| `accounts` | 2 browsers, 3 tokens, 2 sessions, 2 instants | a completed reset ends older sessions, verification and passwords do not go back |
| `lifecycle` | 1 process of either kind, 2 requests, limit of 2, 3 windows | the limit of a window, drained before closing, no request cut short, shutdown ends unless Redis owes an answer for ever, no deadlock |
| `dashboard` | 2 accounts, 2 codes, 2 sessions, up to 2 requests in flight when the user acts | a tab shows nothing answered under an earlier session, and nothing of a later one while the cookie is its own |

Each passing run but `outbox` and `health_queue` checks the type invariant besides;
of these two it is proved.

Every property of a passing run has a mutant in `PROJECT.json`: a definition
changed as a plausible bug would, under which TLC finds the property violated.
The mutated forms stand in the modules before the definition they replace,
named `Definition_WhatIsWrong`.

## Bounds

Bounds in the modules are constants named as such: `MaxEvents`, `MaxJobs`,
`MaxReady`, `MaxRuns`, `MaxLife`, `MaxPending`, `MaxTokens`, `MaxSessions`,
`MaxTime`, `MaxRefs`, `MaxLinks`, `MaxFlights`, `MaxQuiet`, and the sets
`Requests`, `Browsers`, `Tabs`, `Handlers`.

Two workers are the least that let a zombie and its successor meet, three
attempts let a job be retried, taken over and exhausted, two events let jobs of
the same link commit out of order. Two health jobs let a settled job meet its
successor, which is what `OneActiveJobPerUrl` is about; two destinations
distinguish the primary probe from the fallbacks after it. A batch of two
distinguishes the loop's exits. In `route_cache` two requests share a load or
follow each other, and one command in flight suffices for a set that outlives
its caller and a delete that is lost; with two processes the state space no
longer fits, and the second process adds only the order of commands of different
connections, which late application covers.

In `workspace` two requests are the least that race, one custom domain and two
managed ones let positions shift under a late verification, and two tokens let a
domain be removed and connected anew. In `accounts` three tokens are the
registration's and two that follow, two instants separate "the same millisecond"
from "later". In `dashboard` two sessions are the least that let an answer arrive
under another one.

`subscription` is where bounds matter most. `OneAgreement` holds for two checkouts
(with one tab and no payment link also for five and six events) and for
three checkouts within four events; the third checkout with a fifth event
violates it, which is run `subscription_late`. The run therefore shows that the
claim stands against lost answers, 5xx, retries and repeated or late events for
a checkout and its successor, as long as one handler runs at a time. Without
bounds and for handlers that interleave, `PaidBeforeEntitled` is proved, and by which
saves an ended record begins again (`EndsAreFinal`).

TLC's deadlock check is off where a system with all events, tokens, sessions or
checkouts used up stops (`outbox`, `health_queue`, `subscription`, `workspace`,
`accounts`, `dashboard`); the others do not stop.

## Fairness

- Outbox and health queue: a running worker takes its next step (`WF` of
  `WorkerStep`), since the polling worker never stops by itself (that is
  `PollsForEver` of `PollingWorker`), and the clock runs (`WF` of
  `TimePasses`, `JobTimePasses`). A step of a worker includes the timers of its
  probes: a destination need not answer. In the outbox also
  `WF(PersistRedirectEvent \/ FailTransaction)`: `withTransaction` retries for
  at most 120 s. Nothing forces a crash, a click, an error or a success.
- Polling worker: the event loop runs due timers and settled promises; a call to
  the database ends, at the latest with the driver's time-out.
- Route cache: time passes, and a live process runs the callbacks of its
  requests, loads and handlers. Nothing at all is assumed of Redis: it may leave
  every command unanswered.
- Lifecycle: the event loop goes on with a shutdown that has begun, whose HTTP
  drain has a timer, and a run of a worker and `mongoose.disconnect` end, at the
  latest with the driver's time-outs. Nothing forces a request to be answered or a
  client to leave, and nothing is assumed of Redis: `closeRedis` awaits
  `client.close()`, which waits for the answers still owed, and there is no timer
  around it (`config/redis.js:107`, `config/lifecycle.js:65`). So `ShutdownEnds` says
  that a shutdown ends or waits for Redis for ever (`AwaitsRedis`); the repository's
  tests claim a bound for the HTTP drain only.
- The other modules state safety only and assume nothing.

## What is proved

All theorems hold for any number of workers, requests, events and so on, from
the named assumptions on the constants of the modules.

| Module | Theorem | States |
|---|---|---|
| `RedirectOutboxProofs` | `TypeCorrect` | `Spec => []TypeOK` |
| | `ClaimsAreFenced` | `Spec => []OneCurrentClaim` |
| | `LeaseRespected` | `Spec => LeaseIsExclusive` |
| | `CompletionIsRecording` | `Spec => []CompletedIffRecorded` |
| | `CountersAreExact` | `Spec => []CountersMatchEvents` |
| | `LastClickIsExact` | `Spec => []LastClickIsLatest` |
| | `OutboxImplementsLedger` | `Spec => ImplementsLedger` |
| `UrlHealthQueueProofs` | `TypeCorrect`, `OneActiveJob`, `CompletedBySaved` | `Spec => []TypeOK`, `[]OneActiveJobPerUrl`, `[]CompletedByItsRefresh` |
| | `LeaseExclusive` | `Spec => UrlLeaseIsExclusive` |
| | `QueueImplementsRefreshes` | `Spec => ImplementsRefreshes` |
| `RouteCacheProofs` | `TypeCorrect`, `NothingEnded` | `Spec => []TypeOK`, `[]NothingEndedIsServed` |
| | `FreshStaysFresh` | `Spec => [][Fresh /\ Stored' = Stored => Fresh']_vars` |
| `LifecycleProofs` | `TypeCorrect`, `LimitHolds`, `ShutdownDrains` | `Spec => []TypeOK`, `[]WithinLimit`, `[]DrainedBeforeClosing` |
| | `RequestsAreAnswered` | `Spec => NoRequestCut` |
| | `WorkerTypeCorrect`, `RunsDoNotOverlap`, `WakeupsAreKept`, `StoppedIsQuiet` | `WorkerSpec => []WorkerTypeOK`, `[]OneRunAtATime`, `[]NoLostWakeup`, `[]QuietAfterStop` |
| | `WorkersRunAsComposed` | of `PollingWorker`: a run begins only while the worker is started, and a stop that no start overtook resolves only when no run is active |
| `AccountsProofs` | `TypeCorrect` | `Spec => []TypeOK` |
| | `ResetEndsSessions`, `AccountsGoForward` | `Spec => OldSessionsEnd`, `Spec => AccountNeverGoesBack` |
| `WorkspaceResourcesProofs` | `LinksWithinPlan` | `Spec => LinkLimitHolds` |
| | `TypeCorrect`, `VerificationIsProven` | `Spec => []TypeOK`, `[]VerifiedByItsToken` |
| | `DomainsAreKept` | `Spec => NoDomainLost` |
| `SubscriptionProofs` | `TypeCorrect`, `PlanIsPaid` | `Spec => []TypeOK`, `[]PaidBeforeEntitled` |
| | `EndsAreFinal` | `Spec => EndsUnlessStale`: a record that has ended becomes active again only by "halted" or by a save of what was read before its end |
| `DashboardProofs` | `TypeCorrect`, `ShownDataIsOwn` | `Spec => []TypeOK`, `[]OwnData` |

`LifecycleProofs` extends `Lifecycle` and `PollingWorker`, the process and the worker
it composes, and holds the theorems about both. The arguments, each an inductive
invariant:

- *Outbox.* `BaseInv`: `TypeOK`, `ContentInv` (a job that exists has content) and
  `ClaimInv`: a worker's attempt is never above its job's, and no two workers
  hold the same attempt of the same job. The last conjunct needs the one before
  it: a claim hands out the successor of the job's attempts, which no worker can
  hold yet. Fencing follows, for a current claim is the one whose attempt equals
  the job's. Only a commit completes, only a processing job commits, and the
  release of a failure passes over a completed job; so a commit always adds a
  new element to `clickEvents`, and each counter it increments is the size of a
  set that grew by one. The refinement maps an event to "recorded" when its
  click event exists and to "discarded" when its job is dead.
- *Health queue.* The same `ClaimInv`, with `UrlInv` (an existing job is some
  link's) and `SavedInv` (a worker past its probes has saved). Leases are
  exclusive because a token is a claim, and claims are held once. In the refinement
  a job is one request, open while the job is active: a claim, a retry and a crash
  are not seen, `OneActiveJobPerUrl` is why closing a job takes its link out of the
  queue, and `SavedInv` why a completion finds its snapshot.
- *Route cache.* A load that caches and a request that is resolved hold something
  that MongoDB once stored (`FlightOK`, `RequestOK`), a handler that deletes is some
  process's (`HandlerOK`), and every TTL sent lies in `1..MaxTtl` (`PendingOK`). `EndedOK` adds: what had ended when a request began still has, since no
  handler and no clock prolongs it, so that its `Check`, whenever it comes and however
  old the snapshot, refuses it. (A renewal would prolong a plan; it is left out.) A
  stale copy is made of
  a stale copy only: while the document stands, a state in which the entry, the commands,
  the loads and the requests agree with MongoDB (`Fresh`) is followed by such states.
  That is the safe half of `CacheConverges`; that such a state comes is the other.
- *Polling worker.* `activeRun` is exactly the run that exists (`ActiveInv`); an
  unanswered wake has left `wakeRequested` set for the run that will end
  (`WakeInv`); a stopped worker has no timer and its stop awaits the run (`StopInv`).
  `WorkersRunAsComposed` is what `Lifecycle` takes for granted of its workers.
- *Lifecycle.* Requests are only at a process that is an API past its start
  (`ServingInv`), so draining the waiting ones empties what closing could cut.
  For the limiter (`LimitInv`): a request is counted in the window it has read or
  the next, and until a bucket may be deleted it has counted all that passed.
- *Accounts.* A completed reset left a time of change that is no earlier than
  any session issued before it read the clock (`RevokedInv`), and a reset under
  way has read such a time (`ResettingInv`). Tokens are numbered upwards, so the
  one that waits is newer than the one that set the password (`TokenInv`).
- *Links.* The request between its count and its insert is the writer of the
  workspace (`WriterInv`), so that its count stays below the limit of the plan it
  resolved (`RoomInv`), and the plan is still that one or has lapsed.
- *Domains.* `DomainInv` says what a request's copy of the workspace is worth: while
  the version it was read with stands, the stored arrays have the copy's entries
  at the copy's positions, whatever became of their statuses. A save with that
  version therefore reaches the entry it decided on, and one without it fails.
  That a removal drops its hostname and no other entry is a fact about filtering an
  array (`Without`): the entries that stay are numbered by how many of them stand no
  later, which maps them one to one onto the new positions (`WithoutKeeps`).
- *Billing: payments.* A record knows a subscription, an event says "paid", and a
  handler carries a grant only if the provider was paid (`RecordInv`, `EventInv`,
  `HandlerInv`); a reference belongs to one tab (`TabInv`). The proof makes no use of
  `Torn`: it covers handlers that interleave and that die between their saves.
- *Billing: ends.* An end that a record, a handler or an event speaks of has
  happened at Razorpay, where ends last (`EndedInv`); and where a handler has read an
  end it writes an end or "halted". What is left are the saves of what was read
  before the end (`StaleSave`): that of a sync, that of a webhook that no other webhook
  has overtaken, and the "active" of a cancellation for the end of the cycle. The
  code has no lock against them, so the theorem names them and does not assume them
  away: they do occur with `Torn`. When handlers take turns there are none, and what
  is left is `EndedStaysEnded`, as the run checks.
- *Dashboard.* While no session is shown there is at most one restore and one
  sign-in under way, and the requests of effects that are not cancelled belong to
  the session shown (`RestoringOK`, `RequestsOK`, `EffectsOK`). Sessions are issued
  upwards, and a request carries the cookie of its moment: under a session it is that
  session's, or a later one's that has replaced it for good (`CookieOK`). So what
  arrives late is cancelled, one's own, or of a session that another tab began.

Checked by TLC only: the liveness properties `SettledUnlessAbandoned`,
`EveryJobSettles`, `PollsForEver`, `CacheConverges`, `RequestsEnd` and `ShutdownEnds`,
which are beyond the prover, and of billing `OneAgreement` and `EndedStaysEnded`, for
handlers that take turns; with interleaved ones (`Torn`) both fail. Every other
property of a passing run is stated by a theorem.

## Findings

1. *An event whose last attempt is lost is stranded* (`outbox_recovery`,
   `services/redirectEventService.js:45`). The claim filter asks for fewer than
   five attempts. When the process of the fifth attempt dies, or its release
   fails, the job stays in `processing`: no claim takes it, nothing marks it dead,
   and having no `deleteAfter` it is never removed. Its click is not counted.
   `src/cloudflare/README.md:34` expects queued jobs to recover after a restart;
   the health queue has the missing sweep. `SettledUnlessAbandoned` is the part
   that does hold.
2. *An acknowledged manual expiry does not take effect at once*
   (`route_cache_expiry`, `controllers/linkController.js:403`). `expireLink`
   answers "URL expired manually" whatever became of the cache's delete, and a
   load that read the old document may cache it after the delete. Requests are
   then redirected until the entry's TTL ends (60 s), while
   `src/ops/monitoring/README.md:9` calls cache failures "correctness-safe".
   `CacheConverges` is the part that does hold.
3. *A late "halted" revives an ended checkout, and a second charge agreement can
   follow* (`subscription_late`, `controllers/billingController.js:867`). A record
   that a synchronisation has ended refuses late active, paid, authenticated and
   pending events but not halted, and the synchronisation left the time of the
   last event alone. The revived record's next events pass, write all of
   `Workspace.billing` over the claim of a newer checkout whose answer was lost,
   and release it; one more checkout then makes a second agreement, which line
   466 says the claim prevents. `EndedStaysEnded`, which admits "halted", is the
   part that does hold.

Further behaviour that the models bring out, without a run of its own:

- *Interleaved billing handlers.* With `Torn` TRUE, 3 checkouts and 3 events
  `OneAgreement` fails as well: a webhook that dies between saving the workspace and
  the record (`billingController.js:696`) leaves a record that looks live, and
  an older event of it then takes the claim of the next checkout along.
- *Links.* The plan is resolved before the links are counted and the link is
  inserted (`linkController.js:108`, `:119`). A period that ends in between leaves a
  link beyond the limit of the free plan. `LinkLimitHolds` is about the plan resolved.
- *Redirects.* A link that ends between its check and the redirect of the same
  request (`urlController.js:48`, `:110`) is served; the code does not look again.
- *Domains.* Two concurrent adds both pass the checks on their copies
  (`workspaceController.js:129`), so that the limit is exceeded, one host
  stands twice, or two domains are primary. A verification does not increment
  `__v`, so the array that a remove saves afterwards can undo it. A link
  created while its domain is removed stays on a domain nobody serves (`:266`).
- *Sessions.* A login that checked the old password and issues its session after a
  reset keeps it (`authController.js:387`, `:519`). A crash of a registration between
  the user and the workspace leaves an account that can neither sign in nor
  register. Clocks that differ between processes are not modelled.
- *Health.* Overlapping refreshes of one link (one without the lease) save parts
  of two snapshots (`healthService.js:208`).
- *Shutdown.* A Redis that stays silent holds a shutdown in `closeRedis` for ever
  (`config/redis.js:107`). The handler means to dismiss a second SIGTERM, but its listener is
  gone and Node ends the process (`lifecycle.js:173`). After the HTTP deadline the
  workers are not stopped (`:63`). A handler whose client has left may meet a closed
  database.
- *Dashboard.* A late 401 to a request of an older session clears the newer one
  (`App.jsx:700`). A failed logout clears the page and leaves the cookie. Answers to
  buttons are applied whatever session is shown by then (`:1087`, `:1825`, `:1872`);
  `OwnData` is about what effects load and says so in the module. GETs carry no CSRF
  token (`middleware/authMiddleware.js:82`): once another tab has signed in as somebody
  else, this tab shows that account's data as its own. `OwnData` allows exactly that. A
  write of this tab is then refused, by the comparison of tokens alone.

## What is not modelled

- Contents: user agents, destinations, labels, error texts, metrics and logs;
  prices, dates of billing periods, serialized summaries.
- In `RouteCache`: renewals of a plan, the health part of a cached route, which
  host is the default one. How far a burst passes the click limit before the outbox
  has counted it.
- In `UrlHealthQueue`: what a snapshot says, `selectRedirectTarget`, and the
  refreshes that `createLink` and `refreshLinkHealth` run without the lease.
- In `WorkspaceResources`: `updateWorkspace` (the name only), more than one
  workspace; the unique indexes on hostnames across workspaces.
- In `Subscription`: events named completed and partially_paid, which are handled like
  cancelled and created.
- In `Dashboard`: React is taken to cancel and start effects in the step that
  changes the state (`CommitWith`), where it does so a moment later; an answer to a
  link's code may succeed under any session, which includes more than the 404 another
  account's code would get. Rendering, the order of links, the public pages and history
  navigation, consent to analytics, and the forms of forgotten passwords and
  verification, which change nothing tracked.
- MongoDB's replication: documents are linearizable, transactions are snapshots
  that abort on a write conflict.
- Stateless parts: configuration, validation, headers, metrics, pure utilities,
  migrations, the edge worker, styles and texts.

## Plan

1. `HealthSnapshots`: late and overlapping saves of snapshots, and what
   `selectRedirectTarget` makes of them.
2. `RedirectPipeline`: the route, entitlement and usage caches, the outbox and the
   health queue composed; how far a burst may pass the click limit.
3. Proofs: `OneAgreement` for handlers that take turns, and what of it survives
   `Torn`.
