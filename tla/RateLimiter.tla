------------------------------ MODULE RateLimiter ------------------------------
(***************************************************************************)
(* createRateLimiter of middleware/rateLimitMiddleware.js, for one key     *)
(* prefix and one client address: a counter per window in MongoDB, shared  *)
(* by all processes, which the TTL index deletes later.                    *)
(* One tick of the clock is one window.                                    *)
(***************************************************************************)
EXTENDS Naturals

CONSTANTS
  Requests,    \* requests of the client
  Max,         \* max
  MaxTime      \* bound of the clock

ASSUME LimiterAssumption == Max \in Nat \ {0} /\ MaxTime \in Nat

VARIABLES
  now,       \* the window Date.now() falls in
  asked,     \* asked[r]: the window r has read from the clock and not yet been counted in
  bucket,    \* bucket[w]: count of the RateLimitBucket of window w, 0 for no document
  passed     \* history: passed[w] requests of window w were let through

limiterVars == <<now, asked, bucket, passed>>

Windows == 0..MaxTime
Nothing == MaxTime + 1

LimiterInit ==
  /\ now = 0
  /\ asked = [r \in Requests |-> Nothing]
  /\ bucket = [w \in Windows |-> 0]
  /\ passed = [w \in Windows |-> 0]

ReadClock(r) ==
  /\ asked[r] = Nothing
  /\ asked' = [asked EXCEPT ![r] = now]
  /\ UNCHANGED <<now, bucket, passed>>

LetsThrough(r) == bucket[asked[r]] < Max

\* Above Max the count tells nothing more.
Counted(w) == [bucket EXCEPT ![w] = IF @ > Max THEN @ ELSE @ + 1]

\* consumeRateLimit's upsert counts the request whatever comes of it.
ConsumeRateLimit(r) ==
  LET w == asked[r] IN
  /\ w # Nothing
  /\ bucket' = Counted(w)
  /\ passed' = [passed EXCEPT ![w] = IF LetsThrough(r) THEN @ + 1 ELSE @]
  /\ asked' = [asked EXCEPT ![r] = Nothing]
  /\ UNCHANGED now

\* The store fails, the race to insert the bucket is lost, or the answer of an upsert is: 503.
StoreFails(r) ==
  /\ asked[r] # Nothing
  /\ bucket' \in {bucket, Counted(asked[r])}
  /\ asked' = [asked EXCEPT ![r] = Nothing]
  /\ UNCHANGED <<now, passed>>

ExpiresAt_Reset(w) == w + 1

\* new Date(resetAt + windowMs).
ExpiresAt(w) == w + 2

ExpireBucket(w) ==
  /\ bucket[w] > 0 /\ now >= ExpiresAt(w)
  /\ bucket' = [bucket EXCEPT ![w] = 0]
  /\ UNCHANGED <<now, asked, passed>>

\* A request reaches the store within one window of reading the clock.
Tick ==
  /\ now < MaxTime
  /\ \A r \in Requests : asked[r] \in {now, Nothing}
  /\ now' = now + 1
  /\ UNCHANGED <<asked, bucket, passed>>

LimiterTypeOK ==
  /\ now \in Windows
  /\ asked \in [Requests -> Windows \cup {Nothing}]
  /\ bucket \in [Windows -> 0..(Max + 1)]
  /\ passed \in [Windows -> Nat]

(***************************************************************************)
(* No window lets more than max requests through, whatever happens to the  *)
(* processes, and although requests are counted after the window they      *)
(* asked in and the TTL index deletes buckets.                             *)
(***************************************************************************)
WithinLimit == \A w \in Windows : passed[w] <= Max
=============================================================================
