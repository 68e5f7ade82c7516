--------------------------- MODULE HealthRefreshes ---------------------------
(***************************************************************************)
(* What the URL health refresh queue promises, with no worker, no attempt  *)
(* and no lease in it: a link has at most one open request, an open        *)
(* request is closed once, as carried out only after a health snapshot was *)
(* saved for it, and a closed request never opens again.                   *)
(*                                                                         *)
(* refreshQueue is the variable of that name in RedirectOutbox, whose      *)
(* SettleRefresh is a Complete or a Bury here.  UrlHealthQueue implements  *)
(* this specification.                                                     *)
(***************************************************************************)
EXTENDS Naturals

CONSTANTS
  Urls,      \* links
  NoUrl,     \* the link of a request that was not made yet
  MaxJobs    \* bound: number of requests ever opened

VARIABLES
  refreshQueue,  \* the links with an open request
  request,       \* request[j]: the link of request j, and what became of it
  snapshots      \* the requests for which a health snapshot was saved

vars == <<refreshQueue, request, snapshots>>

Requests == 1..MaxJobs

Init ==
  /\ refreshQueue = {}
  /\ request = [j \in Requests |-> [url |-> NoUrl, outcome |-> "none"]]
  /\ snapshots = {}

\* One more request for a link that waits changes nothing.
Open(j, u) ==
  /\ request[j].outcome = "none"
  /\ u \notin refreshQueue
  /\ request' = [request EXCEPT ![j] = [url |-> u, outcome |-> "open"]]
  /\ refreshQueue' = refreshQueue \cup {u}
  /\ UNCHANGED snapshots

\* A slow refresh may save its snapshot when its request is closed.
SaveSnapshot(j) ==
  /\ request[j].outcome # "none"
  /\ snapshots' = snapshots \cup {j}
  /\ UNCHANGED <<refreshQueue, request>>

Close(j, outcome) ==
  /\ request[j].outcome = "open"
  /\ request' = [request EXCEPT ![j].outcome = outcome]
  /\ refreshQueue' = refreshQueue \ {request[j].url}
  /\ UNCHANGED snapshots

Complete(j) == j \in snapshots /\ Close(j, "refreshed")

Bury(j) == Close(j, "buried")

\* A closed request is kept for days and then deleted.
Forget(j) ==
  /\ request[j].outcome \in {"refreshed", "buried"}
  /\ request' = [request EXCEPT ![j].outcome = "forgotten"]
  /\ UNCHANGED <<refreshQueue, snapshots>>

Next ==
  \E j \in Requests :
    \/ \E u \in Urls : Open(j, u)
    \/ SaveSnapshot(j)
    \/ Complete(j)
    \/ Bury(j)
    \/ Forget(j)

Spec == Init /\ [][Next]_vars
==============================================================================
