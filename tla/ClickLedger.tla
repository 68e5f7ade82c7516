----------------------------- MODULE ClickLedger -----------------------------
(***************************************************************************)
(* What the redirect analytics pipeline promises, with no queue, no worker *)
(* and no lease in it: an accepted redirect event is recorded at most      *)
(* once, and recording it changes the click events, the link's counters,   *)
(* the workspace's usage counter and the health refresh queue in one step. *)
(* An event that is not recorded may only be discarded as a whole.         *)
(*                                                                         *)
(* RedirectOutbox implements this specification.                           *)
(***************************************************************************)
EXTENDS RedirectEvents

VARIABLES
  redirect,       \* redirect[e]: what event e recorded, fixed when accepted
  outcome,        \* outcome[e]: what became of event e
  clicks,         \* clicks[u]: the link's click counter
  lastClickedAt,  \* lastClickedAt[u]: its latest counted click, 0 if none
  usage,          \* usage[c]: clicks billed to a workspace in a period
  refreshQueue    \* the links with an active health refresh job

vars == <<redirect, outcome, clicks, lastClickedAt, usage, refreshQueue>>

Init ==
  /\ redirect = [e \in Events |-> NoRedirect]
  /\ outcome = [e \in Events |-> "none"]
  /\ clicks = [u \in Urls |-> 0]
  /\ lastClickedAt = [u \in Urls |-> 0]
  /\ usage = [c \in Counters |-> 0]
  /\ refreshQueue = {}

Accept(e, r) ==
  /\ outcome[e] = "none"
  /\ outcome' = [outcome EXCEPT ![e] = "accepted"]
  /\ redirect' = [redirect EXCEPT ![e] = r]
  /\ UNCHANGED <<clicks, lastClickedAt, usage, refreshQueue>>

Record(e) ==
  LET r == redirect[e] IN
  /\ outcome[e] = "accepted"
  /\ outcome' = [outcome EXCEPT ![e] = "recorded"]
  /\ clicks' = IF r.served THEN [clicks EXCEPT ![r.url] = @ + 1] ELSE clicks
  /\ lastClickedAt' = IF r.served
                      THEN [lastClickedAt EXCEPT ![r.url] = Later(@, r.clickedAt)]
                      ELSE lastClickedAt
  /\ usage' = IF r.counter \in Counters
              THEN [usage EXCEPT ![r.counter] = @ + 1]
              ELSE usage
  /\ refreshQueue' = IF r.stale THEN refreshQueue \cup {r.url} ELSE refreshQueue
  /\ UNCHANGED redirect

Discard(e) ==
  /\ outcome[e] = "accepted"
  /\ outcome' = [outcome EXCEPT ![e] = "discarded"]
  /\ UNCHANGED <<redirect, clicks, lastClickedAt, usage, refreshQueue>>

Refreshed(u) ==
  /\ u \in refreshQueue
  /\ refreshQueue' = refreshQueue \ {u}
  /\ UNCHANGED <<redirect, outcome, clicks, lastClickedAt, usage>>

Next ==
  \/ \E e \in Events, r \in Redirects : Accept(e, r)
  \/ \E e \in Events : Record(e) \/ Discard(e)
  \/ \E u \in Urls : Refreshed(u)

Spec == Init /\ [][Next]_vars
==============================================================================
