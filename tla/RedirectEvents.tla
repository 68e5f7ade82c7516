---------------------------- MODULE RedirectEvents ----------------------------
(***************************************************************************)
(* The redirect events the analytics modules share: what a redirect leaves *)
(* behind (buildRedirectEvent of controllers/urlController.js) and how     *)
(* many of them there are.                                                 *)
(***************************************************************************)
EXTENDS Integers

CONSTANTS
  MaxEvents,     \* bound: number of redirect events ever accepted
  Urls,          \* links
  Counters,      \* usage counters, one per workspace and billing period
  NoCounter,     \* the counter of a link that belongs to no workspace
  Redirects,     \* the redirects a visitor can make, see RedirectType
  NoRedirect     \* the content of an event that has not been accepted

(***************************************************************************)
(* A redirect as the controller records it: the link, the usage counter of *)
(* the link's workspace in the period of the click, the instant of the     *)
(* click, whether a destination was served (status 302) or none was (502), *)
(* and whether the link's health snapshot was stale.                       *)
(***************************************************************************)
RedirectType == [url : Urls, counter : Counters \cup {NoCounter},
                 clickedAt : Nat \ {0}, served : BOOLEAN, stale : BOOLEAN]

ASSUME RedirectEventsAssumption ==
  /\ MaxEvents \in Nat
  /\ NoCounter \notin Counters
  /\ Redirects \subseteq RedirectType
  /\ NoRedirect \notin Redirects

Events == 1..MaxEvents

\* With $set in the place of $max: the last write wins.
Later_LastWrite(s, t) == t

\* MongoDB's $max on dates.
Later(s, t) == IF s < t THEN t ELSE s
===============================================================================
