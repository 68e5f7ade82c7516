--------------------------- MODULE MCRedirectOutbox ---------------------------
EXTENDS RedirectOutbox, TLC

CONSTANTS u1, u2, c1

(***************************************************************************)
(* Two redirects of a workspace link, recorded in either order and the     *)
(* later one with a stale health snapshot, and one of a guest link that    *)
(* had no destination to serve.                                            *)
(***************************************************************************)
MCRedirects ==
  {[url |-> u1, counter |-> c1, clickedAt |-> 2, served |-> TRUE, stale |-> TRUE],
   [url |-> u1, counter |-> c1, clickedAt |-> 1, served |-> TRUE, stale |-> FALSE],
   [url |-> u2, counter |-> NoCounter, clickedAt |-> 1, served |-> FALSE, stale |-> FALSE]}

\* Enough where the content of an event does not matter.
MCOneRedirect ==
  {[url |-> u1, counter |-> c1, clickedAt |-> 1, served |-> TRUE, stale |-> FALSE]}
===============================================================================
