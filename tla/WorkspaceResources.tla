-------------------------- MODULE WorkspaceResources --------------------------
(***************************************************************************)
(* What one workspace owns: its links (controllers/linkController.js,      *)
(* models/Url.js) and its custom and managed e-mail domains                *)
(* (controllers/workspaceController.js, models/Workspace.js).              *)
(*                                                                         *)
(* requireAuth loads the workspace before a handler runs; the handler      *)
(* decides on that copy, waits for DNS or the database, and saves it.      *)
(* What a save writes is Mongoose's doing.  A push appends and increments  *)
(* the version __v.  Assigning an array replaces it, asks for the version  *)
(* that was read, and increments it.  Changing a field of an element       *)
(* writes to its position, asks for the version that was read, and leaves  *)
(* it.  The two arrays share the version of their document.                *)
(***************************************************************************)
EXTENDS Naturals, Sequences, FiniteSets

CONSTANTS
  Plans,               \* effective plans
  Free,                \* BILLING_PLANS.free, in effect when a paid period is over
  LinkLimit,           \* LinkLimit[p]: linkLimit of plan p
  DomainLimit,         \* DomainLimit[p]: domainLimit of plan p
  Governing,           \* the plans that govern e-mail domains: "enterprise"
  CustomHosts,         \* hostnames somebody connects for links
  ManagedHosts,        \* hostnames somebody governs e-mail addresses of
  NoHost,              \* customDomainHost "", the default host
  Codes,               \* short codes
  Requests,            \* requests of members of the workspace
  None,                \* no request, no short code, no plan
  MaxTokens            \* bound: verification tokens ever drawn

Hosts == CustomHosts \cup ManagedHosts

ASSUME ResourcesAssumption ==
  /\ LinkLimit \in [Plans -> Nat] /\ DomainLimit \in [Plans -> Nat]
  /\ Free \in Plans /\ None \notin Plans
  /\ Governing \subseteq Plans
  /\ NoHost \notin Hosts /\ None \notin Requests
  /\ CustomHosts \cap ManagedHosts = {}
  /\ IsFiniteSet(Codes)
  /\ MaxTokens \in Nat

VARIABLES
  workspace,   \* the Workspace document: the plan it has in effect, the arrays of domains, __v
  link,        \* link[c]: the Url document of short code c
  drawn,       \* number of verification tokens drawn so far
  published,   \* tokens that stand in a TXT record of their hostname
  request,     \* request[q]: where a request is, with the copy it decides on
  writer       \* the request whose open transaction has written workspace

vars == <<workspace, link, drawn, published, request, writer>>

Tokens == 1..MaxTokens

Domain == [host : Hosts, token : Tokens, status : {"pending", "verified"}, primary : BOOLEAN]

Lists == {"custom", "managed"}
ListOf(host) == IF host \in CustomHosts THEN "custom" ELSE "managed"

Workspace == [plan : Plans, domains : [Lists -> Seq(Domain)], v : Nat]

Link == [state : {"none", "active", "ended"}, owned : BOOLEAN, host : CustomHosts \cup {NoHost}]

\* copy, v: the array and the version a handler decides on.  plan: what its
\* transaction has resolved.  again: a save has failed and is repeated with the
\* status pending.
Request == [at : {"idle", "adding", "verifying", "found", "missing", "again", "promoting",
                  "removing", "creating", "inserting", "expiring"},
            host : Hosts \cup {NoHost}, code : Codes \cup {None},
            plan : Plans \cup {None}, copy : Seq(Domain), v : Nat]

IdleRequest ==
  [at |-> "idle", host |-> NoHost, code |-> None, plan |-> None, copy |-> <<>>, v |-> 0]

Init ==
  /\ workspace \in [plan : Plans, domains : {[kind \in Lists |-> <<>>]}, v : {0}]
  /\ link = [c \in Codes |-> [state |-> "none", owned |-> FALSE, host |-> NoHost]]
  /\ drawn = 0
  /\ published = {}
  /\ request = [q \in Requests |-> IdleRequest]
  /\ writer = None

CustomDomains == workspace.domains["custom"]
ManagedEmailDomains == workspace.domains["managed"]

ActiveLinks == {c \in Codes : link[c].state = "active" /\ link[c].owned}

\* customDomains.find(...): the position of the first entry of host.
Has(list, host) == \E i \in DOMAIN list : list[i].host = host
Position(list, host) == CHOOSE i \in DOMAIN list :
  list[i].host = host /\ \A j \in 1..(i - 1) : list[j].host # host

Ends(q) == request' = [request EXCEPT ![q] = IdleRequest]
Goes(q, at) == request' = [request EXCEPT ![q].at = at]

\* requireAuth: a request about a domain begins with a copy of the workspace.
BeginsWithCopy(q, at, host) ==
  /\ request[q].at = "idle"
  /\ request' = [request EXCEPT ![q] = [at |-> at, host |-> host, code |-> None, plan |-> None,
                                        copy |-> workspace.domains[ListOf(host)],
                                        v |-> workspace.v]]

BeginsWithLink(q, at, host, code) ==
  /\ request[q].at = "idle"
  /\ request' = [request EXCEPT ![q] = [at |-> at, host |-> host, code |-> code, plan |-> None,
                                        copy |-> <<>>, v |-> 0]]

\* Nobody writes a document that an open transaction has written.
Unlocked == writer = None

\* The save of request q asks for the version its copy was read with.
VersionMatches(q) == workspace.v = request[q].v

-----------------------------------------------------------------------------
(* Custom domains, and managed e-mail domains where they differ *)

\* The limit and duplicates are judged on the copy.
AddCustomDomain(q, host) ==
  /\ Len(CustomDomains) < DomainLimit[workspace.plan]
  /\ ~Has(CustomDomains, host)
  /\ BeginsWithCopy(q, "adding", host)
  /\ UNCHANGED <<workspace, link, drawn, published, writer>>

\* A domain the workspace governs already is answered, not added again.
AddManagedEmailDomain(q, host) ==
  /\ workspace.plan \in Governing
  /\ ~Has(ManagedEmailDomains, host)
  /\ BeginsWithCopy(q, "adding", host)
  /\ UNCHANGED <<workspace, link, drawn, published, writer>>

SaveAdded_NoVersion(q, primary) ==
  LET host == request[q].host
      entry == [host |-> host, token |-> drawn + 1, status |-> "pending",
                primary |-> primary]
  IN /\ request[q].at = "adding" /\ Unlocked /\ drawn < MaxTokens
     /\ workspace' = [workspace EXCEPT !.domains[ListOf(host)] = Append(@, entry)]
     /\ drawn' = drawn + 1
     /\ Ends(q)
     /\ UNCHANGED <<link, published, writer>>

SaveAdded_TokenNotDrawn(q, primary) ==
  LET host == request[q].host
      entry == [host |-> host, token |-> drawn, status |-> "pending",
                primary |-> primary]
  IN /\ request[q].at = "adding" /\ Unlocked /\ drawn < MaxTokens
     /\ workspace' = [workspace EXCEPT !.domains[ListOf(host)] = Append(@, entry), !.v = @ + 1]
     /\ drawn' = drawn + 1
     /\ Ends(q)
     /\ UNCHANGED <<link, published, writer>>

SaveAdded(q, primary) ==
  LET host == request[q].host
      entry == [host |-> host, token |-> drawn + 1, status |-> "pending",
                primary |-> primary]
  IN /\ request[q].at = "adding" /\ Unlocked /\ drawn < MaxTokens
     /\ workspace' = [workspace EXCEPT !.domains[ListOf(host)] = Append(@, entry), !.v = @ + 1]
     /\ drawn' = drawn + 1
     /\ Ends(q)
     /\ UNCHANGED <<link, published, writer>>

\* The first custom domain becomes the primary one.
SaveCustomDomain(q) ==
  request[q].host \in CustomHosts /\ SaveAdded(q, request[q].copy = <<>>)

SaveManagedEmailDomain(q) ==
  request[q].host \in ManagedHosts /\ SaveAdded(q, FALSE)

\* serializeWorkspaceSettings: the TXT values the members see for a name.
ShownTokens(host) ==
  LET list == workspace.domains[ListOf(host)]
  IN {list[i].token : i \in {j \in DOMAIN list : list[j].host = host}}

\* The owner of the name publishes a record it is shown.
Publish(host) ==
  /\ \E token \in ShownTokens(host) : published' = published \cup {token}
  /\ UNCHANGED <<workspace, link, drawn, request, writer>>

VerifyCustomDomain(q, host) ==
  /\ Has(CustomDomains, host)
  /\ BeginsWithCopy(q, "verifying", host)
  /\ UNCHANGED <<workspace, link, drawn, published, writer>>

\* The same steps follow, about another name of the DNS.
VerifyManagedEmailDomain(q, host) ==
  /\ Has(ManagedEmailDomains, host)
  /\ BeginsWithCopy(q, "verifying", host)
  /\ UNCHANGED <<workspace, link, drawn, published, writer>>

\* The entry the request looks at, in its copy.
Seen(q) == request[q].copy[Position(request[q].copy, request[q].host)]

LookUpTxt(q) ==
  /\ request[q].at = "verifying"
  /\ \/ Seen(q).token \in published /\ Goes(q, "found")
     \/ Goes(q, "missing")
  /\ UNCHANGED <<workspace, link, drawn, published, writer>>

SaveStatus_AnyVersion(q, status, changed) ==
  LET kind == ListOf(request[q].host)
      i == Position(request[q].copy, request[q].host)
  IN workspace' = IF changed /\ i \in DOMAIN workspace.domains[kind]
                  THEN [workspace EXCEPT !.domains[kind][i].status = status] ELSE workspace

\* The status goes to the position it had in the copy, if it was changed.
SaveStatus(q, status, changed) ==
  LET kind == ListOf(request[q].host)
      i == Position(request[q].copy, request[q].host)
  IN workspace' = IF changed /\ VersionMatches(q)
                  THEN [workspace EXCEPT !.domains[kind][i].status = status] ELSE workspace

\* The handler catches the error of its own save too, and saves "pending".
SaveVerified(q) ==
  /\ request[q].at = "found" /\ Unlocked
  /\ \/ SaveStatus(q, "verified", Seen(q).status # "verified") /\ Ends(q)
     \/ SaveStatus(q, "verified", Seen(q).status # "verified") /\ Goes(q, "again")
     \/ UNCHANGED workspace /\ Goes(q, "again")
  /\ UNCHANGED <<link, drawn, published, writer>>

\* No record with the token.
SaveUnverified(q) ==
  /\ request[q].at = "missing" /\ Unlocked
  /\ SaveStatus(q, "pending", Seen(q).status # "pending")
  /\ Ends(q)
  /\ UNCHANGED <<link, drawn, published, writer>>

\* The catch: its write of the status is the second one to this copy, unless the lookup
\* itself failed, which ends as if the record were missing.
SavePendingAfterError(q) ==
  /\ request[q].at = "again" /\ Unlocked
  /\ SaveStatus(q, "pending", TRUE)
  /\ Ends(q)
  /\ UNCHANGED <<link, drawn, published, writer>>

SetPrimaryCustomDomain(q, host) ==
  LET list == CustomDomains IN
  /\ Has(list, host) /\ list[Position(list, host)].status = "verified"
  /\ BeginsWithCopy(q, "promoting", host)
  /\ UNCHANGED <<workspace, link, drawn, published, writer>>

\* Writes isPrimary of those entries in which it changes.
SavePrimary(q) ==
  LET copy == request[q].copy
      host == request[q].host
      Chosen(i) == IF i \in DOMAIN copy /\ copy[i].primary # (copy[i].host = host)
                   THEN [CustomDomains[i] EXCEPT !.primary = copy[i].host = host]
                   ELSE CustomDomains[i]
  IN /\ request[q].at = "promoting" /\ Unlocked
     /\ workspace' = IF VersionMatches(q)
                     THEN [workspace EXCEPT !.domains["custom"] = [i \in DOMAIN @ |-> Chosen(i)]]
                     ELSE workspace
     /\ Ends(q)
     /\ UNCHANGED <<link, drawn, published, writer>>

\* The domain must have no link, of any age, when they are counted.
RemoveCustomDomain(q, host) ==
  /\ Has(CustomDomains, host)
  /\ \A c \in Codes : link[c].state # "none" => ~(link[c].owned /\ link[c].host = host)
  /\ BeginsWithCopy(q, "removing", host)
  /\ UNCHANGED <<workspace, link, drawn, published, writer>>

\* The filter that leaves the list as long as it was answers a 404.
RemoveManagedEmailDomain(q, host) ==
  /\ Has(ManagedEmailDomains, host)
  /\ BeginsWithCopy(q, "removing", host)
  /\ UNCHANGED <<workspace, link, drawn, published, writer>>

\* The first of the domains that are left becomes the primary one, if none is.
WithPrimary(list) ==
  IF list # <<>> /\ \A i \in DOMAIN list : ~list[i].primary
  THEN [list EXCEPT ![1].primary = TRUE] ELSE list

\* Array.filter: the entries of list but those of host, in their order.
Without(list, host) ==
  LET kept == {i \in DOMAIN list : list[i].host # host}
      Rank(i) == Cardinality({j \in kept : j <= i})
  IN [n \in 1..Cardinality(kept) |-> list[CHOOSE i \in kept : Rank(i) = n]]

SaveRemoved(q) ==
  LET host == request[q].host
      kept == Without(request[q].copy, host)
      list == IF host \in CustomHosts THEN WithPrimary(kept) ELSE kept
  IN /\ request[q].at = "removing" /\ Unlocked
     /\ workspace' = IF VersionMatches(q)
                     THEN [workspace EXCEPT !.domains[ListOf(host)] = list, !.v = @ + 1] ELSE workspace
     /\ Ends(q)
     /\ UNCHANGED <<link, drawn, published, writer>>

-----------------------------------------------------------------------------
(* Links *)

\* createLink's checks of limit, alias and domain, all before its insert.
CreateLink(q, code, host) ==
  /\ Cardinality(ActiveLinks) < LinkLimit[workspace.plan]
  /\ link[code].state = "none"
  /\ host # NoHost =>
       /\ Has(CustomDomains, host)
       /\ CustomDomains[Position(CustomDomains, host)].status = "verified"
  /\ BeginsWithLink(q, "creating", host, code)
  /\ UNCHANGED <<workspace, link, drawn, published, writer>>

\* resolveEffectivePlan, once more and on the document as it is in the transaction.
ResolvesPlan(q) ==
  request' = [request EXCEPT ![q].at = "inserting", ![q].plan = workspace.plan]

CountLinks_NoIncrement(q) ==
  /\ request[q].at = "creating"
  /\ IF Cardinality(ActiveLinks) < LinkLimit[workspace.plan]
     THEN ResolvesPlan(q) ELSE Ends(q)
  /\ UNCHANGED <<workspace, link, drawn, published, writer>>

(***************************************************************************)
(* createUrlWithinPlanLimit.  Incrementing linkCreationVersion makes the   *)
(* transaction the writer of the workspace document until it ends; who     *)
(* comes second meets a write conflict and begins again.                   *)
(***************************************************************************)
CountLinks(q) ==
  /\ request[q].at = "creating" /\ Unlocked
  /\ IF Cardinality(ActiveLinks) < LinkLimit[workspace.plan]
     THEN ResolvesPlan(q) /\ writer' = q
     ELSE Ends(q) /\ UNCHANGED writer
  /\ UNCHANGED <<workspace, link, drawn, published>>

\* The unique index refuses a code that was taken meanwhile; a failed
\* transaction inserts nothing.  What follows (route cache, first health
\* snapshot, usage counter, audit) touches nothing of this module.
InsertLink(q) ==
  LET code == request[q].code IN
  /\ request[q].at = "inserting"
  /\ \/ /\ link[code].state = "none"
        /\ link' = [link EXCEPT ![code] = [state |-> "active", owned |-> TRUE,
                                           host |-> request[q].host]]
     \/ UNCHANGED link
  /\ Ends(q)
  /\ writer' = None
  /\ UNCHANGED <<workspace, drawn, published>>

CreateGuestLink(code) ==
  /\ link[code].state = "none"
  /\ link' = [link EXCEPT ![code] = [state |-> "active", owned |-> FALSE, host |-> NoHost]]
  /\ UNCHANGED <<workspace, drawn, published, request, writer>>

ExpireLink(q, code) ==
  /\ code \in ActiveLinks
  /\ BeginsWithLink(q, "expiring", NoHost, code)
  /\ UNCHANGED <<workspace, link, drawn, published, writer>>

SaveExpired(q) ==
  /\ request[q].at = "expiring"
  /\ link' = [link EXCEPT ![request[q].code].state = "ended"]
  /\ Ends(q)
  /\ UNCHANGED <<workspace, drawn, published, writer>>

\* expiresAt passes.
LinkEnds(code) ==
  /\ link[code].state = "active"
  /\ link' = [link EXCEPT ![code].state = "ended"]
  /\ UNCHANGED <<workspace, drawn, published, request, writer>>

\* Billing writes another plan or period into the document.
PlanChanges ==
  /\ Unlocked
  /\ \E p \in Plans \ {workspace.plan} : workspace' = [workspace EXCEPT !.plan = p]
  /\ UNCHANGED <<link, drawn, published, request, writer>>

\* currentPeriodEndsAt passes: nobody writes, and no transaction keeps it out.
PlanLapses ==
  /\ workspace.plan # Free
  /\ workspace' = [workspace EXCEPT !.plan = Free]
  /\ UNCHANGED <<link, drawn, published, request, writer>>

\* An error or a crash; MongoDB aborts the transaction of a dead process.
RequestDies(q) ==
  /\ request[q].at # "idle"
  /\ Ends(q)
  /\ writer' = IF writer = q THEN None ELSE writer
  /\ UNCHANGED <<workspace, link, drawn, published>>

-----------------------------------------------------------------------------
DomainStep(q) ==
  \/ \E host \in CustomHosts :
       \/ AddCustomDomain(q, host) \/ VerifyCustomDomain(q, host)
       \/ SetPrimaryCustomDomain(q, host) \/ RemoveCustomDomain(q, host)
  \/ \E host \in ManagedHosts :
       \/ AddManagedEmailDomain(q, host) \/ VerifyManagedEmailDomain(q, host)
       \/ RemoveManagedEmailDomain(q, host)
  \/ SaveCustomDomain(q) \/ SaveManagedEmailDomain(q)
  \/ LookUpTxt(q) \/ SaveVerified(q) \/ SaveUnverified(q) \/ SavePendingAfterError(q)
  \/ SavePrimary(q) \/ SaveRemoved(q)

LinkStep(q) ==
  \/ \E code \in Codes : \E host \in CustomHosts \cup {NoHost} : CreateLink(q, code, host)
  \/ \E code \in Codes : ExpireLink(q, code)
  \/ CountLinks(q) \/ InsertLink(q) \/ SaveExpired(q)

Next ==
  \/ \E q \in Requests : DomainStep(q) \/ LinkStep(q) \/ RequestDies(q)
  \/ \E host \in Hosts : Publish(host)
  \/ \E code \in Codes : CreateGuestLink(code) \/ LinkEnds(code)
  \/ PlanChanges \/ PlanLapses

Spec == Init /\ [][Next]_vars

-----------------------------------------------------------------------------
TypeOK ==
  /\ workspace \in Workspace
  /\ link \in [Codes -> Link]
  /\ drawn \in 0..MaxTokens
  /\ published \subseteq Tokens
  /\ request \in [Requests -> Request]
  /\ writer \in Requests \cup {None}

(***************************************************************************)
(* "Your plan allows up to linkLimit active links": whatever requests      *)
(* count at the same time, a link is only added below the limit of the     *)
(* plan that its request resolved in the transaction of the insert, and    *)
(* that plan is still in effect: no change of plan comes between, but the  *)
(* end of the paid period, which is no write.                              *)
(***************************************************************************)
LinkLimitHolds ==
  [][~(ActiveLinks' \subseteq ActiveLinks) =>
       \E q \in Requests :
         /\ request[q].at = "inserting" /\ request'[q].at = "idle"
         /\ Cardinality(ActiveLinks') <= LinkLimit[request[q].plan]
         /\ workspace.plan \in {request[q].plan, Free}]_vars

(***************************************************************************)
(* A domain is verified only by the token drawn for it: a verification     *)
(* that returns after entries moved, or after its domain was removed and   *)
(* connected anew, does not mark another entry.                            *)
(***************************************************************************)
VerifiedByItsToken ==
  \A kind \in Lists : \A i \in DOMAIN workspace.domains[kind] :
    workspace.domains[kind][i].status = "verified" => workspace.domains[kind][i].token \in published

(***************************************************************************)
(* A connected domain is lost by its own removal only, never by the save   *)
(* of a request that decided on an older copy.                             *)
(***************************************************************************)
TokensOf(kind) == {workspace.domains[kind][i].token : i \in DOMAIN workspace.domains[kind]}

NoDomainLost ==
  [][\A kind \in Lists : \A i \in DOMAIN workspace.domains[kind] :
       workspace.domains[kind][i].token \notin TokensOf(kind)' =>
         \E q \in Requests : /\ request[q].at = "removing"
                             /\ request[q].host = workspace.domains[kind][i].host]_vars
=============================================================================
