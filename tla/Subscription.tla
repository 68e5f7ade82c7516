----------------------------- MODULE Subscription -----------------------------
(***************************************************************************)
(* Billing of one workspace (controllers/billingController.js): starting a *)
(* subscription or a one-off payment link at Razorpay, cancelling,         *)
(* synchronising, and the webhooks by which Razorpay reports what became   *)
(* of a checkout.                                                          *)
(*                                                                         *)
(* A reference is drawn per checkout and never again, and Razorpay makes   *)
(* at most one subscription or link of it, so a number stands for all      *)
(* three: the reference, the BillingRecord and the provider's object.  0   *)
(* is the empty string.  The number of an event is its id and its          *)
(* created_at.                                                             *)
(*                                                                         *)
(* Documents are read, changed in memory and saved.  A save writes the     *)
(* fields that differ from those read (SaveFields); assigning the spread   *)
(* of billing writes all of billing (SaveBilling); assigning an array adds *)
(* the version of the document to the filter (SaveRecord).                 *)
(***************************************************************************)
EXTENDS Naturals, Sequences, FiniteSets

CONSTANTS
  Plans,       \* the plans sold by subscription
  Free,        \* the plan of a workspace that never paid
  Tabs,        \* requests that start a checkout: tabs, and retries in them
  Handlers,    \* webhook, sync and cancel requests being handled
  MaxRefs,     \* bound: checkouts ever started
  MaxLinks,    \* bound: how many of them are payment links
  MaxEvents,   \* bound: events the provider emits
  Torn         \* whether other requests may write between a handler's read
               \* and its saves, and a handler may end between two saves

ASSUME SubscriptionAssumption ==
  /\ Free \notin Plans
  /\ MaxRefs \in Nat
  /\ MaxLinks \in Nat
  /\ MaxEvents \in Nat
  /\ Torn \in BOOLEAN

VARIABLES
  workspace,   \* Workspace.plan and Workspace.billing
  record,      \* record[r]: the BillingRecord of reference r
  provider,    \* provider[r]: what Razorpay made of r
  events,      \* the events it emitted, each delivered any number of times
  tab,         \* tab[t]: where createSubscription or createPaymentLink is
  handler      \* handler[h]: where a webhook, sync or cancel request is

vars == <<workspace, record, provider, events, tab, handler>>

Refs == 1..MaxRefs
EventIds == 1..MaxEvents

Final == {"cancelled", "expired"}
BlockingBillingStatuses == {"pending", "active", "past_due"}

Workspace == [plan : Plans \cup {Free},
              status : BlockingBillingStatuses \cup {"inactive"},
              sub : 0..MaxRefs,      \* providerSubscriptionId
              ref : 0..MaxRefs]      \* subscriptionCreationReference

RecordStatus == Final \cup {"created", "authenticated", "active", "pending",
                            "halted", "paid", "failed"}

\* drawn: only the reference exists.  sub: subscriptionId is known.  paid: paidAt of a payment link.
Record == [kind : {"none", "drawn", "subscription", "link"}, plan : Plans \cup {Free},
           status : RecordStatus, sub : BOOLEAN, paid : BOOLEAN,
           last : 0..MaxEvents, seen : SUBSET EventIds]

\* asked: the request is under way or lost.  refused: answered with a 4xx.
Provider == [status : {"none", "asked", "refused"} \cup (RecordStatus \ {"failed"}),
             paid : BOOLEAN]

\* The last part of an event's name says what happened to the object named before it.
EventNames == {"authenticated", "activated", "charged", "pending", "halted",
               "cancelled", "expired", "paid"}

\* The code treats completed as it treats cancelled, and partially_paid as
\* created; they are left out.
mapWebhookStatus(name) == IF name \in {"activated", "charged"} THEN "active" ELSE name

\* bare: an invoice event, without a subscription entity.
Event == [ref : Refs, name : EventNames, paid : BOOLEAN, bare : BOOLEAN]

Tab == [at : {"idle", "claimed", "recorded", "asked", "answered", "saved", "refused", "unwinding"},
        ref : 0..MaxRefs]

Handler == [at : {"idle", "asking", "cancelling", "read", "loaded", "saved",
                  "released", "agreed", "marked"},
            ref : 0..MaxRefs, event : 0..MaxEvents, old : Record, new : Record,
            ws : Workspace]

NoWorkspace == [plan |-> Free, status |-> "inactive", sub |-> 0, ref |-> 0]
NoRecord == [kind |-> "none", plan |-> Free, status |-> "created", sub |-> FALSE,
             paid |-> FALSE, last |-> 0, seen |-> {}]
IdleTab == [at |-> "idle", ref |-> 0]
IdleHandler == [at |-> "idle", ref |-> 0, event |-> 0, old |-> NoRecord,
                new |-> NoRecord, ws |-> NoWorkspace]

Init ==
  /\ workspace = NoWorkspace
  /\ record = [r \in Refs |-> NoRecord]
  /\ provider = [r \in Refs |-> [status |-> "none", paid |-> FALSE]]
  /\ events = <<>>
  /\ tab = [t \in Tabs |-> IdleTab]
  /\ handler = [h \in Handlers |-> IdleHandler]

\* A request other than handler h may write.
Undisturbed(h) == Torn \/ \A g \in Handlers \ {h} : handler[g].at = "idle"
Quiet == Torn \/ \A h \in Handlers : handler[h].at = "idle"

TabGoes(t, at) == tab' = [tab EXCEPT ![t].at = at]
TabEnds(t) == tab' = [tab EXCEPT ![t] = IdleTab]
HandlerGoes(h, at) == handler' = [handler EXCEPT ![h].at = at]
HandlerEnds(h) == handler' = [handler EXCEPT ![h] = IdleHandler]

-----------------------------------------------------------------------------
(* createSubscription *)

Fresh(r) == record[r].kind = "none" /\ \A q \in 1..(r - 1) : record[q].kind # "none"

(***************************************************************************)
(* The atomic findOneAndUpdate.  A request that loses it answers with the  *)
(* existing checkout or a 409 and changes nothing.                         *)
(***************************************************************************)
ClaimCreation(t, plan) ==
  \E r \in Refs :
    /\ tab[t].at = "idle" /\ Fresh(r) /\ Quiet
    /\ workspace.status \notin BlockingBillingStatuses
    /\ workspace.ref = 0
    /\ workspace' = [workspace EXCEPT !.ref = r]
    /\ record' = [record EXCEPT ![r].kind = "drawn", ![r].plan = plan]
    /\ tab' = [tab EXCEPT ![t] = [at |-> "claimed", ref |-> r]]
    /\ UNCHANGED <<provider, events, handler>>

\* The record is inserted and the request sent, or an error comes first.
AskForSubscription(t) ==
  /\ tab[t].at = "claimed"
  /\ \/ /\ record' = [record EXCEPT ![tab[t].ref].kind = "subscription"]
        /\ provider' = [provider EXCEPT ![tab[t].ref].status = "asked"]
        /\ TabGoes(t, "asked")
     \/ /\ TabGoes(t, "unwinding")
        /\ UNCHANGED <<record, provider>>
  /\ UNCHANGED <<workspace, events, handler>>

\* createPaymentLink claims nothing: it inserts its record ...
CreatePaymentLink(t, plan) ==
  \E r \in Refs :
    /\ tab[t].at = "idle" /\ Fresh(r)
    /\ Cardinality({q \in Refs : record[q].kind = "link"}) < MaxLinks
    /\ record' = [record EXCEPT ![r].kind = "link", ![r].plan = plan]
    /\ tab' = [tab EXCEPT ![t] = [at |-> "recorded", ref |-> r]]
    /\ UNCHANGED <<workspace, provider, events, handler>>

\* ... and asks for a link, without cleaning up when that fails.
AskForPaymentLink(t) ==
  /\ tab[t].at = "recorded"
  /\ provider' = [provider EXCEPT ![tab[t].ref].status = "asked"]
  /\ TabGoes(t, "asked")
  /\ UNCHANGED <<workspace, record, events, handler>>

(***************************************************************************)
(* An answer with an id; a 4xx; or a timeout, a 5xx or an answer that      *)
(* cannot be used, upon which the claim is kept and the request ends.      *)
(***************************************************************************)
ReceiveAnswer_ReleaseOn5xx(t) ==
  LET status == provider[tab[t].ref].status IN
  /\ tab[t].at = "asked"
  /\ \/ status \notin {"asked", "refused"} /\ TabGoes(t, "answered")
     \/ TabGoes(t, "refused")
  /\ UNCHANGED <<workspace, record, provider, events, handler>>

ReceiveAnswer(t) ==
  LET status == provider[tab[t].ref].status IN
  /\ tab[t].at = "asked"
  /\ \/ status \notin {"asked", "refused"} /\ TabGoes(t, "answered")
     \/ status = "refused" /\ TabGoes(t, "refused")
     \/ TabEnds(t)
  /\ UNCHANGED <<workspace, record, provider, events, handler>>

\* The subscription and its status as Razorpay has just created it, which is
\* the status the record has; so the save writes the id only.
SaveCheckout(t) ==
  LET r == tab[t].ref IN
  /\ tab[t].at = "answered" /\ record[r].kind = "subscription"
  /\ record' = [record EXCEPT ![r].sub = TRUE]
  /\ TabGoes(t, "saved")
  /\ UNCHANGED <<workspace, provider, events, handler>>

\* The id, by which nothing is looked up here, and the status the record has.
SavePaymentLink(t) ==
  /\ tab[t].at = "answered" /\ record[tab[t].ref].kind = "link"
  /\ TabEnds(t)
  /\ UNCHANGED <<workspace, record, provider, events, handler>>

AttachSubscription_ProviderStatus(t) ==
  LET r == tab[t].ref IN
  /\ tab[t].at = "saved" /\ Quiet
  /\ workspace' = IF workspace.ref = r
                  THEN [workspace EXCEPT !.status = provider[r].status, !.sub = r]
                  ELSE workspace
  /\ TabEnds(t)
  /\ UNCHANGED <<record, provider, events, handler>>

\* A request that lost its claim reports an unknown outcome.
AttachSubscription(t) ==
  LET r == tab[t].ref IN
  /\ tab[t].at = "saved" /\ Quiet
  /\ workspace' = IF workspace.ref = r
                  THEN [workspace EXCEPT !.status = "pending", !.sub = r]
                  ELSE workspace
  /\ TabEnds(t)
  /\ UNCHANGED <<record, provider, events, handler>>

SaveFailed(t) ==
  LET r == tab[t].ref IN
  /\ tab[t].at = "refused"
  /\ record' = [record EXCEPT ![r].status = "failed"]
  /\ IF record[r].kind = "subscription" THEN TabGoes(t, "unwinding") ELSE TabEnds(t)
  /\ UNCHANGED <<workspace, provider, events, handler>>

Released(r) == IF workspace.ref = r THEN [workspace EXCEPT !.ref = 0] ELSE workspace

ReleaseSubscriptionCreation(t) ==
  /\ tab[t].at = "unwinding" /\ Quiet
  /\ workspace' = Released(tab[t].ref)
  /\ TabEnds(t)
  /\ UNCHANGED <<record, provider, events, handler>>

\* Its process dies, or the database fails it: the claim is kept.
TabDies(t) ==
  /\ tab[t].at # "idle"
  /\ TabEnds(t)
  /\ UNCHANGED <<workspace, record, provider, events, handler>>

-----------------------------------------------------------------------------
(* Razorpay.  A request may be carried out after its sender gave up. *)

Successors(kind, status) ==
  CASE status = "created" /\ kind = "link" -> {"paid", "expired"}
    [] status = "created" -> {"authenticated", "active", "expired"}
    [] status = "authenticated" -> {"active", "expired"}
    [] status = "active" -> {"active", "pending", "cancelled"}
    [] status = "pending" -> {"active", "halted"}
    [] status = "halted" -> {"active", "cancelled"}
    [] OTHER -> {}

ProviderAnswers(r) ==
  /\ provider[r].status = "asked"
  /\ \E s \in {"created", "refused"} : provider' = [provider EXCEPT ![r].status = s]
  /\ UNCHANGED <<workspace, record, events, tab, handler>>

Reported(r, s) ==
  IF s # "active" THEN s
  ELSE IF provider[r].status \in {"created", "authenticated"} THEN "activated" ELSE "charged"

\* A step of the subscription or link, and the event that reports it.
Advance(r, s) ==
  LET paid == provider[r].paid \/ s = "paid" \/ (s = "active" /\ provider[r].status # "created")
  IN /\ Len(events) < MaxEvents
     /\ provider' = [provider EXCEPT ![r] = [status |-> s, paid |-> paid]]
     /\ \E bare \in IF s = "active" /\ paid THEN BOOLEAN ELSE {FALSE} :
          events' = Append(events, [ref |-> r, name |-> IF bare THEN "paid" ELSE Reported(r, s),
                                    paid |-> paid, bare |-> bare])

ProviderAdvances(r) ==
  \E s \in Successors(record[r].kind, provider[r].status) :
    Advance(r, s) /\ UNCHANGED <<workspace, record, tab, handler>>

-----------------------------------------------------------------------------
(* Saves *)

\* The fields in which the changed copy differs from the one read.
SaveFields(stored, read, changed) ==
  [f \in DOMAIN stored |-> IF changed[f] # read[f] THEN changed[f] ELSE stored[f]]

SaveBilling(read, changed) ==
  [changed EXCEPT !.plan = IF changed.plan # read.plan THEN changed.plan ELSE workspace.plan]

-----------------------------------------------------------------------------
(* handleRazorpayWebhook *)

NextStatus(e) == mapWebhookStatus(events[e].name)

OutOfDate_DuplicatesOnly(rec, e) == e \in rec.seen

\* Seen before, older than what the record knows, or contrary to its end.
OutOfDate(rec, e) ==
  \/ e \in rec.seen
  \/ e < rec.last
  \/ /\ rec.status \in Final
     /\ NextStatus(e) \in {"active", "paid", "authenticated", "pending"}

Unpaid_NotChecked(e) == FALSE

\* Activated before the first cycle was paid.
Unpaid(e) == NextStatus(e) = "active" /\ ~events[e].paid

\* An invoice event finds its record by the subscription's id only.
ReceiveWebhook(h, e) ==
  LET r == events[e].ref
      old == record[r]
      subscription == old.kind = "subscription"
      paidLink == ~subscription /\ NextStatus(e) = "paid" /\ ~old.paid
      new == [old EXCEPT !.status = NextStatus(e), !.last = e, !.seen = @ \cup {e},
                         !.sub = @ \/ (subscription /\ ~events[e].bare),
                         !.paid = @ \/ paidLink]
  IN /\ e \in 1..Len(events)
     /\ handler[h].at = "idle" /\ Undisturbed(h)
     /\ events[e].bare => old.sub
     /\ ~OutOfDate(old, e) /\ ~Unpaid(e)
     /\ handler' = [handler EXCEPT ![h] =
          [IdleHandler EXCEPT !.at = IF subscription \/ paidLink THEN "read" ELSE "released",
                              !.ref = r, !.event = e, !.old = old, !.new = new]]
     /\ UNCHANGED <<workspace, record, provider, events, tab>>

(* applySubscriptionState, and the branch for a payment link *)

LoadWorkspace(h) ==
  /\ handler[h].at = "read"
  /\ handler' = [handler EXCEPT ![h].at = "loaded", ![h].ws = workspace]
  /\ UNCHANGED <<workspace, record, provider, events, tab>>

Own(h) == IF handler[h].new.sub THEN handler[h].ref ELSE 0

\* An old subscription must not overwrite a newer checkout.
Superseded(h) ==
  /\ handler[h].new.kind = "subscription"
  /\ handler[h].ws.sub \notin {0, Own(h)}

Activated(h) ==
  LET ws == handler[h].ws
      rec == handler[h].new
      paid == [ws EXCEPT !.plan = rec.plan, !.status = "active"]
  IN IF rec.kind = "link" THEN paid
     ELSE [paid EXCEPT !.sub = Own(h), !.ref = handler[h].ref]

SaveWorkspace(h) ==
  LET ws == handler[h].ws
      status == handler[h].new.status
      Write(w) == workspace' = w
      Goes(at) == handler' = [handler EXCEPT ![h].at = at, ![h].ws = NoWorkspace]
  IN /\ handler[h].at = "loaded"
     /\ \/ /\ Superseded(h) \/ status \in {"created", "authenticated", "pending"}
           /\ Goes("released") /\ UNCHANGED workspace
        \/ /\ ~Superseded(h) /\ status \in {"active", "paid"}
           /\ Write(SaveBilling(ws, Activated(h))) /\ Goes("released")
        \/ /\ ~Superseded(h) /\ status = "halted"
           /\ Write(SaveFields(workspace, ws,
                               [ws EXCEPT !.status = "past_due", !.sub = Own(h)]))
           /\ Goes("released")
        \/ /\ ~Superseded(h) /\ status \in Final
           /\ Write(SaveFields(workspace, ws, [ws EXCEPT !.status = "inactive", !.sub = 0]))
           /\ Goes("saved")
     /\ UNCHANGED <<record, provider, events, tab>>

ReleaseClaim(h) ==
  /\ handler[h].at = "saved"
  /\ workspace' = Released(handler[h].ref)
  /\ HandlerGoes(h, "released")
  /\ UNCHANGED <<record, provider, events, tab>>

\* A webhook replaces webhookEventIds, so its save carries the version, and
\* only such saves change the version.  MaxEvents is below the 25 ids kept.
VersionMatches(h) ==
  handler[h].event # 0 => record[handler[h].ref].seen = handler[h].old.seen

SaveRecord(h) ==
  LET r == handler[h].ref IN
  /\ handler[h].at = "released"
  /\ record' = IF VersionMatches(h)
               THEN [record EXCEPT ![r] = SaveFields(@, handler[h].old, handler[h].new)]
               ELSE record
  /\ HandlerEnds(h)
  /\ UNCHANGED <<workspace, provider, events, tab>>

-----------------------------------------------------------------------------
(* syncSubscription and cancelSubscription *)

AskForStatus(h) ==
  LET r == workspace.sub IN
  /\ handler[h].at = "idle" /\ Undisturbed(h)
  /\ r # 0 /\ record[r].sub
  /\ handler' = [handler EXCEPT ![h] =
       [IdleHandler EXCEPT !.at = "asking", !.ref = r, !.old = record[r]]]
  /\ UNCHANGED <<workspace, record, provider, events, tab>>

SyncSubscription(h) ==
  LET now == provider[handler[h].ref] IN
  /\ handler[h].at = "asking"
  /\ ~(now.status = "active" /\ ~now.paid)
  /\ handler' = [handler EXCEPT ![h].at = "read",
                                ![h].new = [handler[h].old EXCEPT !.status = now.status]]
  /\ UNCHANGED <<workspace, record, provider, events, tab>>

AskToCancel(h) ==
  /\ handler[h].at = "idle" /\ Undisturbed(h)
  /\ workspace.sub # 0
  /\ handler' = [handler EXCEPT ![h] =
       [IdleHandler EXCEPT !.at = "cancelling", !.ref = workspace.sub, !.ws = workspace]]
  /\ UNCHANGED <<workspace, record, provider, events, tab>>

\* Razorpay agrees to end a running subscription with its cycle, and any
\* other at once.
CancelAgreed(h) ==
  LET r == handler[h].ref IN
  /\ handler[h].at = "cancelling"
  /\ \/ /\ provider[r].status = "active" /\ UNCHANGED <<provider, events>>
        /\ handler' = [handler EXCEPT ![h].at = "agreed", ![h].new.status = "active"]
     \/ /\ provider[r].status \in {"created", "authenticated", "pending", "halted"}
        /\ Advance(r, "cancelled")
        /\ handler' = [handler EXCEPT ![h].at = "agreed", ![h].new.status = "cancelled"]
  /\ UNCHANGED <<workspace, record, tab>>

\* cancelAtCycleEnd is set in a spread of billing, which is written unless it
\* was set before.  The field itself is left out, as the dates are.
SaveCancellation(h) ==
  LET ws == handler[h].ws IN
  /\ handler[h].at = "agreed"
  /\ \E written \in BOOLEAN :
       workspace' = IF written THEN SaveBilling(ws, ws) ELSE workspace
  /\ handler' = [handler EXCEPT ![h].at = "marked", ![h].ws = NoWorkspace]
  /\ UNCHANGED <<record, provider, events, tab>>

MarkCancelled(h) ==
  LET r == handler[h].ref IN
  /\ handler[h].at = "marked"
  /\ record' = IF record[r].sub
               THEN [record EXCEPT ![r].status = handler[h].new.status] ELSE record
  /\ HandlerEnds(h)
  /\ UNCHANGED <<workspace, provider, events, tab>>

\* A 4xx or no answer from Razorpay, an error of the database, a crash.
HandlerFails(h) ==
  /\ handler[h].at # "idle"
  /\ Torn \/ handler[h].at \notin {"saved", "released", "marked"}
  /\ HandlerEnds(h)
  /\ UNCHANGED <<workspace, record, provider, events, tab>>

-----------------------------------------------------------------------------
TabStep(t) ==
  \/ \E plan \in Plans : ClaimCreation(t, plan) \/ CreatePaymentLink(t, plan)
  \/ AskForSubscription(t) \/ AskForPaymentLink(t) \/ ReceiveAnswer(t)
  \/ SaveCheckout(t) \/ SavePaymentLink(t) \/ AttachSubscription(t) \/ SaveFailed(t) \/ ReleaseSubscriptionCreation(t)
  \/ TabDies(t)

HandlerStep(h) ==
  \/ \E e \in EventIds : ReceiveWebhook(h, e)
  \/ LoadWorkspace(h) \/ SaveWorkspace(h) \/ ReleaseClaim(h) \/ SaveRecord(h)
  \/ AskForStatus(h) \/ SyncSubscription(h)
  \/ AskToCancel(h) \/ CancelAgreed(h) \/ SaveCancellation(h) \/ MarkCancelled(h)
  \/ HandlerFails(h)

Next ==
  \/ \E t \in Tabs : TabStep(t)
  \/ \E r \in Refs : ProviderAnswers(r) \/ ProviderAdvances(r)
  \/ \E h \in Handlers : HandlerStep(h)

Spec == Init /\ [][Next]_vars

-----------------------------------------------------------------------------
TypeOK ==
  /\ workspace \in Workspace
  /\ record \in [Refs -> Record]
  /\ provider \in [Refs -> Provider]
  /\ events \in Seq(Event) /\ Len(events) <= MaxEvents
  /\ tab \in [Tabs -> Tab]
  /\ handler \in [Handlers -> Handler]

\* An agreement under which Razorpay charges, may charge, or may still be made.
Agreements ==
  {r \in Refs : /\ record[r].kind = "subscription"
                /\ provider[r].status \in {"asked", "created", "authenticated",
                                           "active", "pending", "halted"}}

(***************************************************************************)
(* "Retain the claim so a retry cannot create a second charge agreement"   *)
(* (billingController.js:466): however many tabs and retries there are,    *)
(* whatever answers are lost, Razorpay never holds two agreements.  An     *)
(* ended record that a late "halted" event revives is the exception        *)
(* (subscription_late.cfg): it takes three checkouts and five events.      *)
(***************************************************************************)
OneAgreement == Cardinality(Agreements) <= 1

(***************************************************************************)
(* A workspace has a paid plan only if Razorpay was paid for a checkout of *)
(* that plan.                                                              *)
(***************************************************************************)
PaidBeforeEntitled ==
  workspace.plan # Free =>
    \E r \in Refs : provider[r].paid /\ record[r].plan = workspace.plan

(***************************************************************************)
(* A record that has ended does not become active again: late and repeated *)
(* webhooks, a sync, a cancellation and the answer to the creation all     *)
(* leave it ended (the test at billingController.test.js:649), but for     *)
(* "halted", which the list at billingController.js:867 lets in.           *)
(***************************************************************************)
EndedStaysEnded ==
  [][\A r \in Refs : record[r].status \in Final =>
       record'[r].status \in Final \cup {"halted"}]_vars

=============================================================================
