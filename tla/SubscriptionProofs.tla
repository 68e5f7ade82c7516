-------------------------- MODULE SubscriptionProofs --------------------------
(***************************************************************************)
(* Proof that a workspace has a paid plan only after a payment, and that a *)
(* record that has ended begins again only by a save of what was read      *)
(* before its end: for any number of plans, tabs, handlers, checkouts and  *)
(* events, whether or not handlers disturb each other between their reads  *)
(* and saves, or die between two saves (Torn).                             *)
(***************************************************************************)
EXTENDS Subscription, TLAPS

USE SubscriptionAssumption

\* A checkout has been asked for at Razorpay, and it has made something of it.
Placed(r) == provider[r].status # "none"
Known(r) == provider[r].status \notin {"none", "asked", "refused"}

RecordInv ==
  \A r \in Refs :
    /\ Placed(r) => record[r].kind \in {"subscription", "link"}
    /\ provider[r].paid => Placed(r)
    /\ provider[r].status = "paid" => provider[r].paid
    /\ record[r].sub => Known(r)

\* What an event says was paid, was paid.
EventInv ==
  \A e \in 1..Len(events) :
    /\ events[e].ref \in Refs /\ Known(events[e].ref)
    /\ events[e].paid => provider[events[e].ref].paid
    /\ events[e].name = "paid" => events[e].paid

\* A tab's reference is drawn for it alone, and asked for once.
TabOK(t) ==
  /\ tab[t].at # "idle" => tab[t].ref \in Refs /\ record[tab[t].ref].kind # "none"
  /\ tab[t].at \in {"claimed", "recorded"} => ~Placed(tab[t].ref)
  /\ tab[t].at \in {"recorded", "asked", "answered"} =>
       record[tab[t].ref].kind \in {"subscription", "link"}
  /\ tab[t].at = "asked" => Placed(tab[t].ref)
  /\ tab[t].at = "answered" => Known(tab[t].ref)

TabInv ==
  /\ \A t \in Tabs : TabOK(t)
  /\ \A t, u \in Tabs :
       tab[t].at # "idle" /\ tab[u].at # "idle" /\ tab[t].ref = tab[u].ref => t = u

(***************************************************************************)
(* A handler's copies name the plan of the stored record, which is drawn   *)
(* with the reference and never changes; and it grants a plan only for a   *)
(* checkout that was paid.                                                 *)
(***************************************************************************)
Reading(h) == handler[h].at \in {"asking", "read", "loaded", "saved", "released"}

HandlerOK(h) ==
  /\ Reading(h) =>
       /\ handler[h].ref \in Refs
       /\ Known(handler[h].ref)
       /\ handler[h].old.plan = record[handler[h].ref].plan
  /\ Reading(h) /\ handler[h].at # "asking" =>
       /\ handler[h].new.plan = handler[h].old.plan
       /\ handler[h].new.kind = handler[h].old.kind
  /\ handler[h].at \in {"read", "loaded"} /\ handler[h].new.status \in {"active", "paid"} =>
       provider[handler[h].ref].paid
  /\ handler[h].at = "cancelling" => handler[h].ref \in Refs

HandlerInv == \A h \in Handlers : HandlerOK(h)

IInv == /\ TypeOK /\ RecordInv /\ EventInv /\ TabInv /\ HandlerInv
        /\ PaidBeforeEntitled

-----------------------------------------------------------------------------
(* Types *)

LEMMA Constants ==
  /\ NoWorkspace \in Workspace /\ NoRecord \in Record
  /\ IdleTab \in Tab /\ IdleHandler \in Handler
  /\ IdleTab.at = "idle" /\ IdleHandler.at = "idle"
<1>1. NoWorkspace \in Workspace
  BY DEF NoWorkspace, Workspace
<1>2. NoRecord \in Record
  BY DEF NoRecord, Record, RecordStatus, Final
<1>3. IdleTab \in Tab /\ IdleTab.at = "idle"
  BY DEF IdleTab, Tab
<1>4. IdleHandler \in Handler /\ IdleHandler.at = "idle"
  BY <1>1, <1>2 DEF IdleHandler, Handler
<1> QED
  BY <1>1, <1>2, <1>3, <1>4

\* A save writes the fields of the changed copy that differ from the one read.
LEMMA SavedWorkspace ==
  ASSUME NEW stored \in Workspace, NEW read \in Workspace, NEW changed \in Workspace
  PROVE  /\ SaveFields(stored, read, changed) \in Workspace
         /\ changed.plan = read.plan => SaveFields(stored, read, changed).plan = stored.plan
<1>1. DOMAIN stored = {"plan", "status", "sub", "ref"}
  BY DEF Workspace
<1>2. SaveFields(stored, read, changed) \in Workspace
  BY <1>1 DEF SaveFields, Workspace
<1>3. changed.plan = read.plan => SaveFields(stored, read, changed).plan = stored.plan
  BY <1>1 DEF SaveFields, Workspace
<1> QED
  BY <1>2, <1>3

LEMMA SavedRecord ==
  ASSUME NEW stored \in Record, NEW read \in Record, NEW changed \in Record
  PROVE  /\ SaveFields(stored, read, changed) \in Record
         /\ changed.plan = read.plan => SaveFields(stored, read, changed).plan = stored.plan
         /\ changed.kind = read.kind => SaveFields(stored, read, changed).kind = stored.kind
<1>1. DOMAIN stored = {"kind", "plan", "status", "sub", "paid", "last", "seen"}
  BY DEF Record
<1>2. SaveFields(stored, read, changed) \in Record
  BY <1>1 DEF SaveFields, Record
<1>3. changed.plan = read.plan => SaveFields(stored, read, changed).plan = stored.plan
  BY <1>1 DEF SaveFields, Record
<1>4. changed.kind = read.kind => SaveFields(stored, read, changed).kind = stored.kind
  BY <1>1 DEF SaveFields, Record
<1> QED
  BY <1>2, <1>3, <1>4

LEMMA SavedBilling ==
  ASSUME TypeOK, NEW read \in Workspace, NEW changed \in Workspace
  PROVE  /\ SaveBilling(read, changed) \in Workspace
         /\ SaveBilling(read, changed).plan
              = IF changed.plan # read.plan THEN changed.plan ELSE workspace.plan
  BY DEF SaveBilling, Workspace, TypeOK

\* What the tabs and the handlers become.
LEMMA TabMoves ==
  ASSUME TypeOK, NEW t \in Tabs
  PROVE  /\ TabEnds(t) =>
              /\ tab' \in [Tabs -> Tab] /\ tab'[t].at = "idle"
              /\ \A u \in Tabs : u # t => tab'[u] = tab[u]
         /\ \A at \in {"unwinding", "asked", "answered", "refused", "saved"} :
              TabGoes(t, at) =>
                /\ tab' \in [Tabs -> Tab] /\ tab'[t].at = at /\ tab'[t].ref = tab[t].ref
                /\ \A u \in Tabs : u # t => tab'[u] = tab[u]
<1>1. ASSUME TabEnds(t)
      PROVE  /\ tab' \in [Tabs -> Tab] /\ tab'[t].at = "idle"
             /\ \A u \in Tabs : u # t => tab'[u] = tab[u]
  <2> QED
    BY <1>1, Constants DEF TabEnds, TypeOK
<1>2. ASSUME NEW at \in {"unwinding", "asked", "answered", "refused", "saved"}, TabGoes(t, at)
      PROVE  /\ tab' \in [Tabs -> Tab] /\ tab'[t].at = at /\ tab'[t].ref = tab[t].ref
             /\ \A u \in Tabs : u # t => tab'[u] = tab[u]
  BY <1>2 DEF TabGoes, TypeOK, Tab
<1> QED
  BY <1>1, <1>2

LEMMA HandlerMoves ==
  ASSUME TypeOK, NEW h \in Handlers
  PROVE  /\ HandlerEnds(h) =>
              /\ handler' \in [Handlers -> Handler] /\ handler'[h].at = "idle"
              /\ \A g \in Handlers : g # h => handler'[g] = handler[g]
         /\ HandlerGoes(h, "released") =>
              /\ handler' \in [Handlers -> Handler] /\ handler'[h].at = "released"
              /\ handler'[h].ref = handler[h].ref
              /\ handler'[h].old = handler[h].old /\ handler'[h].new = handler[h].new
              /\ \A g \in Handlers : g # h => handler'[g] = handler[g]
<1>1. ASSUME HandlerEnds(h)
      PROVE  /\ handler' \in [Handlers -> Handler] /\ handler'[h].at = "idle"
             /\ \A g \in Handlers : g # h => handler'[g] = handler[g]
  BY <1>1, Constants DEF HandlerEnds, TypeOK
<1>2. ASSUME HandlerGoes(h, "released")
      PROVE  /\ handler' \in [Handlers -> Handler] /\ handler'[h].at = "released"
             /\ handler'[h].ref = handler[h].ref
             /\ handler'[h].old = handler[h].old /\ handler'[h].new = handler[h].new
             /\ \A g \in Handlers : g # h => handler'[g] = handler[g]
  BY <1>2 DEF HandlerGoes, TypeOK, Handler
<1> QED
  BY <1>1, <1>2

LEMMA ReleasedTyped ==
  ASSUME TypeOK, NEW r
  PROVE  Released(r) \in Workspace /\ Released(r).plan = workspace.plan
  BY DEF TypeOK, Released, Workspace

LEMMA RecordSet ==
  ASSUME TypeOK, NEW r \in Refs, NEW new \in Record, record' = [record EXCEPT ![r] = new]
  PROVE  /\ record' \in [Refs -> Record] /\ record'[r] = new
         /\ \A q \in Refs : q # r => record'[q] = record[q]
  BY DEF TypeOK

-----------------------------------------------------------------------------
(* What every step keeps *)

\* A drawn reference stays drawn, for its plan; a payment stays made.
Stable ==
  \A r \in Refs :
    /\ record[r].kind # "none" => record'[r].kind # "none" /\ record'[r].plan = record[r].plan
    /\ record[r].kind \in {"subscription", "link"} => record'[r].kind \in {"subscription", "link"}
    /\ Placed(r) => Placed(r)'
    /\ Known(r) => Known(r)'
    /\ provider[r].paid => provider'[r].paid

LEMMA EventsKept ==
  ASSUME IInv, Stable, UNCHANGED events
  PROVE  EventInv'
  BY DEF IInv, EventInv, Stable

LEMMA EntitledKept ==
  ASSUME IInv, Stable, workspace'.plan = workspace.plan
  PROVE  PaidBeforeEntitled'
<1> SUFFICES ASSUME workspace'.plan # Free
             PROVE  \E r \in Refs : provider'[r].paid /\ record'[r].plan = workspace'.plan
  BY DEF PaidBeforeEntitled
<1>1. PICK r \in Refs : provider[r].paid /\ record[r].plan = workspace.plan
  BY DEF IInv, PaidBeforeEntitled
<1>2. record[r].kind # "none"
  BY <1>1 DEF IInv, RecordInv
<1> QED
  BY <1>1, <1>2 DEF Stable

LEMMA TabKept ==
  ASSUME IInv, Stable, NEW t \in Tabs, tab'[t] = tab[t],
         tab[t].at \in {"claimed", "recorded"} /\ ~Placed(tab[t].ref) =>
           provider'[tab[t].ref].status = "none"
  PROVE  TabOK(t)'
<1>1. TabOK(t)
  BY DEF IInv, TabInv
<1> QED
  BY <1>1 DEF TabOK, Stable, Placed

LEMMA HandlerKept ==
  ASSUME IInv, Stable, NEW h \in Handlers, handler'[h] = handler[h]
  PROVE  HandlerOK(h)'
<1>1. HandlerOK(h)
  BY DEF IInv, HandlerInv
<1>2. Known(handler[h].ref) => Placed(handler[h].ref)
  BY DEF Known, Placed
<1>3. \A r \in Refs : Placed(r) => record'[r].plan = record[r].plan
  BY DEF Stable, IInv, RecordInv
<1> QED
  BY <1>1, <1>2, <1>3 DEF HandlerOK, Reading, Stable

\* Neither records nor Razorpay's side change.
LEMMA StableWhenUnchanged ==
  ASSUME IInv, UNCHANGED <<record, provider>>
  PROVE  Stable /\ RecordInv'
  BY DEF Stable, Placed, Known, IInv, RecordInv

\* Record r is written, its plan and kind apart.
LEMMA RecordWritten ==
  ASSUME IInv, NEW r \in Refs, record' \in [Refs -> Record],
         \A q \in Refs : q # r => record'[q] = record[q],
         UNCHANGED provider,
         record'[r].plan = record[r].plan \/ record[r].kind = "none",
         \/ record'[r].kind = record[r].kind
         \/ record[r].kind = "none" /\ record'[r].kind # "none"
         \/ record'[r].kind \in {"subscription", "link"},
         record'[r].sub => record[r].sub \/ Known(r)
  PROVE  Stable /\ RecordInv'
<1>1. Stable
  BY DEF Stable, Placed, Known, IInv, RecordInv
<1>2. RecordInv'
  BY DEF RecordInv, Placed, Known, IInv
<1> QED
  BY <1>1, <1>2

\* One tab moves; what the others rely on is not taken from them.
LEMMA TabsKept ==
  ASSUME IInv, Stable, NEW t \in Tabs, \A u \in Tabs : u # t => tab'[u] = tab[u],
         TabOK(t)',
         tab'[t].at # "idle" =>
           \/ tab[t].at # "idle" /\ tab'[t].ref = tab[t].ref
           \/ record[tab'[t].ref].kind = "none",
         \A q \in Refs : ~Placed(q) =>
           \/ provider'[q].status = "none"
           \/ tab[t].at # "idle" /\ q = tab[t].ref
  PROVE  TabInv'
<1>1. ASSUME NEW u \in Tabs PROVE TabOK(u)'
  <2>1. CASE u = t
    BY <2>1
  <2>2. CASE u # t
    <3>1. TabOK(u) /\ tab'[u] = tab[u]
      BY <2>2 DEF IInv, TabInv
    <3>2. tab[u].at # "idle" /\ tab[t].at # "idle" => tab[u].ref # tab[t].ref
      BY <2>2 DEF IInv, TabInv
    <3> QED
      BY <3>1, <3>2, TabKept DEF TabOK
  <2> QED
    BY <2>1, <2>2
<1>2. ASSUME NEW u \in Tabs, u # t, tab'[u].at # "idle", tab'[t].at # "idle"
      PROVE  tab'[u].ref # tab'[t].ref
  <2>1. tab[u].at # "idle" /\ tab'[u] = tab[u] /\ record[tab[u].ref].kind # "none"
    BY <1>2 DEF IInv, TabInv, TabOK
  <2> QED
    BY <1>2, <2>1 DEF IInv, TabInv
<1>3. \A u, v \in Tabs :
        /\ u # t /\ v # t
        /\ tab'[u].at # "idle" /\ tab'[v].at # "idle" /\ tab'[u].ref = tab'[v].ref
        => u = v
  BY DEF IInv, TabInv
<1> QED
  BY <1>1, <1>2, <1>3 DEF TabInv

-----------------------------------------------------------------------------
(* The tabs *)

\* What the step of a tab leaves to show.
LEMMA TabStepKeeps ==
  ASSUME IInv, NEW t \in Tabs, Stable, RecordInv',
         UNCHANGED <<events, handler>>,
         workspace' \in Workspace, workspace'.plan = workspace.plan,
         record' \in [Refs -> Record], provider' \in [Refs -> Provider],
         tab' \in [Tabs -> Tab], TabInv'
  PROVE  IInv'
<1>1. TypeOK'
  BY DEF IInv, TypeOK
<1>2. HandlerInv'
  BY HandlerKept DEF HandlerInv
<1> QED
  BY <1>1, <1>2, EventsKept, EntitledKept DEF IInv

LEMMA DrawStep ==
  ASSUME IInv, NEW t \in Tabs, NEW plan \in Plans,
         ClaimCreation(t, plan) \/ CreatePaymentLink(t, plan)
  PROVE  IInv'
<1>1. PICK r \in Refs, kind \in {"drawn", "link"}, at \in {"claimed", "recorded"} :
        /\ record[r].kind = "none"
        /\ record' = [record EXCEPT ![r].kind = kind, ![r].plan = plan]
        /\ tab' = [tab EXCEPT ![t] = [at |-> at, ref |-> r]]
        /\ at = "recorded" => kind = "link"
        /\ workspace' = [workspace EXCEPT !.ref = r] \/ UNCHANGED workspace
  BY DEF ClaimCreation, CreatePaymentLink, Fresh
<1>2. /\ workspace' \in Workspace /\ workspace'.plan = workspace.plan
      /\ UNCHANGED <<provider, events, handler>>
  <2>1. UNCHANGED <<provider, events, handler>>
    BY DEF ClaimCreation, CreatePaymentLink
  <2>2. CASE workspace' = [workspace EXCEPT !.ref = r]
    <3>1. r \in 0..MaxRefs
      BY DEF Refs
    <3> QED
      BY <2>1, <2>2, <3>1 DEF IInv, TypeOK, Workspace
  <2>3. CASE UNCHANGED workspace
    BY <2>1, <2>3 DEF IInv, TypeOK
  <2> QED
    BY <1>1, <2>2, <2>3
<1>3. /\ record' \in [Refs -> Record]
      /\ \A q \in Refs : q # r => record'[q] = record[q]
      /\ record'[r].kind = kind
  <2> DEFINE mid == [record[r] EXCEPT !.kind = kind]
             new == [mid EXCEPT !.plan = plan]
  <2>1. record \in [Refs -> Record]
    BY DEF IInv, TypeOK
  <2>2. mid \in Record /\ mid.kind = kind
    BY <2>1 DEF Record
  <2>3. record' = [[record EXCEPT ![r] = mid] EXCEPT ![r] = [@ EXCEPT !.plan = plan]]
    BY <1>1
  <2>4. [record EXCEPT ![r] = mid][r] = mid
    BY <2>1
  <2> HIDE DEF mid
  <2>5. new \in Record /\ new.kind = kind
    BY <2>2 DEF Record
  <2>6. /\ record' \in [Refs -> Record] /\ record'[r] = new
        /\ \A q \in Refs : q # r => record'[q] = record[q]
    BY <2>1, <2>2, <2>3, <2>4, <2>5
  <2> QED
    BY <2>5, <2>6
<1>4. Stable /\ RecordInv'
  BY <1>1, <1>2, <1>3, RecordWritten
<1>5. /\ tab' \in [Tabs -> Tab] /\ tab'[t] = [at |-> at, ref |-> r]
      /\ \A u \in Tabs : u # t => tab'[u] = tab[u]
  BY <1>1 DEF IInv, TypeOK, Tab, Refs
<1>6. TabOK(t)'
  <2>1. ~Placed(r)
    BY <1>1 DEF IInv, RecordInv
  <2> QED
    BY <1>1, <1>2, <1>3, <1>5, <2>1 DEF TabOK, Placed
<1>7. TabInv'
  BY <1>1, <1>2, <1>4, <1>5, <1>6, TabsKept DEF Placed
<1> QED
  BY <1>2, <1>3, <1>4, <1>5, <1>7, TabStepKeeps DEF IInv, TypeOK

LEMMA AskStep ==
  ASSUME IInv, NEW t \in Tabs, AskForSubscription(t) \/ AskForPaymentLink(t)
  PROVE  IInv'
<1> DEFINE r == tab[t].ref
<1>0. /\ r \in Refs /\ record[r].kind # "none" /\ tab[t].at \in {"claimed", "recorded"}
      /\ ~Placed(r)
      /\ tab[t].at = "recorded" => record[r].kind \in {"subscription", "link"}
  BY DEF AskForSubscription, AskForPaymentLink, IInv, TabInv, TabOK
<1>1. UNCHANGED <<workspace, events, handler>> /\ workspace \in Workspace
  BY DEF AskForSubscription, AskForPaymentLink, IInv, TypeOK
<1> HIDE DEF r
<1>2. CASE /\ provider' = [provider EXCEPT ![r].status = "asked"]
           /\ TabGoes(t, "asked")
           /\ \/ record' = [record EXCEPT ![r].kind = "subscription"]
              \/ UNCHANGED record /\ tab[t].at = "recorded"
  <2>1. /\ record' \in [Refs -> Record]
        /\ \A q \in Refs : q # r => record'[q] = record[q]
        /\ record'[r].plan = record[r].plan
        /\ record'[r].sub = record[r].sub
        /\ record'[r].kind \in {"subscription", "link"}
    <3>1. record \in [Refs -> Record]
      BY DEF IInv, TypeOK
    <3> DEFINE new == [record[r] EXCEPT !.kind = "subscription"]
    <3>2. CASE record' = [record EXCEPT ![r].kind = "subscription"]
      <4>1. /\ new \in Record /\ new.kind = "subscription"
            /\ new.plan = record[r].plan /\ new.sub = record[r].sub
        BY <1>0, <3>1 DEF Record
      <4>2. record' = [record EXCEPT ![r] = new]
        BY <3>2
      <4> HIDE DEF new
      <4> QED
        BY <1>0, <4>1, <4>2, RecordSet DEF IInv
    <3>3. CASE UNCHANGED record /\ tab[t].at = "recorded"
      BY <1>0, <3>1, <3>3
    <3> QED
      BY <1>2, <3>2, <3>3
  <2>2. /\ provider' \in [Refs -> Provider]
        /\ \A q \in Refs : q # r => provider'[q] = provider[q]
        /\ provider'[r].status = "asked" /\ provider'[r].paid = provider[r].paid
    BY <1>0, <1>2 DEF IInv, TypeOK, Provider
  <2>3. Stable
    BY <1>0, <2>1, <2>2 DEF Stable, Placed, Known
  <2>4. RecordInv'
    <3>1. ~record[r].sub
      BY <1>0 DEF IInv, RecordInv, Placed, Known
    <3> QED
      BY <1>0, <2>1, <2>2, <3>1 DEF RecordInv, Placed, Known, IInv
  <2>5. /\ tab' \in [Tabs -> Tab] /\ tab'[t].ref = r /\ tab'[t].at = "asked"
        /\ \A u \in Tabs : u # t => tab'[u] = tab[u]
    BY <1>2, TabMoves DEF IInv, r
  <2>6. TabOK(t)'
    BY <1>0, <2>1, <2>2, <2>5 DEF TabOK, Placed
  <2>7. TabInv'
    BY <1>0, <2>2, <2>3, <2>5, <2>6, TabsKept DEF Placed, r
  <2> QED
    BY <1>1, <2>1, <2>2, <2>3, <2>4, <2>5, <2>7, TabStepKeeps
<1>3. CASE TabGoes(t, "unwinding") /\ UNCHANGED <<record, provider>>
  <2>1. Stable /\ RecordInv'
    BY <1>3, StableWhenUnchanged
  <2>2. /\ tab' \in [Tabs -> Tab] /\ tab'[t].ref = r /\ tab'[t].at = "unwinding"
        /\ \A u \in Tabs : u # t => tab'[u] = tab[u]
    BY <1>3, TabMoves DEF IInv, r
  <2>3. TabOK(t)'
    BY <1>0, <1>3, <2>2 DEF TabOK
  <2>4. TabInv'
    BY <1>0, <1>3, <2>1, <2>2, <2>3, TabsKept DEF Placed, r
  <2> QED
    BY <1>1, <1>3, <2>1, <2>2, <2>4, TabStepKeeps DEF IInv, TypeOK
<1> QED
  BY <1>2, <1>3 DEF AskForSubscription, AskForPaymentLink, r

\* The tab goes on with its reference or ends; no record changes its kind.
LEMMA TabGoesOn ==
  ASSUME IInv, NEW t \in Tabs, tab[t].at # "idle",
         \/ TabEnds(t)
         \/ TabGoes(t, "unwinding") \/ TabGoes(t, "refused") \/ TabGoes(t, "saved")
         \/ tab[t].at = "asked" /\ Known(tab[t].ref) /\ TabGoes(t, "answered"),
         Stable, UNCHANGED provider
  PROVE  tab' \in [Tabs -> Tab] /\ TabInv'
<1>0. TabOK(t)
  BY DEF IInv, TabInv
<1>1. CASE TabEnds(t)
  <2>1. /\ tab' \in [Tabs -> Tab] /\ tab'[t].at = "idle"
        /\ \A u \in Tabs : u # t => tab'[u] = tab[u]
    BY <1>1, TabMoves DEF IInv
  <2>2. TabOK(t)'
    BY <2>1 DEF TabOK
  <2> QED
    BY <2>1, <2>2, TabsKept DEF Placed
<1>2. ASSUME NEW at \in {"unwinding", "refused", "saved", "answered"}, TabGoes(t, at),
             at = "answered" => tab[t].at = "asked" /\ Known(tab[t].ref)
      PROVE  tab' \in [Tabs -> Tab] /\ TabInv'
  <2>1. /\ tab' \in [Tabs -> Tab] /\ tab'[t].at = at /\ tab'[t].ref = tab[t].ref
        /\ \A u \in Tabs : u # t => tab'[u] = tab[u]
    BY <1>2, TabMoves DEF IInv
  <2>2. TabOK(t)'
    BY <1>0, <1>2, <2>1 DEF TabOK, Stable
  <2> QED
    BY <2>1, <2>2, TabsKept DEF Placed
<1> QED
  BY <1>1, <1>2

LEMMA AnswerStep ==
  ASSUME IInv, NEW t \in Tabs,
         \/ ReceiveAnswer(t) \/ SaveCheckout(t) \/ SavePaymentLink(t)
         \/ AttachSubscription(t) \/ SaveFailed(t) \/ ReleaseSubscriptionCreation(t)
         \/ TabDies(t)
  PROVE  IInv'
<1> DEFINE r == tab[t].ref
<1>0. /\ tab[t].at # "idle" /\ r \in Refs /\ record[r].kind # "none"
      /\ UNCHANGED <<provider, events, handler>>
  BY DEF ReceiveAnswer, SaveCheckout, SavePaymentLink, AttachSubscription, SaveFailed,
         ReleaseSubscriptionCreation, TabDies, IInv, TabInv, TabOK
<1>9. SaveCheckout(t) => Known(r)
  BY DEF SaveCheckout, IInv, TabInv, TabOK
<1>1. workspace' \in Workspace /\ workspace'.plan = workspace.plan
  <2>1. CASE AttachSubscription(t)
    BY <1>0, <2>1 DEF AttachSubscription, IInv, TypeOK, Workspace, Refs, BlockingBillingStatuses
  <2>2. CASE ReleaseSubscriptionCreation(t)
    BY <2>2, ReleasedTyped DEF ReleaseSubscriptionCreation, IInv
  <2>3. CASE UNCHANGED workspace
    BY <2>3 DEF IInv, TypeOK
  <2> QED
    BY <2>1, <2>2, <2>3 DEF ReceiveAnswer, SaveCheckout, SavePaymentLink, SaveFailed, TabDies
<1>2. Stable /\ RecordInv' /\ record' \in [Refs -> Record]
  <2>1. CASE SaveCheckout(t) \/ SaveFailed(t)
    <3>1. /\ record' \in [Refs -> Record]
          /\ \A q \in Refs : q # r => record'[q] = record[q]
          /\ record'[r].plan = record[r].plan /\ record'[r].kind = record[r].kind
          /\ SaveCheckout(t) \/ record'[r].sub = record[r].sub
      <4>1. PICK new \in Record :
              /\ record' = [record EXCEPT ![r] = new]
              /\ new.plan = record[r].plan /\ new.kind = record[r].kind
              /\ SaveCheckout(t) \/ new.sub = record[r].sub
        <5>1. PICK rec \in Record : rec = record[r]
          BY <1>0 DEF IInv, TypeOK
        <5>2. CASE SaveCheckout(t)
          <6> DEFINE new == [rec EXCEPT !.sub = TRUE]
          <6>1. new \in Record /\ new.kind = rec.kind /\ new.plan = rec.plan
            BY DEF Record
          <6>2. record' = [record EXCEPT ![r] = new]
            BY <5>1, <5>2 DEF SaveCheckout
          <6> HIDE DEF new
          <6> QED
            BY <5>1, <5>2, <6>1, <6>2
        <5>3. CASE SaveFailed(t)
          <6> DEFINE new == [rec EXCEPT !.status = "failed"]
          <6>1. new \in Record /\ new.kind = rec.kind /\ new.plan = rec.plan /\ new.sub = rec.sub
            BY DEF Record, RecordStatus
          <6>2. record' = [record EXCEPT ![r] = new]
            BY <5>1, <5>3 DEF SaveFailed
          <6> HIDE DEF new
          <6> QED
            BY <5>1, <6>1, <6>2
        <5> QED
          BY <2>1, <5>2, <5>3
      <4> QED
        BY <1>0, <4>1, RecordSet DEF IInv
    <3>2. record'[r].sub => record[r].sub \/ Known(r)
      BY <1>9, <2>1, <3>1
    <3> QED
      BY <1>0, <3>1, <3>2, RecordWritten
  <2>2. CASE UNCHANGED record
    BY <1>0, <2>2, StableWhenUnchanged DEF IInv, TypeOK
  <2> QED
    BY <2>1, <2>2 DEF ReceiveAnswer, SavePaymentLink, AttachSubscription,
                      ReleaseSubscriptionCreation, TabDies
<1>3. tab' \in [Tabs -> Tab] /\ TabInv'
  <2>1. \/ TabEnds(t)
        \/ TabGoes(t, "unwinding") \/ TabGoes(t, "refused") \/ TabGoes(t, "saved")
        \/ tab[t].at = "asked" /\ Known(tab[t].ref) /\ TabGoes(t, "answered")
    <3>1. CASE ReceiveAnswer(t)
      <4>1. provider[r].status # "none"
        BY <3>1 DEF ReceiveAnswer, IInv, TabInv, TabOK, Placed
      <4> QED
        BY <3>1, <4>1 DEF ReceiveAnswer, Known
    <3> QED
      BY <3>1 DEF SaveCheckout, SavePaymentLink, AttachSubscription, SaveFailed,
           ReleaseSubscriptionCreation, TabDies
  <2> QED
    BY <1>0, <1>2, <2>1, TabGoesOn
<1> QED
  BY <1>0, <1>1, <1>2, <1>3, TabStepKeeps DEF IInv, TypeOK

-----------------------------------------------------------------------------
(* Razorpay *)

Advanced == {"authenticated", "active", "pending", "halted", "cancelled", "expired", "paid"}

\* A step at Razorpay and its event: what the event says was paid, was paid.
LEMMA AdvanceKeeps ==
  ASSUME IInv, NEW r \in Refs, NEW s \in Advanced, Known(r), Advance(r, s), UNCHANGED record
  PROVE  /\ provider' \in [Refs -> Provider]
         /\ events' \in Seq(Event) /\ Len(events') <= MaxEvents
         /\ Stable /\ RecordInv' /\ EventInv'
         /\ \A q \in Refs : ~Placed(q) => provider'[q].status = "none"
<1>1. PICK paid \in BOOLEAN, bare \in BOOLEAN :
        /\ provider[r].paid => paid
        /\ s = "paid" => paid
        /\ bare => paid
        /\ Len(events) < MaxEvents
        /\ provider' = [provider EXCEPT ![r] = [status |-> s, paid |-> paid]]
        /\ events' = Append(events, [ref |-> r,
                                     name |-> IF bare THEN "paid" ELSE Reported(r, s),
                                     paid |-> paid, bare |-> bare])
  <2> DEFINE paid == \/ provider[r].paid \/ s = "paid"
                     \/ (s = "active" /\ provider[r].status # "created")
  <2>1. paid \in BOOLEAN
    OBVIOUS
  <2>2. PICK bare \in IF s = "active" /\ paid THEN BOOLEAN ELSE {FALSE} :
          events' = Append(events, [ref |-> r,
                                    name |-> IF bare THEN "paid" ELSE Reported(r, s),
                                    paid |-> paid, bare |-> bare])
    BY DEF Advance
  <2>3. bare \in BOOLEAN /\ (bare => paid)
    BY <2>2
  <2>4. Len(events) < MaxEvents /\ provider' = [provider EXCEPT ![r] = [status |-> s, paid |-> paid]]
    BY DEF Advance
  <2>5. (provider[r].paid => paid) /\ (s = "paid" => paid)
    OBVIOUS
  <2> HIDE DEF paid
  <2> QED
    BY <2>1, <2>2, <2>3, <2>4, <2>5
<1> DEFINE name == IF bare THEN "paid" ELSE Reported(r, s)
           event == [ref |-> r, name |-> name, paid |-> paid, bare |-> bare]
<1>2. name \in EventNames /\ (name = "paid" => paid)
  BY <1>1 DEF Reported, EventNames, Advanced
<1>3. event \in Event /\ event.ref = r /\ event.name = name /\ event.paid = paid
  BY <1>2 DEF Event
<1>4. events' = Append(events, event) /\ events \in Seq(Event) /\ Len(events) \in Nat
  BY <1>1 DEF IInv, TypeOK
<1>5. [status |-> s, paid |-> paid] \in Provider
  BY DEF Provider, RecordStatus, Final, Advanced
<1>6. /\ provider' \in [Refs -> Provider]
      /\ provider'[r].status = s /\ provider'[r].paid = paid
      /\ \A q \in Refs : q # r => provider'[q] = provider[q]
  BY <1>1, <1>5 DEF IInv, TypeOK
<1> HIDE DEF event, name
<1>7. Stable
  BY <1>1, <1>6 DEF Stable, Placed, Known, Advanced
<1>8. RecordInv'
  BY <1>1, <1>6 DEF IInv, RecordInv, Placed, Known, Advanced
<1>9. /\ events' \in Seq(Event) /\ Len(events') <= MaxEvents
      /\ Len(events') = Len(events) + 1
      /\ events'[Len(events) + 1] = event
      /\ \A e \in 1..Len(events) : events'[e] = events[e]
  BY <1>1, <1>3, <1>4
<1>10. EventInv'
  <2>1. ASSUME NEW e \in 1..Len(events)
        PROVE  /\ events'[e].ref \in Refs /\ provider'[events'[e].ref].status \notin {"none", "asked", "refused"}
               /\ events'[e].paid => provider'[events'[e].ref].paid
               /\ events'[e].name = "paid" => events'[e].paid
    <3>1. /\ events[e].ref \in Refs /\ Known(events[e].ref)
          /\ events[e].paid => provider[events[e].ref].paid
          /\ events[e].name = "paid" => events[e].paid
      BY DEF IInv, EventInv
    <3>2. events'[e] = events[e]
      BY <1>9
    <3>3. provider'[events[e].ref].status \notin {"none", "asked", "refused"} /\ (events[e].paid => provider'[events[e].ref].paid)
      BY <1>7, <3>1 DEF Stable, Known
    <3> QED
      BY <3>1, <3>2, <3>3, Zenon
  <2>2. /\ event.ref \in Refs /\ provider'[event.ref].status \notin {"none", "asked", "refused"}
        /\ event.paid => provider'[event.ref].paid
        /\ event.name = "paid" => event.paid
    <3>1. provider'[r].status \notin {"none", "asked", "refused"}
      BY <1>6 DEF Advanced
    <3> QED
      BY <1>2, <1>3, <1>6, <3>1, Zenon
  <2>3. \A e \in 1..(Len(events) + 1) : e \in 1..Len(events) \/ e = Len(events) + 1
    BY <1>4
  <2>4. ASSUME NEW e \in 1..Len(events')
        PROVE  e \in 1..Len(events) \/ events'[e] = event
    BY <1>9, <2>3
  <2>5. \A e \in 1..Len(events') :
          /\ events'[e].ref \in Refs /\ provider'[events'[e].ref].status \notin {"none", "asked", "refused"}
          /\ events'[e].paid => provider'[events'[e].ref].paid
          /\ events'[e].name = "paid" => events'[e].paid
    BY <2>1, <2>2, <2>4, Zenon
  <2> QED
    BY <2>5, Zenon DEF EventInv, Known
<1>11. \A q \in Refs : ~Placed(q) => provider'[q].status = "none"
  BY <1>6 DEF Placed, Known
<1> QED
  BY <1>6, <1>7, <1>8, <1>9, <1>10, <1>11

LEMMA ProviderStep ==
  ASSUME IInv, NEW r \in Refs, ProviderAnswers(r) \/ ProviderAdvances(r)
  PROVE  IInv'
<1>1. UNCHANGED <<workspace, record, tab, handler>>
  BY DEF ProviderAnswers, ProviderAdvances
<1>2. /\ provider' \in [Refs -> Provider]
      /\ events' \in Seq(Event) /\ Len(events') <= MaxEvents
      /\ Stable /\ RecordInv' /\ EventInv'
      /\ \A q \in Refs : ~Placed(q) => provider'[q].status = "none"
  <2>1. CASE ProviderAnswers(r)
    <3>1. PICK s \in {"created", "refused"} : provider' = [provider EXCEPT ![r].status = s]
      BY <2>1 DEF ProviderAnswers
    <3>2. /\ provider' \in [Refs -> Provider]
          /\ provider'[r].status = s /\ provider'[r].paid = provider[r].paid
          /\ \A q \in Refs : q # r => provider'[q] = provider[q]
      BY <3>1 DEF IInv, TypeOK, Provider, RecordStatus
    <3>3. Placed(r) /\ ~Known(r)
      BY <2>1 DEF ProviderAnswers, Placed, Known
    <3>4. Stable
      BY <1>1, <3>2, <3>3 DEF Stable, Placed, Known
    <3>5. RecordInv'
      BY <1>1, <3>2, <3>3 DEF IInv, RecordInv, Placed, Known
    <3>6. UNCHANGED events
      BY <2>1 DEF ProviderAnswers
    <3>7. \A q \in Refs : ~Placed(q) => provider'[q].status = "none"
      BY <3>2, <3>3 DEF Placed
    <3> QED
      BY <3>2, <3>4, <3>5, <3>6, <3>7, EventsKept DEF IInv, TypeOK
  <2>2. CASE ProviderAdvances(r)
    <3>1. PICK s \in Successors(record[r].kind, provider[r].status) : Advance(r, s)
      BY <2>2 DEF ProviderAdvances
    <3>2. s \in Advanced /\ Known(r)
      BY <3>1 DEF Successors, Advanced, Known
    <3> QED
      BY <1>1, <3>1, <3>2, AdvanceKeeps
  <2> QED
    BY <2>1, <2>2
<1>3. TypeOK'
  BY <1>1, <1>2 DEF IInv, TypeOK
<1>4. HandlerInv' /\ PaidBeforeEntitled'
  BY <1>1, <1>2, HandlerKept, EntitledKept DEF HandlerInv
<1>5. TabInv'
  <2>1. \A t \in Tabs : TabOK(t)'
    BY <1>1, <1>2, TabKept DEF IInv, TabInv, TabOK
  <2> QED
    BY <1>1, <2>1 DEF IInv, TabInv
<1> QED
  BY <1>2, <1>3, <1>4, <1>5 DEF IInv

-----------------------------------------------------------------------------
(* The handlers *)

\* What the step of a handler leaves to show.
LEMMA HandlerStepKeeps ==
  ASSUME IInv, NEW h \in Handlers, UNCHANGED tab,
         Stable, RecordInv', EventInv', PaidBeforeEntitled',
         \A q \in Refs : ~Placed(q) => provider'[q].status = "none",
         workspace' \in Workspace, record' \in [Refs -> Record],
         provider' \in [Refs -> Provider],
         events' \in Seq(Event), Len(events') <= MaxEvents,
         handler' \in [Handlers -> Handler],
         \A g \in Handlers : g # h => handler'[g] = handler[g],
         HandlerOK(h)'
  PROVE  IInv'
<1>1. TypeOK'
  BY DEF IInv, TypeOK
<1>2. HandlerInv'
  BY HandlerKept DEF HandlerInv
<1>3. TabInv'
  <2>1. \A t \in Tabs : TabOK(t)'
    BY TabKept DEF IInv, TabInv, TabOK
  <2> QED
    BY <2>1 DEF IInv, TabInv
<1> QED
  BY <1>1, <1>2, <1>3 DEF IInv

\* A handler's step that touches neither a record nor Razorpay.
LEMMA HandlerStepAlone ==
  ASSUME IInv, NEW h \in Handlers, UNCHANGED <<record, provider, events, tab>>,
         PaidBeforeEntitled', workspace' \in Workspace,
         handler' \in [Handlers -> Handler],
         \A g \in Handlers : g # h => handler'[g] = handler[g],
         HandlerOK(h)'
  PROVE  IInv'
<1>1. Stable /\ RecordInv'
  BY StableWhenUnchanged
<1>2. EventInv'
  BY <1>1, EventsKept
<1>3. \A q \in Refs : ~Placed(q) => provider'[q].status = "none"
  BY DEF Placed
<1>4. /\ record' \in [Refs -> Record] /\ provider' \in [Refs -> Provider]
      /\ events' \in Seq(Event) /\ Len(events') <= MaxEvents
  BY DEF IInv, TypeOK
<1> QED
  BY <1>1, <1>2, <1>3, <1>4, HandlerStepKeeps

\* A webhook that is in date and, if it says active, paid.
LEMMA ReceiveStep ==
  ASSUME IInv, NEW h \in Handlers, NEW e \in EventIds, ReceiveWebhook(h, e)
  PROVE  IInv'
<1>1. /\ e \in 1..Len(events) /\ ~Unpaid(e)
      /\ UNCHANGED <<workspace, record, provider, events, tab>>
  BY DEF ReceiveWebhook
<1>2. PICK r \in Refs : r = events[e].ref
  BY <1>1 DEF IInv, EventInv
<1>3. PICK old \in Record : old = record[r]
  BY DEF IInv, TypeOK
<1>4. PICK sub \in BOOLEAN, paid \in BOOLEAN, at \in {"read", "released"} :
        handler' = [handler EXCEPT ![h] =
                      [IdleHandler EXCEPT !.at = at, !.ref = r, !.event = e, !.old = old,
                         !.new = [old EXCEPT !.status = NextStatus(e), !.last = e,
                                             !.seen = @ \cup {e}, !.sub = sub, !.paid = paid]]]
  <2> DEFINE subscription == old.kind = "subscription"
             paidLink == ~subscription /\ NextStatus(e) = "paid" /\ ~old.paid
             sub == old.sub \/ (subscription /\ ~events[e].bare)
             paid == old.paid \/ paidLink
             at == IF subscription \/ paidLink THEN "read" ELSE "released"
  <2>1. handler' = [handler EXCEPT ![h] =
                      [IdleHandler EXCEPT !.at = at, !.ref = r, !.event = e, !.old = old,
                         !.new = [old EXCEPT !.status = NextStatus(e), !.last = e,
                                             !.seen = @ \cup {e}, !.sub = sub, !.paid = paid]]]
    BY <1>2, <1>3 DEF ReceiveWebhook
  <2>2. sub \in BOOLEAN /\ paid \in BOOLEAN /\ at \in {"read", "released"}
    OBVIOUS
  <2> HIDE DEF sub, paid, at
  <2> QED
    BY <2>1, <2>2
<1> DEFINE new == [old EXCEPT !.status = NextStatus(e), !.last = e, !.seen = @ \cup {e},
                              !.sub = sub, !.paid = paid]
           x == [IdleHandler EXCEPT !.at = at, !.ref = r, !.event = e, !.old = old, !.new = new]
<1>5. /\ new \in Record /\ new.plan = old.plan /\ new.kind = old.kind
      /\ new.status = NextStatus(e) /\ e \in 0..MaxEvents
  <2>1. e \in EventIds /\ e \in 0..MaxEvents
    BY DEF EventIds
  <2>2. events[e] \in Event
    BY <1>1 DEF IInv, TypeOK
  <2>3. NextStatus(e) \in RecordStatus
    BY <2>2 DEF NextStatus, mapWebhookStatus, Event, EventNames, RecordStatus, Final
  <2> HIDE DEF NextStatus
  <2> QED
    BY <2>1, <2>3 DEF Record
<1>6. handler' = [handler EXCEPT ![h] = x]
  BY <1>4
<1> HIDE DEF new
<1>7. /\ x \in Handler /\ x.at = at /\ x.ref = r /\ x.old = old /\ x.new = new
  <2>1. PICK idle \in Handler : idle = IdleHandler
    BY Constants
  <2>2. x = [idle EXCEPT !.at = at, !.ref = r, !.event = e, !.old = old, !.new = new]
    BY <2>1
  <2>3. r \in 0..MaxRefs
    BY DEF Refs
  <2> HIDE DEF x
  <2> QED
    BY <1>5, <2>2, <2>3 DEF Handler
<1> HIDE DEF x
<1>8. /\ handler' \in [Handlers -> Handler] /\ handler'[h] = x
      /\ \A g \in Handlers : g # h => handler'[g] = handler[g]
  BY <1>6, <1>7 DEF IInv, TypeOK
<1>9. Known(r)
  BY <1>1, <1>2 DEF IInv, EventInv
<1>10. NextStatus(e) \in {"active", "paid"} => provider[r].paid
  <2>1. /\ events[e].paid => provider[r].paid
        /\ events[e].name = "paid" => events[e].paid
    BY <1>1, <1>2 DEF IInv, EventInv
  <2>2. NextStatus(e) = "active" => events[e].paid
    BY <1>1 DEF Unpaid
  <2>3. NextStatus(e) = "paid" => events[e].name = "paid"
    BY DEF NextStatus, mapWebhookStatus
  <2> QED
    BY <2>1, <2>2, <2>3, Zenon
<1>11. HandlerOK(h)'
  BY <1>1, <1>3, <1>5, <1>7, <1>8, <1>9, <1>10 DEF HandlerOK, Reading, Known
<1>12. PaidBeforeEntitled' /\ workspace' \in Workspace
  BY <1>1 DEF IInv, TypeOK, PaidBeforeEntitled
<1> QED
  BY <1>1, <1>8, <1>11, <1>12, HandlerStepAlone

LEMMA LoadStep ==
  ASSUME IInv, NEW h \in Handlers, LoadWorkspace(h)
  PROVE  IInv'
<1>1. UNCHANGED <<workspace, record, provider, events, tab>> /\ handler[h].at = "read"
  BY DEF LoadWorkspace
<1>2. /\ handler' \in [Handlers -> Handler]
      /\ \A g \in Handlers : g # h => handler'[g] = handler[g]
      /\ handler'[h].at = "loaded" /\ handler'[h].ref = handler[h].ref
      /\ handler'[h].old = handler[h].old /\ handler'[h].new = handler[h].new
  BY ZenonT(60) DEF LoadWorkspace, IInv, TypeOK, Handler
<1>3. HandlerOK(h)'
  BY <1>1, <1>2 DEF IInv, HandlerInv, HandlerOK, Reading, Known
<1>4. PaidBeforeEntitled' /\ workspace' \in Workspace
  BY <1>1 DEF IInv, TypeOK, PaidBeforeEntitled
<1> QED
  BY <1>1, <1>2, <1>3, <1>4, HandlerStepAlone

\* The workspace's plan stays, or becomes that of a checkout that was paid.
LEMMA SaveStep ==
  ASSUME IInv, NEW h \in Handlers, SaveWorkspace(h)
  PROVE  IInv'
<1>1. UNCHANGED <<record, provider, events, tab>> /\ handler[h].at = "loaded"
  BY DEF SaveWorkspace
<1>2. PICK at \in {"released", "saved"} :
        handler' = [handler EXCEPT ![h].at = at, ![h].ws = NoWorkspace]
  BY DEF SaveWorkspace
<1>3. /\ handler' \in [Handlers -> Handler]
      /\ \A g \in Handlers : g # h => handler'[g] = handler[g]
      /\ handler'[h].at = at /\ handler'[h].ref = handler[h].ref
      /\ handler'[h].old = handler[h].old /\ handler'[h].new = handler[h].new
  BY <1>2, Constants DEF IInv, TypeOK, Handler
<1>4. HandlerOK(h)'
  BY <1>1, <1>3 DEF IInv, HandlerInv, HandlerOK, Reading, Known
<1>5. PICK ws \in Workspace, rec \in Record, own \in 0..MaxRefs, r \in Refs :
        /\ ws = handler[h].ws /\ rec = handler[h].new /\ own = Own(h) /\ r = handler[h].ref
        /\ rec.plan = record[r].plan
        /\ rec.status \in {"active", "paid"} => provider[r].paid
  <2>1. /\ handler[h].ws \in Workspace /\ handler[h].new \in Record
        /\ handler[h].old \in Record /\ handler[h].ref \in 0..MaxRefs
    BY DEF IInv, TypeOK, Handler
  <2>2. Own(h) \in 0..MaxRefs
    BY <2>1 DEF Own
  <2> QED
    BY <1>1, <2>1, <2>2 DEF IInv, HandlerInv, HandlerOK, Reading
<1>6. workspace' \in Workspace /\ PaidBeforeEntitled'
  <2>1. CASE UNCHANGED workspace
    BY <1>1, <2>1 DEF IInv, TypeOK, PaidBeforeEntitled
  <2>2. CASE /\ rec.status \in {"active", "paid"}
             /\ workspace' = SaveBilling(ws, Activated(h))
    <3>1. Activated(h) \in Workspace /\ Activated(h).plan = rec.plan
      <4> DEFINE paid == [ws EXCEPT !.plan = rec.plan, !.status = "active"]
      <4>1. rec.plan \in Plans \cup {Free} /\ r \in 0..MaxRefs
        BY DEF Record, Refs
      <4>2. paid \in Workspace /\ paid.plan = rec.plan
        BY <4>1 DEF Workspace, BlockingBillingStatuses
      <4>3. Activated(h) = IF rec.kind = "link" THEN paid
                           ELSE [paid EXCEPT !.sub = own, !.ref = r]
        BY <1>5 DEF Activated
      <4> HIDE DEF paid
      <4>4. CASE rec.kind = "link"
        BY <4>2, <4>3, <4>4
      <4>5. CASE rec.kind # "link"
        BY <4>1, <4>2, <4>3, <4>5 DEF Workspace
      <4> QED
        BY <4>4, <4>5
    <3>2. /\ workspace' \in Workspace
          /\ workspace'.plan = IF rec.plan # ws.plan THEN rec.plan ELSE workspace.plan
      BY <2>2, <3>1, SavedBilling DEF IInv
    <3>3. CASE workspace'.plan = workspace.plan
      BY <1>1, <3>2, <3>3, StableWhenUnchanged, EntitledKept
    <3>4. CASE workspace'.plan = rec.plan
      <4>1. provider[r].paid /\ record[r].plan = workspace'.plan
        BY <1>5, <2>2, <3>4
      <4> QED
        BY <1>1, <3>2, <4>1 DEF PaidBeforeEntitled
    <3> QED
      BY <3>2, <3>3, <3>4
  <2>3. CASE \/ workspace' = SaveFields(workspace, ws, [ws EXCEPT !.status = "past_due", !.sub = own])
             \/ workspace' = SaveFields(workspace, ws, [ws EXCEPT !.status = "inactive", !.sub = 0])
    <3>1. PICK changed \in Workspace :
            workspace' = SaveFields(workspace, ws, changed) /\ changed.plan = ws.plan
      <4>1. CASE workspace' = SaveFields(workspace, ws, [ws EXCEPT !.status = "past_due", !.sub = own])
        <5> DEFINE changed == [ws EXCEPT !.status = "past_due", !.sub = own]
        <5>1. changed \in Workspace /\ changed.plan = ws.plan
          BY DEF Workspace, BlockingBillingStatuses
        <5>2. workspace' = SaveFields(workspace, ws, changed)
          BY <4>1
        <5> HIDE DEF changed
        <5> QED
          BY <5>1, <5>2
      <4>2. CASE workspace' = SaveFields(workspace, ws, [ws EXCEPT !.status = "inactive", !.sub = 0])
        <5> DEFINE changed == [ws EXCEPT !.status = "inactive", !.sub = 0]
        <5>1. changed \in Workspace /\ changed.plan = ws.plan
          <6>1. 0 \in 0..MaxRefs
            OBVIOUS
          <6> QED
            BY <6>1 DEF Workspace, BlockingBillingStatuses
        <5>2. workspace' = SaveFields(workspace, ws, changed)
          BY <4>2
        <5> HIDE DEF changed
        <5> QED
          BY <5>1, <5>2
      <4> QED
        BY <2>3, <4>1, <4>2
    <3>2. workspace' \in Workspace /\ workspace'.plan = workspace.plan
      BY <3>1, SavedWorkspace DEF IInv, TypeOK
    <3> QED
      BY <1>1, <3>2, StableWhenUnchanged, EntitledKept
  <2>4. \/ UNCHANGED workspace
        \/ /\ rec.status \in {"active", "paid"}
           /\ workspace' = SaveBilling(ws, Activated(h))
        \/ workspace' = SaveFields(workspace, ws, [ws EXCEPT !.status = "past_due", !.sub = own])
        \/ workspace' = SaveFields(workspace, ws, [ws EXCEPT !.status = "inactive", !.sub = 0])
    BY <1>5, Zenon DEF SaveWorkspace
  <2> QED
    BY <2>1, <2>2, <2>3, <2>4
<1> QED
  BY <1>1, <1>3, <1>4, <1>6, HandlerStepAlone

\* The end of a handler, and the release of a claim before it.
LEMMA EndStep ==
  ASSUME IInv, NEW h \in Handlers, ReleaseClaim(h) \/ HandlerFails(h)
  PROVE  IInv'
<1>1. UNCHANGED <<record, provider, events, tab>>
  BY DEF ReleaseClaim, HandlerFails
<1>2. workspace' \in Workspace /\ workspace'.plan = workspace.plan
  BY ReleasedTyped DEF ReleaseClaim, HandlerFails, IInv, TypeOK
<1>3. CASE ReleaseClaim(h)
  <2>1. /\ handler' \in [Handlers -> Handler]
        /\ \A g \in Handlers : g # h => handler'[g] = handler[g]
        /\ handler'[h].at = "released" /\ handler'[h].ref = handler[h].ref
        /\ handler'[h].old = handler[h].old /\ handler'[h].new = handler[h].new
    BY <1>3, HandlerMoves DEF ReleaseClaim, IInv
  <2>2. HandlerOK(h)'
    BY <1>1, <1>3, <2>1 DEF ReleaseClaim, IInv, HandlerInv, HandlerOK, Reading, Known
  <2> QED
    BY <1>1, <1>2, <2>1, <2>2, StableWhenUnchanged, EntitledKept, HandlerStepAlone
<1>4. CASE HandlerFails(h)
  <2>1. /\ handler' \in [Handlers -> Handler] /\ handler'[h].at = "idle"
        /\ \A g \in Handlers : g # h => handler'[g] = handler[g]
    BY <1>4, HandlerMoves DEF HandlerFails, IInv
  <2>2. HandlerOK(h)'
    BY <2>1 DEF HandlerOK, Reading
  <2> QED
    BY <1>1, <1>2, <2>1, <2>2, StableWhenUnchanged, EntitledKept, HandlerStepAlone
<1> QED
  BY <1>3, <1>4

\* Record r is written, what it is and its plan apart.
LEMMA RecordStep ==
  ASSUME IInv, NEW h \in Handlers, UNCHANGED <<provider, events, tab>>,
         workspace' \in Workspace, workspace'.plan = workspace.plan,
         handler' \in [Handlers -> Handler], handler'[h].at = "idle",
         \A g \in Handlers : g # h => handler'[g] = handler[g],
         Stable, RecordInv', record' \in [Refs -> Record]
  PROVE  IInv'
<1>1. EventInv' /\ PaidBeforeEntitled'
  BY EventsKept, EntitledKept
<1>2. HandlerOK(h)'
  BY DEF HandlerOK, Reading
<1>3. \A q \in Refs : ~Placed(q) => provider'[q].status = "none"
  BY DEF Placed
<1>4. /\ provider' \in [Refs -> Provider]
      /\ events' \in Seq(Event) /\ Len(events') <= MaxEvents
  BY DEF IInv, TypeOK
<1> QED
  BY <1>1, <1>2, <1>3, <1>4, HandlerStepKeeps

LEMMA SaveRecordStep ==
  ASSUME IInv, NEW h \in Handlers, SaveRecord(h) \/ MarkCancelled(h)
  PROVE  IInv'
<1>1. /\ UNCHANGED <<workspace, provider, events, tab>> /\ HandlerEnds(h)
      /\ workspace' \in Workspace
  BY DEF SaveRecord, MarkCancelled, IInv, TypeOK
<1>2. /\ handler' \in [Handlers -> Handler] /\ handler'[h].at = "idle"
      /\ \A g \in Handlers : g # h => handler'[g] = handler[g]
  BY <1>1, HandlerMoves DEF IInv
<1>3. PICK r : r = handler[h].ref
  OBVIOUS
<1>4. CASE UNCHANGED record \/ r \notin Refs
  <2>1. UNCHANGED record
    BY <1>3, <1>4 DEF SaveRecord, MarkCancelled, IInv, TypeOK
  <2> QED
    BY <1>1, <1>2, <2>1, StableWhenUnchanged, RecordStep DEF IInv, TypeOK
<1>5. CASE SaveRecord(h) /\ ~UNCHANGED record /\ r \in Refs
  <2>1. PICK old \in Record, new \in Record : old = handler[h].old /\ new = handler[h].new
    BY DEF IInv, TypeOK, Handler
  <2>2. record' = [record EXCEPT ![r] = SaveFields(record[r], old, new)]
    BY <1>3, <1>5, <2>1 DEF SaveRecord
  <2>3. new.plan = old.plan /\ new.kind = old.kind /\ Known(r)
    BY <1>3, <1>5, <2>1 DEF SaveRecord, IInv, HandlerInv, HandlerOK, Reading
  <2>4. /\ SaveFields(record[r], old, new) \in Record
        /\ SaveFields(record[r], old, new).plan = record[r].plan
        /\ SaveFields(record[r], old, new).kind = record[r].kind
    BY <1>5, <2>3, SavedRecord DEF IInv, TypeOK
  <2>5. PICK saved \in Record :
          /\ record' = [record EXCEPT ![r] = saved]
          /\ saved.plan = record[r].plan /\ saved.kind = record[r].kind
    BY <2>2, <2>4
  <2>6. /\ record' \in [Refs -> Record] /\ record'[r] = saved
        /\ \A q \in Refs : q # r => record'[q] = record[q]
    BY <1>5, <2>5, RecordSet DEF IInv
  <2>7. Stable /\ RecordInv'
    BY <1>1, <1>5, <2>3, <2>5, <2>6, RecordWritten
  <2> QED
    BY <1>1, <1>2, <2>6, <2>7, RecordStep
<1>6. CASE MarkCancelled(h) /\ ~UNCHANGED record /\ r \in Refs
  <2>1. PICK rec \in Record, status \in RecordStatus :
          rec = record[r] /\ status = handler[h].new.status
    BY <1>6 DEF IInv, TypeOK, Handler, Record
  <2> DEFINE new == [rec EXCEPT !.status = status]
  <2>2. new \in Record /\ new.plan = rec.plan /\ new.kind = rec.kind /\ new.sub = rec.sub
    BY DEF Record
  <2>3. record' = [record EXCEPT ![r] = new]
    BY <1>3, <1>6, <2>1 DEF MarkCancelled
  <2> HIDE DEF new
  <2>4. /\ record' \in [Refs -> Record] /\ record'[r] = new
        /\ \A q \in Refs : q # r => record'[q] = record[q]
    BY <1>6, <2>2, <2>3, RecordSet DEF IInv
  <2>5. Stable /\ RecordInv'
    BY <1>1, <1>6, <2>1, <2>2, <2>4, RecordWritten
  <2> QED
    BY <1>1, <1>2, <2>4, <2>5, RecordStep
<1> QED
  BY <1>4, <1>5, <1>6

LEMMA SyncStep ==
  ASSUME IInv, NEW h \in Handlers, AskForStatus(h) \/ SyncSubscription(h)
  PROVE  IInv'
<1>1. /\ UNCHANGED <<workspace, record, provider, events, tab>>
      /\ PaidBeforeEntitled' /\ workspace' \in Workspace
  BY DEF AskForStatus, SyncSubscription, IInv, TypeOK, PaidBeforeEntitled
<1>2. CASE AskForStatus(h)
  <2>1. PICK r \in Refs : r = workspace.sub /\ record[r].sub
    BY <1>2 DEF AskForStatus, IInv, TypeOK, Workspace, Refs
  <2>2. PICK old \in Record, idle \in Handler : old = record[r] /\ idle = IdleHandler
    BY Constants DEF IInv, TypeOK
  <2> DEFINE x == [idle EXCEPT !.at = "asking", !.ref = r, !.old = old]
  <2>3. r \in 0..MaxRefs
    BY DEF Refs
  <2>4. x \in Handler /\ x.at = "asking" /\ x.ref = r /\ x.old = old
    BY <2>3 DEF Handler
  <2>5. handler' = [handler EXCEPT ![h] = x]
    BY <1>2, <2>1, <2>2 DEF AskForStatus
  <2> HIDE DEF x
  <2>6. /\ handler' \in [Handlers -> Handler] /\ handler'[h] = x
        /\ \A g \in Handlers : g # h => handler'[g] = handler[g]
    BY <2>4, <2>5 DEF IInv, TypeOK
  <2>7. Known(r)
    BY <2>1 DEF IInv, RecordInv
  <2>8. HandlerOK(h)'
    BY <1>1, <2>2, <2>4, <2>6, <2>7 DEF HandlerOK, Reading, Known
  <2> QED
    BY <1>1, <2>6, <2>8, HandlerStepAlone
<1>3. CASE SyncSubscription(h)
  <2>1. handler[h].at = "asking"
    BY <1>3 DEF SyncSubscription
  <2>2. PICK r \in Refs, old \in Record, me \in Handler :
          /\ r = handler[h].ref /\ old = handler[h].old /\ me = handler[h]
          /\ Known(r) /\ old.plan = record[r].plan
    BY <2>1 DEF IInv, TypeOK, Handler, HandlerInv, HandlerOK, Reading
  <2>3. PICK status \in RecordStatus :
          status = provider[r].status /\ (status \in {"active", "paid"} => provider[r].paid)
    <3>1. provider[r].status \in RecordStatus
      BY <2>2 DEF Known, IInv, TypeOK, Provider
    <3>2. provider[r].status = "active" => provider[r].paid
      BY <1>3, <2>2 DEF SyncSubscription
    <3>3. provider[r].status = "paid" => provider[r].paid
      BY DEF IInv, RecordInv
    <3> QED
      BY <3>1, <3>2, <3>3
  <2> DEFINE new == [old EXCEPT !.status = status]
             x == [me EXCEPT !.at = "read", !.new = new]
  <2>4. new \in Record /\ new.plan = old.plan /\ new.kind = old.kind /\ new.status = status
    BY DEF Record
  <2>5. handler' = [handler EXCEPT ![h].at = "read", ![h].new = new]
    BY <1>3, <2>2, <2>3 DEF SyncSubscription
  <2> HIDE DEF new
  <2>6. /\ handler' \in [Handlers -> Handler]
        /\ \A g \in Handlers : g # h => handler'[g] = handler[g]
        /\ handler'[h].at = "read" /\ handler'[h].ref = r
        /\ handler'[h].old = old /\ handler'[h].new = new
    BY <2>2, <2>4, <2>5 DEF IInv, TypeOK, Handler
  <2>7. HandlerOK(h)'
    BY <1>1, <2>2, <2>3, <2>4, <2>6 DEF HandlerOK, Reading, Known
  <2> QED
    BY <1>1, <2>6, <2>7, HandlerStepAlone
<1> QED
  BY <1>2, <1>3

\* Asking Razorpay to cancel changes neither records nor plans.
LEMMA CancelStep ==
  ASSUME IInv, NEW h \in Handlers, AskToCancel(h) \/ CancelAgreed(h) \/ SaveCancellation(h)
  PROVE  IInv'
<1>1. CASE AskToCancel(h)
  <2>1. /\ UNCHANGED <<workspace, record, provider, events, tab>>
        /\ PaidBeforeEntitled' /\ workspace' \in Workspace
    BY <1>1 DEF AskToCancel, IInv, TypeOK, PaidBeforeEntitled
  <2>2. PICK r \in Refs : r = workspace.sub
    BY <1>1 DEF AskToCancel, IInv, TypeOK, Workspace, Refs
  <2>3. PICK ws \in Workspace, idle \in Handler : ws = workspace /\ idle = IdleHandler
    BY Constants DEF IInv, TypeOK
  <2> DEFINE x == [idle EXCEPT !.at = "cancelling", !.ref = r, !.ws = ws]
  <2>4. r \in 0..MaxRefs
    BY DEF Refs
  <2>5. x \in Handler /\ x.at = "cancelling" /\ x.ref = r
    BY <2>4 DEF Handler
  <2>6. handler' = [handler EXCEPT ![h] = x]
    BY <1>1, <2>2, <2>3 DEF AskToCancel
  <2> HIDE DEF x
  <2>7. /\ handler' \in [Handlers -> Handler] /\ handler'[h] = x
        /\ \A g \in Handlers : g # h => handler'[g] = handler[g]
    BY <2>5, <2>6 DEF IInv, TypeOK
  <2>8. HandlerOK(h)'
    BY <2>5, <2>7 DEF HandlerOK, Reading
  <2> QED
    BY <2>1, <2>7, <2>8, HandlerStepAlone
<1>2. CASE CancelAgreed(h)
  <2>1. UNCHANGED <<workspace, record, tab>> /\ handler[h].at = "cancelling"
    BY <1>2 DEF CancelAgreed
  <2>2. PICK r \in Refs : r = handler[h].ref
    BY <2>1 DEF IInv, HandlerInv, HandlerOK
  <2>3. PICK status \in {"active", "cancelled"} :
          handler' = [handler EXCEPT ![h].at = "agreed", ![h].new.status = status]
    BY <1>2 DEF CancelAgreed
  <2>4. /\ handler' \in [Handlers -> Handler] /\ handler'[h].at = "agreed"
        /\ \A g \in Handlers : g # h => handler'[g] = handler[g]
    <3>1. PICK me \in Handler, old \in Record : me = handler[h] /\ old = me.new
      BY DEF IInv, TypeOK, Handler
    <3> DEFINE new == [old EXCEPT !.status = status]
               x == [me EXCEPT !.at = "agreed", !.new = new]
    <3>2. new \in Record
      BY DEF Record, RecordStatus, Final
    <3>3. handler' = [handler EXCEPT ![h] = x]
      BY <2>3, <3>1 DEF IInv, TypeOK, Handler
    <3> HIDE DEF new
    <3>4. x \in Handler /\ x.at = "agreed"
      BY <3>2 DEF Handler
    <3> HIDE DEF x
    <3> QED
      BY <3>3, <3>4 DEF IInv, TypeOK
  <2>5. HandlerOK(h)'
    BY <2>4 DEF HandlerOK, Reading
  <2>6. /\ provider' \in [Refs -> Provider]
        /\ events' \in Seq(Event) /\ Len(events') <= MaxEvents
        /\ Stable /\ RecordInv' /\ EventInv'
        /\ \A q \in Refs : ~Placed(q) => provider'[q].status = "none"
    <3>1. CASE UNCHANGED <<provider, events>>
      BY <2>1, <3>1, StableWhenUnchanged, EventsKept DEF IInv, TypeOK, Placed
    <3>2. CASE Known(r) /\ Advance(r, "cancelled")
      BY <2>1, <3>2, AdvanceKeeps DEF Advanced
    <3> QED
      BY <1>2, <2>2, <3>1, <3>2 DEF CancelAgreed, Known
  <2>7. PaidBeforeEntitled' /\ workspace' \in Workspace /\ record' \in [Refs -> Record]
    BY <2>1, <2>6, EntitledKept DEF IInv, TypeOK
  <2> QED
    BY <2>1, <2>4, <2>5, <2>6, <2>7, HandlerStepKeeps
<1>3. CASE SaveCancellation(h)
  <2>1. UNCHANGED <<record, provider, events, tab>>
    BY <1>3 DEF SaveCancellation
  <2>2. PICK ws \in Workspace : ws = handler[h].ws
    BY DEF IInv, TypeOK, Handler
  <2>3. workspace' \in Workspace /\ workspace'.plan = workspace.plan
    BY <1>3, <2>2, SavedBilling DEF SaveCancellation, IInv, TypeOK
  <2>4. /\ handler' \in [Handlers -> Handler] /\ handler'[h].at = "marked"
        /\ \A g \in Handlers : g # h => handler'[g] = handler[g]
    BY <1>3, Constants DEF SaveCancellation, IInv, TypeOK, Handler
  <2>5. HandlerOK(h)'
    BY <2>4 DEF HandlerOK, Reading
  <2> QED
    BY <2>1, <2>3, <2>4, <2>5, StableWhenUnchanged, EntitledKept, HandlerStepAlone
<1> QED
  BY <1>1, <1>2, <1>3

-----------------------------------------------------------------------------
(* The theorems *)

LEMMA InitHolds == Init => IInv
<1> SUFFICES ASSUME Init PROVE IInv
  OBVIOUS
<1>1. /\ \A r \in Refs : record[r] = NoRecord /\ NoRecord.sub = FALSE
      /\ \A r \in Refs : provider[r] = [status |-> "none", paid |-> FALSE]
      /\ events = <<>>
      /\ \A t \in Tabs : tab[t].at = "idle"
      /\ \A h \in Handlers : handler[h].at = "idle"
  BY DEF Init, NoRecord, IdleTab, IdleHandler
<1>2. TypeOK
  <2>1. [status |-> "none", paid |-> FALSE] \in Provider
    BY DEF Provider
  <2>2. events \in Seq(Event) /\ Len(events) <= MaxEvents
    BY <1>1
  <2> QED
    BY <2>1, <2>2, Constants DEF Init, TypeOK
<1>3. RecordInv
  BY <1>1 DEF RecordInv, Placed, Known
<1>4. EventInv
  BY <1>1 DEF EventInv
<1>5. TabInv /\ HandlerInv
  BY <1>1 DEF TabInv, TabOK, HandlerInv, HandlerOK, Reading
<1>6. PaidBeforeEntitled
  BY DEF Init, PaidBeforeEntitled, NoWorkspace
<1> QED
  BY <1>2, <1>3, <1>4, <1>5, <1>6 DEF IInv

LEMMA StutterStep ==
  ASSUME IInv, UNCHANGED vars
  PROVE  IInv'
<1>1. UNCHANGED <<workspace, record, provider, events, tab, handler>>
  BY DEF vars
<1>2. TypeOK'
  BY <1>1 DEF IInv, TypeOK
<1>3. Stable /\ RecordInv'
  BY <1>1, StableWhenUnchanged
<1>4. EventInv' /\ PaidBeforeEntitled' /\ HandlerInv'
  BY <1>1, <1>3, EventsKept, EntitledKept, HandlerKept DEF HandlerInv
<1>5. TabInv'
  BY <1>1 DEF IInv, TabInv, TabOK, Placed, Known
<1> QED
  BY <1>2, <1>3, <1>4, <1>5 DEF IInv

LEMMA Inductive == IInv /\ [Next]_vars => IInv'
<1> SUFFICES ASSUME IInv, [Next]_vars PROVE IInv'
  OBVIOUS
<1>1. ASSUME NEW t \in Tabs, TabStep(t) PROVE IInv'
  BY <1>1, DrawStep, AskStep, AnswerStep DEF TabStep
<1>2. ASSUME NEW h \in Handlers, HandlerStep(h) PROVE IInv'
  BY <1>2, ReceiveStep, LoadStep, SaveStep, EndStep, SaveRecordStep, SyncStep, CancelStep
     DEF HandlerStep
<1> QED
  BY <1>1, <1>2, ProviderStep, StutterStep DEF Next

\* The inductive invariant holds in every reachable state.
THEOREM Invariant == Spec => []IInv
<1>1. Init => IInv
  BY InitHolds
<1>2. IInv /\ [Next]_vars => IInv'
  BY Inductive
<1> QED
  BY <1>1, <1>2, PTL DEF Spec

(***************************************************************************)
(* The documents keep their types: among others, a status that a           *)
(* synchronisation copies into a record is one a record may have           *)
(* (billingController.js, syncSubscription).                               *)
(***************************************************************************)
THEOREM TypeCorrect == Spec => []TypeOK
<1>1. IInv => TypeOK
  BY DEF IInv
<1> QED
  BY <1>1, Invariant, PTL

(***************************************************************************)
(* A workspace has a paid plan only if Razorpay was paid for a checkout of *)
(* that plan, whatever order webhooks, synchronisations and cancellations  *)
(* come in and however their reads and saves interleave                    *)
(* (billingController.js, applySubscriptionState, handleRazorpayWebhook).  *)
(***************************************************************************)
THEOREM PlanIsPaid == Spec => []PaidBeforeEntitled
<1>1. IInv => PaidBeforeEntitled
  BY DEF IInv
<1> QED
  BY <1>1, Invariant, PTL

-----------------------------------------------------------------------------
(* Records that have ended *)

Ended(r) == provider[r].status \in Final

(***************************************************************************)
(* Other handlers may have written since h read.  But where h read an end, *)
(* what it is about to write is an end itself, or "halted"; and an end it  *)
(* has read or is about to write has happened at Razorpay.                 *)
(***************************************************************************)
EndedOK(h) ==
  /\ Reading(h) /\ handler[h].old.status \in Final => Ended(handler[h].ref)
  /\ Reading(h) /\ handler[h].at # "asking" =>
       /\ handler[h].old.status \in Final => handler[h].new.status \in Final \cup {"halted"}
       /\ handler[h].new.status \in Final => Ended(handler[h].ref)
  /\ handler[h].at \in {"agreed", "marked"} =>
       /\ handler[h].ref \in Refs
       /\ \/ handler[h].new.status = "cancelled" /\ Ended(handler[h].ref)
          \/ handler[h].new.status = "active"

\* A record has ended only after its agreement; a refused one never began.
EndedInv ==
  /\ \A r \in Refs : record[r].status \in Final => Ended(r)
  /\ \A t \in Tabs : tab[t].at = "refused" => provider[tab[t].ref].status = "refused"
  /\ \A e \in 1..Len(events) : NextStatus(e) \in Final => Ended(events[e].ref)
  /\ \A h \in Handlers : EndedOK(h)

(***************************************************************************)
(* A save of what was read before the record ended: that of a sync, or of  *)
(* a webhook between whose read and save no other webhook has saved; or    *)
(* the "active" of a cancellation that Razorpay agreed to for the end of   *)
(* the cycle.                                                              *)
(***************************************************************************)
StaleSave(h) ==
  \/ SaveRecord(h) /\ VersionMatches(h) /\ handler[h].old.status \notin Final
  \/ MarkCancelled(h) /\ handler[h].new.status = "active"

RecordStays(r) ==
  \/ record[r].status \in Final => record'[r].status \in Final \cup {"halted"}
  \/ \E h \in Handlers : handler[h].ref = r /\ StaleSave(h)

\* Statuses stay, ends last and a refusal is not taken back.
Steady ==
  /\ \A r \in Refs : record'[r].status = record[r].status
  /\ \A r \in Refs : provider[r].status \in Final => provider'[r].status \in Final
  /\ \A r \in Refs : provider[r].status = "refused" => provider'[r].status = "refused"

LEMMA EventsEnd ==
  ASSUME IInv, EndedInv, Steady, UNCHANGED events
  PROVE  \A e \in 1..Len(events') : NextStatus(e)' \in Final =>
              provider'[events'[e].ref].status \in Final
  BY DEF IInv, EventInv, EndedInv, Steady, NextStatus, Ended

LEMMA HandlersStand ==
  ASSUME IInv, EndedInv, Steady, NEW h \in Handlers, handler'[h] = handler[h]
  PROVE  EndedOK(h)'
<1>1. HandlerOK(h) /\ EndedOK(h)
  BY DEF IInv, HandlerInv, EndedInv
<1> QED
  BY <1>1 DEF HandlerOK, EndedOK, Steady, Reading, Ended

\* A tab's step, and Razorpay's, when no status of a record changes.
LEMMA SteadyStep ==
  ASSUME IInv, EndedInv, Steady, UNCHANGED handler,
         \A t \in Tabs : tab'[t].at = "refused" =>
           tab'[t].ref \in Refs /\ provider'[tab'[t].ref].status = "refused",
         \A e \in 1..Len(events') : NextStatus(e)' \in Final =>
              provider'[events'[e].ref].status \in Final
  PROVE  EndedInv' /\ \A r \in Refs : RecordStays(r)
<1>1. \A h \in Handlers : EndedOK(h)'
  BY HandlersStand
<1> QED
  BY <1>1 DEF EndedInv, Steady, Ended, RecordStays

\* What tabs are refused stays refused.
LEMMA RefusedTabs ==
  ASSUME IInv, EndedInv, Steady, NEW t \in Tabs,
         \A u \in Tabs : u # t => tab'[u] = tab[u],
         tab'[t].at = "refused" => tab'[t].ref \in Refs /\ provider'[tab'[t].ref].status = "refused"
  PROVE  \A u \in Tabs : tab'[u].at = "refused" =>
           tab'[u].ref \in Refs /\ provider'[tab'[u].ref].status = "refused"
  BY DEF IInv, TabInv, TabOK, EndedInv, Steady

LEMMA DrawEnds ==
  ASSUME IInv, EndedInv, NEW t \in Tabs, NEW plan \in Plans,
         ClaimCreation(t, plan) \/ CreatePaymentLink(t, plan)
  PROVE  EndedInv' /\ \A r \in Refs : RecordStays(r)
<1>1. PICK r \in Refs, kind \in {"drawn", "link"}, at \in {"claimed", "recorded"} :
        /\ record' = [record EXCEPT ![r].kind = kind, ![r].plan = plan]
        /\ tab' = [tab EXCEPT ![t] = [at |-> at, ref |-> r]]
        /\ UNCHANGED <<provider, events, handler>>
  BY DEF ClaimCreation, CreatePaymentLink
<1>2. \A q \in Refs : record'[q].status = record[q].status
  BY <1>1 DEF IInv, TypeOK, Record
<1>3. Steady
  BY <1>1, <1>2 DEF Steady
<1>4. /\ tab'[t].at = at
      /\ \A u \in Tabs : u # t => tab'[u] = tab[u]
  BY <1>1 DEF IInv, TypeOK
<1> QED
  BY <1>1, <1>3, <1>4, EventsEnd, RefusedTabs, SteadyStep

LEMMA AskEnds ==
  ASSUME IInv, EndedInv, NEW t \in Tabs,
         \/ AskForSubscription(t) \/ AskForPaymentLink(t) \/ ReceiveAnswer(t)
         \/ SaveCheckout(t) \/ SavePaymentLink(t) \/ AttachSubscription(t)
         \/ ReleaseSubscriptionCreation(t) \/ TabDies(t)
  PROVE  EndedInv' /\ \A r \in Refs : RecordStays(r)
<1> DEFINE r == tab[t].ref
<1>1. UNCHANGED <<events, handler>>
  BY DEF AskForSubscription, AskForPaymentLink, ReceiveAnswer, SaveCheckout, SavePaymentLink,
         AttachSubscription, ReleaseSubscriptionCreation, TabDies
<1>2. \A q \in Refs : record'[q].status = record[q].status
  <2>1. \/ UNCHANGED record
        \/ record' = [record EXCEPT ![r].kind = "subscription"]
        \/ record' = [record EXCEPT ![r].sub = TRUE]
    BY DEF AskForSubscription, AskForPaymentLink, ReceiveAnswer, SaveCheckout, SavePaymentLink,
           AttachSubscription, ReleaseSubscriptionCreation, TabDies
  <2> HIDE DEF r
  <2>2. CASE record' = [record EXCEPT ![r].kind = "subscription"]
    BY <2>2 DEF IInv, TypeOK, Record
  <2>3. CASE record' = [record EXCEPT ![r].sub = TRUE]
    BY <2>3 DEF IInv, TypeOK, Record
  <2> QED
    BY <2>1, <2>2, <2>3
<1>3. Steady
  <2>1. CASE UNCHANGED provider
    BY <1>2, <2>1 DEF Steady
  <2>2. CASE provider' = [provider EXCEPT ![r].status = "asked"]
             /\ tab[t].at \in {"claimed", "recorded"}
    <3>1. r \in Refs /\ provider[r].status = "none"
      BY <2>2 DEF IInv, TabInv, TabOK, Placed
    <3> HIDE DEF r
    <3> QED
      BY <1>2, <2>2, <3>1 DEF Steady, Final, IInv, TypeOK
  <2> QED
    BY <2>1, <2>2
       DEF AskForSubscription, AskForPaymentLink, ReceiveAnswer, SaveCheckout, SavePaymentLink,
           AttachSubscription, ReleaseSubscriptionCreation, TabDies
<1>4. \A u \in Tabs : u # t => tab'[u] = tab[u]
  BY DEF AskForSubscription, AskForPaymentLink, ReceiveAnswer, SaveCheckout, SavePaymentLink,
         AttachSubscription, ReleaseSubscriptionCreation, TabDies, TabGoes, TabEnds, IInv, TypeOK
<1>5. tab'[t].at = "refused" => tab'[t].ref \in Refs /\ provider'[tab'[t].ref].status = "refused"
  <2>1. CASE ReceiveAnswer(t) /\ TabGoes(t, "refused")
    <3>1. r \in Refs /\ provider[r].status = "refused" /\ UNCHANGED provider
      BY <2>1, TabMoves DEF ReceiveAnswer, IInv, TabInv, TabOK
    <3> QED
      BY <2>1, <3>1, TabMoves DEF IInv
  <2>2. CASE \E at \in {"unwinding", "asked", "answered", "saved"} : TabGoes(t, at)
    BY <2>2, TabMoves DEF IInv
  <2>3. CASE TabEnds(t)
    BY <2>3, TabMoves DEF IInv
  <2> QED
    BY <2>1, <2>2, <2>3
       DEF AskForSubscription, AskForPaymentLink, ReceiveAnswer, SaveCheckout, SavePaymentLink,
           AttachSubscription, ReleaseSubscriptionCreation, TabDies
<1> QED
  BY <1>1, <1>3, <1>4, <1>5, EventsEnd, RefusedTabs, SteadyStep

\* A refused checkout fails; nothing else was ever made of it.
LEMMA FailEnds ==
  ASSUME IInv, EndedInv, NEW t \in Tabs, SaveFailed(t)
  PROVE  EndedInv' /\ \A r \in Refs : RecordStays(r)
<1> DEFINE r == tab[t].ref
<1>1. /\ r \in Refs /\ provider[r].status = "refused" /\ tab[t].at = "refused"
      /\ UNCHANGED <<provider, events, handler>>
      /\ record' = [record EXCEPT ![r].status = "failed"]
  BY DEF SaveFailed, EndedInv, IInv, TabInv, TabOK
<1>2. /\ \A u \in Tabs : u # t => tab'[u] = tab[u]
      /\ tab'[t].at # "refused"
  BY TabMoves DEF SaveFailed, IInv
<1> HIDE DEF r
<1>3. /\ record'[r].status = "failed"
      /\ \A q \in Refs : q # r => record'[q] = record[q]
      /\ record[r].status \notin Final /\ "failed" \notin Final
  <2>1. record \in [Refs -> Record] /\ record[r] \in Record
    BY <1>1 DEF IInv, TypeOK
  <2>2. record'[r] = [record[r] EXCEPT !.status = "failed"]
        /\ \A q \in Refs : q # r => record'[q] = record[q]
    BY <1>1, <2>1
  <2>3. record'[r].status = "failed"
    BY <2>1, <2>2 DEF Record
  <2>4. record[r].status \notin Final /\ "failed" \notin Final
    BY <1>1 DEF EndedInv, Ended, Final
  <2> QED
    BY <2>2, <2>3, <2>4
<1>4. ASSUME NEW h \in Handlers PROVE EndedOK(h)'
  BY <1>1 DEF EndedInv, EndedOK, Reading, Ended
<1> QED
  BY <1>1, <1>2, <1>3, <1>4 DEF EndedInv, Ended, NextStatus, RecordStays

\* A step at Razorpay is not one of an agreement that has ended or was refused.
LEMMA AdvanceEnds ==
  ASSUME IInv, EndedInv, NEW r \in Refs, NEW s \in Advanced, Advance(r, s),
         provider[r].status \notin Final \cup {"refused"}, UNCHANGED record
  PROVE  /\ Steady
         /\ s \in Final => provider'[r].status \in Final
         /\ \A e \in 1..Len(events') : NextStatus(e)' \in Final =>
                 provider'[events'[e].ref].status \in Final
<1>1. /\ provider'[r].status = s
      /\ \A q \in Refs : q # r => provider'[q] = provider[q]
  BY DEF Advance, IInv, TypeOK
<1>2. Steady
  BY <1>1 DEF Steady
<1>3. PICK name, paid, bare :
        /\ events' = Append(events, [ref |-> r, name |-> name, paid |-> paid, bare |-> bare])
        /\ name \in Final => s \in Final
  <2>1. Reported(r, s) \in Final => s \in Final
    BY DEF Reported, Final
  <2>2. "paid" \notin Final
    BY DEF Final
  <2> QED
    BY <2>1, <2>2 DEF Advance
<1> DEFINE event == [ref |-> r, name |-> name, paid |-> paid, bare |-> bare]
<1>4. /\ events' = Append(events, event) /\ events \in Seq(Event)
      /\ event.ref = r /\ event.name = name
  BY <1>3 DEF IInv, TypeOK
<1> HIDE DEF event
<1>5. /\ Len(events') = Len(events) + 1 /\ Len(events) \in Nat
      /\ events'[Len(events) + 1] = event
      /\ \A e \in 1..Len(events) : events'[e] = events[e]
  BY <1>4
<1>6. ASSUME NEW e \in 1..Len(events'), NextStatus(e)' \in Final
      PROVE  provider'[events'[e].ref].status \in Final
  <2>1. CASE e \in 1..Len(events)
    <3>1. NextStatus(e)' = NextStatus(e) /\ events'[e] = events[e]
      BY <1>5, <2>1 DEF NextStatus
    <3>2. provider[events[e].ref].status \in Final /\ events[e].ref \in Refs
      BY <1>6, <2>1, <3>1 DEF EndedInv, Ended, IInv, EventInv
    <3> QED
      BY <1>2, <3>1, <3>2 DEF Steady
  <2>2. CASE e = Len(events) + 1
    <3>1. events'[e] = event /\ mapWebhookStatus(name) \in Final
      BY <1>4, <1>5, <1>6, <2>2 DEF NextStatus
    <3>2. name \in Final
      BY <3>1 DEF mapWebhookStatus, Final
    <3> QED
      BY <1>1, <1>3, <1>4, <3>1, <3>2
  <2> QED
    BY <1>5, <2>1, <2>2
<1> QED
  BY <1>1, <1>2, <1>6

LEMMA ProviderEnds ==
  ASSUME IInv, EndedInv, NEW r \in Refs, ProviderAnswers(r) \/ ProviderAdvances(r)
  PROVE  EndedInv' /\ \A q \in Refs : RecordStays(q)
<1>1. UNCHANGED <<record, tab, handler>>
  BY DEF ProviderAnswers, ProviderAdvances
<1>2. /\ Steady
      /\ \A e \in 1..Len(events') : NextStatus(e)' \in Final =>
              provider'[events'[e].ref].status \in Final
  <2>1. CASE ProviderAnswers(r)
    <3>1. /\ provider[r].status = "asked" /\ UNCHANGED events
          /\ \A q \in Refs : q # r => provider'[q] = provider[q]
      BY <2>1 DEF ProviderAnswers, IInv, TypeOK
    <3>2. Steady
      BY <1>1, <3>1 DEF Steady, Final
    <3> QED
      BY <3>1, <3>2, EventsEnd
  <2>2. ASSUME NEW s \in Successors(record[r].kind, provider[r].status), Advance(r, s)
        PROVE  /\ Steady
               /\ \A e \in 1..Len(events') : NextStatus(e)' \in Final =>
                       provider'[events'[e].ref].status \in Final
    <3>1. PICK kind, status : kind = record[r].kind /\ status = provider[r].status
      OBVIOUS
    <3>2. s \in Advanced /\ status \notin Final \cup {"refused"}
      BY <2>2, <3>1 DEF Successors, Advanced, Final
    <3> QED
      BY <1>1, <2>2, <3>1, <3>2, AdvanceEnds
  <2> QED
    BY <2>1, <2>2 DEF ProviderAdvances
<1>3. \A t \in Tabs : tab'[t].at = "refused" =>
        tab'[t].ref \in Refs /\ provider'[tab'[t].ref].status = "refused"
  BY <1>1, <1>2 DEF Steady, EndedInv, IInv, TabInv, TabOK
<1> QED
  BY <1>1, <1>2, <1>3, SteadyStep

-----------------------------------------------------------------------------
(* The handlers *)

LEMMA HandlerEndsOK ==
  ASSUME IInv, EndedInv, NEW h \in Handlers,
         \A g \in Handlers : g # h => handler'[g] = handler[g],
         UNCHANGED tab,
         \A r \in Refs : provider[r].status = "refused" => provider'[r].status = "refused",
         \A r \in Refs : provider[r].status \in Final => provider'[r].status \in Final,
         \A r \in Refs : record'[r].status \in Final => provider'[r].status \in Final,
         \A e \in 1..Len(events') : NextStatus(e)' \in Final =>
              provider'[events'[e].ref].status \in Final,
         EndedOK(h)'
  PROVE  EndedInv'
<1>1. ASSUME NEW g \in Handlers, g # h
      PROVE  EndedOK(g)'
  <2>1. HandlerOK(g) /\ EndedOK(g) /\ handler'[g] = handler[g]
    BY <1>1 DEF IInv, HandlerInv, EndedInv
  <2>2. Reading(g) => handler[g].ref \in Refs
    BY <2>1 DEF HandlerOK
  <2> QED
    BY <2>1, <2>2 DEF EndedOK, Reading, Ended
<1>2. \A g \in Handlers : EndedOK(g)'
  BY <1>1
<1>3. \A t \in Tabs : tab'[t].at = "refused" => provider'[tab'[t].ref].status = "refused"
  BY DEF EndedInv, IInv, TabInv, TabOK
<1> QED
  BY <1>2, <1>3 DEF EndedInv, Ended

\* The step of a handler that writes at most the workspace.
LEMMA HandlerQuietly ==
  ASSUME IInv, EndedInv, NEW h \in Handlers,
         \A g \in Handlers : g # h => handler'[g] = handler[g],
         UNCHANGED <<record, provider, events, tab>>, EndedOK(h)'
  PROVE  EndedInv' /\ \A r \in Refs : RecordStays(r)
<1>1. Steady
  BY DEF Steady
<1>2. EndedInv'
  BY <1>1, EventsEnd, HandlerEndsOK DEF EndedInv, Ended
<1> QED
  BY <1>2 DEF RecordStays

\* What a webhook's handler takes up: the record as stored, and the record it will save.
LEMMA Received ==
  ASSUME IInv, NEW h \in Handlers, NEW e \in EventIds, ReceiveWebhook(h, e)
  PROVE  /\ e \in 1..Len(events) /\ events[e].ref \in Refs /\ Undisturbed(h)
         /\ ~OutOfDate(record[events[e].ref], e)
         /\ UNCHANGED <<workspace, record, provider, events, tab>>
         /\ handler[h].at = "idle" /\ handler'[h].at \in {"read", "released"}
         /\ handler'[h].ref = events[e].ref
         /\ handler'[h].old = record[events[e].ref]
         /\ handler'[h].new.status = NextStatus(e)
         /\ \A g \in Handlers : g # h => handler'[g] = handler[g]
         /\ record[events[e].ref].status \in Final => NextStatus(e) \in Final \cup {"halted"}
<1> DEFINE r == events[e].ref
           old == record[r]
<1>1. /\ e \in 1..Len(events) /\ Undisturbed(h) /\ ~OutOfDate(old, e) /\ r \in Refs
      /\ UNCHANGED <<workspace, record, provider, events, tab>> /\ handler[h].at = "idle"
  BY DEF ReceiveWebhook, IInv, EventInv
<1>2. /\ handler'[h].at \in {"read", "released"} /\ handler'[h].ref = r
      /\ handler'[h].old = old /\ handler'[h].new.status = NextStatus(e)
      /\ \A g \in Handlers : g # h => handler'[g] = handler[g]
  <2> DEFINE subscription == old.kind = "subscription"
             paidLink == ~subscription /\ NextStatus(e) = "paid" /\ ~old.paid
             at == IF subscription \/ paidLink THEN "read" ELSE "released"
             new == [old EXCEPT !.status = NextStatus(e), !.last = e, !.seen = @ \cup {e},
                                !.sub = @ \/ (subscription /\ ~events[e].bare),
                                !.paid = @ \/ paidLink]
  <2>1. handler' = [handler EXCEPT ![h] =
          [IdleHandler EXCEPT !.at = at, !.ref = r, !.event = e, !.old = old, !.new = new]]
    BY DEF ReceiveWebhook
  <2>2. old \in Record
    BY <1>1 DEF IInv, TypeOK, EventInv
  <2>3. new.status = NextStatus(e)
    <3>1. PICK status : status = NextStatus(e)
      OBVIOUS
    <3>2. PICK rec \in Record : rec = old
      BY <2>2
    <3> DEFINE sub == rec.sub \/ (subscription /\ ~events[e].bare)
               paid == rec.paid \/ paidLink
    <3>3. new = [rec EXCEPT !.status = status, !.last = e, !.seen = @ \cup {e},
                            !.sub = sub, !.paid = paid]
      BY <3>1, <3>2
    <3> HIDE DEF new, sub, paid, r, old
    <3>4. new.status = status
      BY <3>3 DEF Record
    <3> QED
      BY <3>1, <3>4
  <2>4. at \in {"read", "released"}
    OBVIOUS
  <2> HIDE DEF new, old, at, r
  <2>5. PICK idle \in Handler : idle = IdleHandler
    BY Constants
  <2> DEFINE x == [idle EXCEPT !.at = at, !.ref = r, !.event = e, !.old = old, !.new = new]
  <2>6. x.at = at /\ x.ref = r /\ x.old = old /\ x.new = new
    BY <2>5 DEF Handler
  <2>7. handler' = [handler EXCEPT ![h] = x]
    BY <2>1, <2>5
  <2> HIDE DEF x
  <2> QED
    BY <2>3, <2>4, <2>6, <2>7 DEF IInv, TypeOK
<1>3. old.status \in Final => NextStatus(e) \in Final \cup {"halted"}
  <2>1. /\ NextStatus(e) \in EventNames \cup {"active"}
        /\ NextStatus(e) \notin {"activated", "charged"}
    <3>1. events[e] \in Event
      BY <1>1 DEF IInv, TypeOK
    <3> QED
      BY <3>1 DEF NextStatus, mapWebhookStatus, Event, EventNames
  <2> HIDE DEF NextStatus
  <2> QED
    BY <1>1, <2>1 DEF OutOfDate, EventNames, Final
<1> QED
  BY <1>1, <1>2, <1>3

LEMMA ReceiveEnds ==
  ASSUME IInv, EndedInv, NEW h \in Handlers, NEW e \in EventIds, ReceiveWebhook(h, e)
  PROVE  EndedInv' /\ \A r \in Refs : RecordStays(r)
<1>1. PICK r \in Refs : r = events[e].ref
  BY Received
<1>2. NextStatus(e) \in Final => Ended(r)
  BY <1>1, Received DEF EndedInv
<1>3. record[r].status \in Final => Ended(r)
  BY DEF EndedInv
<1>4. EndedOK(h)'
  BY <1>1, <1>2, <1>3, Received DEF EndedOK, Reading, Ended
<1> QED
  BY <1>4, Received, HandlerQuietly

LEMMA AskStatusEnds ==
  ASSUME IInv, EndedInv, NEW h \in Handlers, AskForStatus(h) \/ AskToCancel(h)
  PROVE  EndedInv' /\ \A r \in Refs : RecordStays(r)
<1> DEFINE r == workspace.sub
<1>1. UNCHANGED <<record, provider, events, tab>> /\ Undisturbed(h)
  <2>1. UNCHANGED <<record, provider, events, tab>>
    BY DEF AskForStatus, AskToCancel
  <2> QED
    BY <2>1 DEF AskForStatus, AskToCancel
<1>2. PICK idle \in Handler : idle = IdleHandler
  BY Constants
<1>3. CASE AskForStatus(h)
  <2>1. handler' = [handler EXCEPT ![h] =
                     [idle EXCEPT !.at = "asking", !.ref = r, !.old = record[r]]]
    BY <1>2, <1>3 DEF AskForStatus
  <2> HIDE DEF r
  <2>2. /\ handler'[h].at = "asking" /\ handler'[h].ref = r /\ handler'[h].old = record[r]
        /\ \A g \in Handlers : g # h => handler'[g] = handler[g]
    BY <2>1 DEF IInv, TypeOK, Handler
  <2>3. r \in Refs
    BY <1>3 DEF AskForStatus, IInv, TypeOK, Workspace, r, Refs
  <2>4. EndedOK(h)'
    BY <1>1, <2>2, <2>3 DEF EndedOK, Reading, EndedInv, Ended
  <2> QED
    BY <1>1, <2>2, <2>4, HandlerQuietly
<1>4. CASE AskToCancel(h)
  <2>1. handler' = [handler EXCEPT ![h] =
                     [idle EXCEPT !.at = "cancelling", !.ref = r, !.ws = workspace]]
    BY <1>2, <1>4 DEF AskToCancel
  <2> HIDE DEF r
  <2>2. /\ handler'[h].at = "cancelling"
        /\ \A g \in Handlers : g # h => handler'[g] = handler[g]
    BY <2>1 DEF IInv, TypeOK, Handler
  <2>3. EndedOK(h)'
    BY <2>2 DEF EndedOK, Reading
  <2> QED
    BY <1>1, <2>2, <2>3, HandlerQuietly
<1> QED
  BY <1>3, <1>4

\* A handler ends.
LEMMA HandlerGone ==
  ASSUME IInv, EndedInv, NEW h \in Handlers, handler[h].at # "idle", HandlerEnds(h),
         UNCHANGED <<provider, events, tab>>,
         \A r \in Refs : record'[r].status \in Final => provider[r].status \in Final
  PROVE  EndedInv'
<1>1. handler'[h].at = "idle" /\ \A g \in Handlers : g # h => handler'[g] = handler[g]
  BY HandlerMoves DEF IInv
<1>2. EndedOK(h)'
  BY <1>1 DEF EndedOK, Reading
<1>3. \A e \in 1..Len(events') : NextStatus(e)' \in Final =>
           provider'[events'[e].ref].status \in Final
  BY DEF EndedInv, Ended, NextStatus
<1> QED
  BY <1>1, <1>2, <1>3, HandlerEndsOK

\* A handler goes on with what it read and is about to write.
LEMMA GoesOnEnds ==
  ASSUME IInv, EndedInv, NEW h \in Handlers,
         \/ LoadWorkspace(h) \/ SaveWorkspace(h) \/ ReleaseClaim(h)
         \/ SaveCancellation(h) \/ HandlerFails(h)
  PROVE  EndedInv' /\ \A r \in Refs : RecordStays(r)
<1>1. UNCHANGED <<record, provider, events, tab>> /\ handler[h].at # "idle"
  BY DEF LoadWorkspace, SaveWorkspace, ReleaseClaim, SaveCancellation, HandlerFails
<1>2. CASE HandlerFails(h)
  <2>1. EndedInv'
    BY <1>1, <1>2, HandlerGone DEF HandlerFails, EndedInv, Ended
  <2> QED
    BY <1>1, <2>1 DEF RecordStays
<1>3. CASE ~HandlerFails(h)
  <2>1. PICK at \in {"loaded", "released", "saved", "marked"} :
          /\ \/ \E ws : handler' = [handler EXCEPT ![h].at = at, ![h].ws = ws]
             \/ handler' = [handler EXCEPT ![h].at = at]
          /\ IF at = "marked" THEN handler[h].at = "agreed"
             ELSE handler[h].at \in {"read", "loaded", "saved"}
    BY <1>3 DEF LoadWorkspace, SaveWorkspace, ReleaseClaim, SaveCancellation, HandlerGoes
  <2>2. /\ handler'[h].at = at /\ handler'[h].ref = handler[h].ref
        /\ handler'[h].old = handler[h].old /\ handler'[h].new = handler[h].new
        /\ \A g \in Handlers : g # h => handler'[g] = handler[g]
    <3>1. CASE \E ws : handler' = [handler EXCEPT ![h].at = at, ![h].ws = ws]
      BY <3>1 DEF IInv, TypeOK, Handler
    <3>2. CASE handler' = [handler EXCEPT ![h].at = at]
      BY <3>2 DEF IInv, TypeOK, Handler
    <3> QED
      BY <2>1, <3>1, <3>2
  <2>3. EndedOK(h)
    BY DEF EndedInv
  <2>4. EndedOK(h)'
    BY <1>1, <2>1, <2>2, <2>3 DEF EndedOK, Reading, Ended
  <2> QED
    BY <1>1, <2>2, <2>4, HandlerQuietly
<1> QED
  BY <1>2, <1>3

LEMMA SyncEnds ==
  ASSUME IInv, EndedInv, NEW h \in Handlers, SyncSubscription(h)
  PROVE  EndedInv' /\ \A r \in Refs : RecordStays(r)
<1>1. UNCHANGED <<record, provider, events, tab>> /\ handler[h].at = "asking"
  BY DEF SyncSubscription
<1>2. PICK r \in Refs, old \in Record, me \in Handler :
        r = handler[h].ref /\ old = handler[h].old /\ me = handler[h]
  BY <1>1 DEF IInv, TypeOK, Handler, HandlerInv, HandlerOK, Reading
<1>3. old.status \in Final => Ended(r)
  BY <1>1, <1>2 DEF EndedInv, EndedOK, Reading
<1> DEFINE status == provider[r].status
           new == [old EXCEPT !.status = status]
<1>4. new.status = status
  BY DEF Record
<1>5. handler' = [handler EXCEPT ![h].at = "read", ![h].new = new]
  BY <1>2 DEF SyncSubscription
<1> HIDE DEF new
<1>6. /\ handler'[h].at = "read" /\ handler'[h].ref = r
      /\ handler'[h].old = old /\ handler'[h].new = new
      /\ \A g \in Handlers : g # h => handler'[g] = handler[g]
  BY <1>2, <1>5 DEF IInv, TypeOK, Handler
<1>7. old.status \in Final => status \in Final
  BY <1>3 DEF Ended
<1>8. EndedOK(h)'
  BY <1>1, <1>3, <1>4, <1>6, <1>7 DEF EndedOK, Reading, Ended
<1> QED
  BY <1>1, <1>6, <1>8, HandlerQuietly

LEMMA CancelEnds ==
  ASSUME IInv, EndedInv, NEW h \in Handlers, CancelAgreed(h)
  PROVE  EndedInv' /\ \A r \in Refs : RecordStays(r)
<1>1. UNCHANGED <<workspace, record, tab>> /\ handler[h].at = "cancelling"
  BY DEF CancelAgreed
<1>2. PICK r \in Refs : r = handler[h].ref
  BY <1>1 DEF IInv, HandlerInv, HandlerOK
<1>3. ASSUME NEW status,
             handler' = [handler EXCEPT ![h].at = "agreed", ![h].new.status = status]
      PROVE  /\ handler'[h].at = "agreed" /\ handler'[h].ref = r
             /\ handler'[h].new.status = status
             /\ \A g \in Handlers : g # h => handler'[g] = handler[g]
  <2>1. PICK me \in Handler, old \in Record : me = handler[h] /\ old = me.new
    BY DEF IInv, TypeOK, Handler
  <2> DEFINE new == [old EXCEPT !.status = status]
             x == [me EXCEPT !.at = "agreed", !.new = new]
  <2>2. new.status = status
    BY DEF Record
  <2>3. handler' = [handler EXCEPT ![h] = x]
    BY <1>3, <2>1 DEF IInv, TypeOK, Handler
  <2> HIDE DEF new
  <2>4. x.at = "agreed" /\ x.ref = r /\ x.new = new
    BY <1>2, <2>1 DEF Handler
  <2> HIDE DEF x
  <2> QED
    BY <2>2, <2>3, <2>4 DEF IInv, TypeOK
<1>4. CASE /\ provider[r].status = "active" /\ UNCHANGED <<provider, events>>
           /\ handler' = [handler EXCEPT ![h].at = "agreed", ![h].new.status = "active"]
  <2>1. /\ handler'[h].at = "agreed" /\ handler'[h].ref = r
        /\ handler'[h].new.status = "active"
        /\ \A g \in Handlers : g # h => handler'[g] = handler[g]
    BY <1>3, <1>4
  <2>2. EndedOK(h)'
    BY <1>1, <2>1 DEF EndedOK, Reading
  <2> QED
    BY <1>1, <1>4, <2>1, <2>2, HandlerQuietly
<1>5. CASE /\ provider[r].status \in {"created", "authenticated", "pending", "halted"}
           /\ Advance(r, "cancelled")
           /\ handler' = [handler EXCEPT ![h].at = "agreed", ![h].new.status = "cancelled"]
  <2>1. /\ handler'[h].at = "agreed" /\ handler'[h].ref = r
        /\ handler'[h].new.status = "cancelled"
        /\ \A g \in Handlers : g # h => handler'[g] = handler[g]
    BY <1>3, <1>5
  <2>2. /\ Steady /\ provider'[r].status \in Final
        /\ \A e \in 1..Len(events') : NextStatus(e)' \in Final =>
                provider'[events'[e].ref].status \in Final
    BY <1>1, <1>5, AdvanceEnds DEF Advanced, Final
  <2>3. EndedOK(h)'
    BY <2>1, <2>2 DEF EndedOK, Reading, Ended
  <2>4. EndedInv'
    BY <1>1, <2>1, <2>2, <2>3, HandlerEndsOK DEF Steady, EndedInv, Ended
  <2> QED
    BY <1>1, <2>4 DEF RecordStays
<1> QED
  BY <1>2, <1>4, <1>5 DEF CancelAgreed

\* Only here does a handler write a record: what it has read as ended it leaves ended.
LEMMA SaveEnds ==
  ASSUME IInv, EndedInv, NEW h \in Handlers, SaveRecord(h) \/ MarkCancelled(h)
  PROVE  EndedInv' /\ \A r \in Refs : RecordStays(r)
<1>1. UNCHANGED <<provider, events, tab>> /\ HandlerEnds(h) /\ handler[h].at # "idle"
  BY DEF SaveRecord, MarkCancelled
<1>2. PICK r \in Refs, me \in Handler, stored \in Record, old \in Record, new \in Record :
        /\ r = handler[h].ref /\ me = handler[h] /\ stored = record[r]
        /\ old = me.old /\ new = me.new
  BY DEF SaveRecord, MarkCancelled, IInv, TypeOK, Handler, HandlerInv, HandlerOK, Reading,
         EndedInv, EndedOK
<1>3. EndedOK(h)
  BY DEF EndedInv
<1>4. ASSUME NEW saved, record' = [record EXCEPT ![r] = saved],
             saved.status \in Final => Ended(r),
             \/ stored.status \in Final => saved.status \in Final \cup {"halted"}
             \/ StaleSave(h)
      PROVE  EndedInv' /\ \A q \in Refs : RecordStays(q)
  <2>1. record'[r] = saved /\ \A q \in Refs : q # r => record'[q] = record[q]
    BY <1>4 DEF IInv, TypeOK
  <2>2. \A q \in Refs : record'[q].status \in Final => provider[q].status \in Final
    BY <1>4, <2>1 DEF EndedInv, Ended
  <2> QED
    BY <1>1, <1>2, <1>4, <2>1, <2>2, HandlerGone DEF RecordStays
<1>5. CASE UNCHANGED record
  <2>1. EndedInv'
    BY <1>1, <1>5, HandlerGone DEF EndedInv, Ended
  <2> QED
    BY <1>5, <2>1 DEF RecordStays
<1>6. CASE SaveRecord(h) /\ ~UNCHANGED record
  <2> DEFINE saved == SaveFields(stored, old, new)
  <2>1. record' = [record EXCEPT ![r] = saved]
    BY <1>2, <1>6 DEF SaveRecord
  <2>2. /\ old.status \in Final => new.status \in Final \cup {"halted"}
        /\ new.status \in Final => Ended(r)
        /\ stored.status \in Final => Ended(r)
        /\ old.status \notin Final => StaleSave(h)
    BY <1>2, <1>3, <1>6 DEF SaveRecord, EndedOK, Reading, StaleSave, EndedInv
  <2>3. saved.status = IF new.status # old.status THEN new.status ELSE stored.status
    <3>1. "status" \in DOMAIN stored
      BY DEF Record
    <3> QED
      BY <3>1 DEF SaveFields
  <2> HIDE DEF saved
  <2> QED
    BY <1>4, <2>1, <2>2, <2>3
<1>7. CASE MarkCancelled(h) /\ ~UNCHANGED record
  <2> DEFINE status == new.status
             saved == [stored EXCEPT !.status = status]
  <2>1. record' = [record EXCEPT ![r] = saved]
    BY <1>2, <1>7 DEF MarkCancelled
  <2>2. saved.status = status
    BY DEF Record
  <2>3. \/ status = "cancelled" /\ Ended(r)
        \/ status = "active" /\ StaleSave(h)
    BY <1>2, <1>3, <1>7 DEF MarkCancelled, EndedOK, StaleSave
  <2>4. "cancelled" \in Final /\ "active" \notin Final
    BY DEF Final
  <2> HIDE DEF saved, status
  <2> QED
    BY <1>4, <2>1, <2>2, <2>3, <2>4
<1> QED
  BY <1>5, <1>6, <1>7

LEMMA EndedInductive ==
  ASSUME IInv, EndedInv, [Next]_vars
  PROVE  EndedInv' /\ \A r \in Refs : RecordStays(r)
<1>1. ASSUME NEW t \in Tabs, TabStep(t)
      PROVE  EndedInv' /\ \A r \in Refs : RecordStays(r)
  BY <1>1, DrawEnds, AskEnds, FailEnds DEF TabStep
<1>2. ASSUME NEW h \in Handlers, HandlerStep(h)
      PROVE  EndedInv' /\ \A r \in Refs : RecordStays(r)
  BY <1>2, ReceiveEnds, AskStatusEnds, GoesOnEnds, SyncEnds, CancelEnds, SaveEnds DEF HandlerStep
<1>3. CASE UNCHANGED vars
  BY <1>3 DEF vars, EndedInv, EndedOK, Ended, Reading, NextStatus, RecordStays
<1> QED
  BY <1>1, <1>2, <1>3, ProviderEnds DEF Next

LEMMA EndedInitHolds == Init => EndedInv
<1> SUFFICES ASSUME Init PROVE EndedInv
  OBVIOUS
<1>1. /\ \A r \in Refs : record[r] = NoRecord /\ NoRecord.status = "created"
      /\ events = <<>>
      /\ \A t \in Tabs : tab[t].at = "idle"
      /\ \A h \in Handlers : handler[h].at = "idle"
  BY DEF Init, NoRecord, IdleTab, IdleHandler
<1> QED
  BY <1>1 DEF EndedInv, EndedOK, Reading, Final

(***************************************************************************)
(* A record that has ended becomes active again (against the test at       *)
(* billingController.test.js:649) only by "halted"                         *)
(* (billingController.js:867) or by a stale save: no order of requests,    *)
(* whether or not they overlap or die between their saves, lets a handler  *)
(* that read the record after its end undo it.  For any number of          *)
(* checkouts, events, tabs and handlers, and with Torn or without.         *)
(***************************************************************************)
EndsUnlessStale ==
  [][\A r \in Refs :
       record[r].status \in Final /\ record'[r].status \notin Final \cup {"halted"} =>
         \E h \in Handlers : handler[h].ref = r /\ StaleSave(h)]_vars

THEOREM EndsAreFinal == Spec => EndsUnlessStale
<1> DEFINE Stays == \A r \in Refs :
              record[r].status \in Final /\ record'[r].status \notin Final \cup {"halted"} =>
                \E h \in Handlers : handler[h].ref = r /\ StaleSave(h)
<1>1. IInv /\ EndedInv /\ [Next]_vars => IInv' /\ EndedInv' /\ Stays
  BY Inductive, EndedInductive DEF RecordStays
<1>2. Init => IInv /\ EndedInv
  BY InitHolds, EndedInitHolds
<1>3. Spec => [][Stays]_vars
  BY <1>1, <1>2, PTL DEF Spec
<1> QED
  BY <1>3 DEF EndsUnlessStale
=============================================================================
