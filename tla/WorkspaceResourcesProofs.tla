------------------------ MODULE WorkspaceResourcesProofs ------------------------
(***************************************************************************)
(* Two proofs about what a workspace owns, for any number of requests,     *)
(* short codes, hostnames and plans.  Its active links stay within its     *)
(* plan: IInv, to which the arrays of domains do not matter.  And its      *)
(* domains are verified by their own tokens and lost by their own removal  *)
(* only: DomainInv, which says what a handler's copy is worth while the    *)
(* version it was read with stands.                                        *)
(***************************************************************************)
EXTENDS WorkspaceResources, FiniteSetTheorems, SequenceTheorems, WellFoundedInduction, TLAPS

USE ResourcesAssumption

\* The documents and the requests are records of the fields the module gives them.
WorkspaceShape(d) == d \in [plan : Plans, domains : {d.domains}, v : {d.v}]
LinkShape(d) == d \in [state : {d.state}, owned : BOOLEAN, host : {d.host}]
RequestShape(r) ==
  r \in [at : {r.at}, host : {r.host}, code : {r.code}, plan : {r.plan},
         copy : {r.copy}, v : {r.v}]

ShapeInv ==
  /\ WorkspaceShape(workspace)
  /\ link = [c \in Codes |-> link[c]] /\ \A c \in Codes : LinkShape(link[c])
  /\ request = [q \in Requests |-> request[q]] /\ \A q \in Requests : RequestShape(request[q])
  /\ writer \in Requests \cup {None}

\* The request between its count and its insert holds the workspace document.
WriterInv == \A q \in Requests : request[q].at = "inserting" <=> writer = q

\* While it does, the count it made is still below the limit of the plan it resolved,
\* and that plan can only have lapsed.
RoomInv ==
  \A q \in Requests : writer = q =>
    /\ request[q].plan \in Plans
    /\ Cardinality(ActiveLinks) < LinkLimit[request[q].plan]
    /\ workspace.plan \in {request[q].plan, Free}

IInv == ShapeInv /\ WriterInv /\ RoomInv

LEMMA ActiveLinksFinite ==
  IsFiniteSet(ActiveLinks) /\ Cardinality(ActiveLinks) \in Nat
<1>1. ActiveLinks \subseteq Codes
  BY DEF ActiveLinks
<1> QED
  BY <1>1, FS_Subset, FS_CardinalityType

-----------------------------------------------------------------------------
(* Requests outside the transaction *)

\* Request q goes on, and is not in the transaction afterwards.
Moves(q) ==
  /\ request' = [r \in Requests |-> request'[r]]
  /\ \A r \in Requests : r # q => request'[r] = request[r]
  /\ RequestShape(request'[q])
  /\ request'[q].at # "inserting"

LEMMA EndsMoves ==
  ASSUME IInv, NEW q \in Requests, Ends(q)
  PROVE  Moves(q)
<1>1. RequestShape(IdleRequest) /\ IdleRequest.at = "idle"
  BY DEF RequestShape, IdleRequest
<1>2. request' = [request EXCEPT ![q] = IdleRequest]
  BY DEF Ends
<1> HIDE DEF IdleRequest, RequestShape
<1> QED
  BY <1>1, <1>2 DEF IInv, ShapeInv, Moves

LEMMA GoesTo ==
  ASSUME IInv, NEW q \in Requests, NEW at, Goes(q, at)
  PROVE  /\ request' = [r \in Requests |-> request'[r]]
         /\ \A r \in Requests : r # q => request'[r] = request[r]
         /\ RequestShape(request'[q])
         /\ request'[q].at = at
<1>1. /\ request = [r \in Requests |-> request[r]]
      /\ request[q] \in [at : {request[q].at}, host : {request[q].host},
                         code : {request[q].code}, plan : {request[q].plan},
                         copy : {request[q].copy}, v : {request[q].v}]
  BY DEF IInv, ShapeInv, RequestShape
<1>2. request'[q] = [request[q] EXCEPT !.at = at]
  BY <1>1 DEF Goes
<1>3. request'[q] = [at |-> at, host |-> request[q].host, code |-> request[q].code,
                     plan |-> request[q].plan, copy |-> request[q].copy, v |-> request[q].v]
  BY <1>1, <1>2
<1>4. /\ request' = [r \in Requests |-> request'[r]]
      /\ \A r \in Requests : r # q => request'[r] = request[r]
  BY <1>1 DEF Goes
<1> QED
  BY <1>3, <1>4 DEF RequestShape

LEMMA GoesMoves ==
  ASSUME IInv, NEW q \in Requests, NEW at, at # "inserting", Goes(q, at)
  PROVE  Moves(q)
BY GoesTo DEF Moves

LEMMA BeginsMoves ==
  ASSUME IInv, NEW q \in Requests, NEW at, NEW host, at # "inserting",
         BeginsWithCopy(q, at, host)
  PROVE  Moves(q)
<1>1. PICK copy, v : request' = [request EXCEPT ![q] = [at |-> at, host |-> host, code |-> None,
                                                        plan |-> None, copy |-> copy, v |-> v]]
  BY DEF BeginsWithCopy
<1> QED
  BY <1>1 DEF IInv, ShapeInv, Moves, RequestShape

LEMMA BeginsLinkMoves ==
  ASSUME IInv, NEW q \in Requests, NEW at, NEW host, NEW code, at # "inserting",
         BeginsWithLink(q, at, host, code)
  PROVE  Moves(q)
<1>1. request' = [request EXCEPT ![q] = [at |-> at, host |-> host, code |-> code,
                                         plan |-> None, copy |-> <<>>, v |-> 0]]
  BY DEF BeginsWithLink
<1> QED
  BY <1>1 DEF IInv, ShapeInv, Moves, RequestShape

-----------------------------------------------------------------------------
(* The steps *)

\* Domains come and go, links end, requests go on: nothing a transaction relies on.
LEMMA QuietStep ==
  ASSUME IInv, NEW q \in Requests, request[q].at # "inserting",
         Moves(q) \/ UNCHANGED request,
         WorkspaceShape(workspace'), workspace'.plan = workspace.plan,
         link' = [c \in Codes |-> link'[c]], \A c \in Codes : LinkShape(link'[c]),
         ActiveLinks' \subseteq ActiveLinks, writer' = writer
  PROVE  IInv'
<1>1. /\ request' = [r \in Requests |-> request'[r]]
      /\ \A r \in Requests : RequestShape(request'[r])
      /\ \A r \in Requests : request'[r].at = "inserting" <=> request[r].at = "inserting"
  BY DEF Moves, IInv, ShapeInv
<1>2. Cardinality(ActiveLinks') <= Cardinality(ActiveLinks)
  BY ActiveLinksFinite, FS_Subset
<1>3. Cardinality(ActiveLinks') \in Nat /\ Cardinality(ActiveLinks) \in Nat
  BY ActiveLinksFinite, FS_Subset, FS_CardinalityType
<1>4. ASSUME NEW r \in Requests, writer' = r
      PROVE  /\ request[r].plan \in Plans /\ request'[r] = request[r]
             /\ Cardinality(ActiveLinks) < LinkLimit[request[r].plan]
             /\ workspace'.plan \in {request[r].plan, Free}
  <2>1. writer = r /\ r # q
    BY <1>4 DEF IInv, WriterInv
  <2>2. request'[r] = request[r]
    BY <2>1 DEF Moves
  <2> QED
    BY <2>1, <2>2 DEF IInv, RoomInv
<1>5. RoomInv'
  BY <1>2, <1>3, <1>4 DEF RoomInv
<1> QED
  BY <1>1, <1>5 DEF IInv, ShapeInv, WriterInv

LEMMA DomainStepKeeps ==
  ASSUME IInv, NEW q \in Requests, DomainStep(q)
  PROVE  IInv'
<1>1. request[q].at # "inserting" /\ UNCHANGED <<link, writer>>
  BY DEF DomainStep, AddCustomDomain, VerifyCustomDomain, SetPrimaryCustomDomain,
         RemoveCustomDomain, AddManagedEmailDomain, VerifyManagedEmailDomain,
         RemoveManagedEmailDomain, SaveCustomDomain, SaveManagedEmailDomain, SaveAdded,
         LookUpTxt, SaveVerified, SaveUnverified, SavePendingAfterError, SavePrimary,
         SaveRemoved, BeginsWithCopy
<1>2. Moves(q)
  <2>1. ASSUME NEW host, NEW at \in {"adding", "verifying", "promoting", "removing"},
               BeginsWithCopy(q, at, host)
        PROVE  Moves(q)
    BY <2>1, BeginsMoves
  <2>2. ASSUME NEW at \in {"found", "missing", "again"}, Goes(q, at)
        PROVE  Moves(q)
    BY <2>2, GoesMoves
  <2>3. ASSUME Ends(q)
        PROVE  Moves(q)
    BY <2>3, EndsMoves
  <2> QED
    BY <2>1, <2>2, <2>3
       DEF DomainStep, AddCustomDomain, VerifyCustomDomain, SetPrimaryCustomDomain,
           RemoveCustomDomain, AddManagedEmailDomain, VerifyManagedEmailDomain,
           RemoveManagedEmailDomain, SaveCustomDomain, SaveManagedEmailDomain, SaveAdded,
           LookUpTxt, SaveVerified, SaveUnverified, SavePendingAfterError, SavePrimary,
           SaveRemoved
<1>3. WorkspaceShape(workspace') /\ workspace'.plan = workspace.plan
  <2>0. WorkspaceShape(workspace)
    BY DEF IInv, ShapeInv
  <2>1. ASSUME NEW primary, SaveAdded(q, primary)
        PROVE  WorkspaceShape(workspace') /\ workspace'.plan = workspace.plan
    BY <2>0, <2>1 DEF SaveAdded, WorkspaceShape
  <2>2. ASSUME NEW status, NEW changed, SaveStatus(q, status, changed)
        PROVE  WorkspaceShape(workspace') /\ workspace'.plan = workspace.plan
    BY <2>0, <2>2 DEF SaveStatus, WorkspaceShape
  <2>3. CASE SavePrimary(q)
    BY <2>0, <2>3 DEF SavePrimary, WorkspaceShape
  <2>4. CASE SaveRemoved(q)
    BY <2>0, <2>4 DEF SaveRemoved, WorkspaceShape
  <2>5. CASE UNCHANGED workspace
    BY <2>0, <2>5 DEF WorkspaceShape
  <2> QED
    BY <2>1, <2>2, <2>3, <2>4, <2>5
       DEF DomainStep, AddCustomDomain, VerifyCustomDomain, SetPrimaryCustomDomain,
           RemoveCustomDomain, AddManagedEmailDomain, VerifyManagedEmailDomain,
           RemoveManagedEmailDomain, SaveCustomDomain, SaveManagedEmailDomain,
           LookUpTxt, SaveVerified, SaveUnverified, SavePendingAfterError
<1> QED
  BY <1>1, <1>2, <1>3, QuietStep DEF IInv, ShapeInv, ActiveLinks

\* A link document is written: what it was does not matter to its shape.
LEMMA LinkWritten ==
  ASSUME IInv, NEW c, NEW r, LinkShape(r), link' = [link EXCEPT ![c] = r]
  PROVE  /\ link' = [b \in Codes |-> link'[b]]
         /\ \A b \in Codes : LinkShape(link'[b])
         /\ \A b \in Codes : b # c => link'[b] = link[b]
         /\ c \in Codes => link'[c] = r
<1> HIDE DEF LinkShape
<1> QED
  BY DEF IInv, ShapeInv

\* A link that ends leaves the active ones.
LEMMA LinkEnded ==
  ASSUME IInv, NEW c, link' = [link EXCEPT ![c].state = "ended"]
  PROVE  /\ link' = [b \in Codes |-> link'[b]]
         /\ \A b \in Codes : LinkShape(link'[b])
         /\ ActiveLinks' \subseteq ActiveLinks
<1>1. CASE c \in Codes
  <2>1. link[c] \in [state : {link[c].state}, owned : BOOLEAN, host : {link[c].host}]
    BY <1>1 DEF IInv, ShapeInv, LinkShape
  <2>2. [link[c] EXCEPT !.state = "ended"]
          = [state |-> "ended", owned |-> link[c].owned, host |-> link[c].host]
    BY <2>1
  <2> DEFINE r == [state |-> "ended", owned |-> link[c].owned, host |-> link[c].host]
  <2>3. LinkShape(r) /\ r.state = "ended"
    BY <2>1 DEF LinkShape
  <2>4. link' = [link EXCEPT ![c] = r]
    BY <2>2
  <2> HIDE DEF r
  <2> QED
    BY <2>3, <2>4, LinkWritten DEF ActiveLinks
<1>2. CASE c \notin Codes
  <2>1. link' = link
    BY <1>2 DEF IInv, ShapeInv
  <2> QED
    BY <2>1 DEF IInv, ShapeInv, ActiveLinks
<1> QED
  BY <1>1, <1>2

\* The count opens the transaction while there is room.
LEMMA CountStep ==
  ASSUME IInv, NEW q \in Requests, CountLinks(q)
  PROVE  IInv'
<1>0. UNCHANGED <<workspace, link>> /\ writer = None /\ ActiveLinks' = ActiveLinks
  BY DEF CountLinks, Unlocked, ActiveLinks
<1>1. CASE ResolvesPlan(q) /\ writer' = q
  <2> DEFINE p == workspace.plan
  <2>1. Cardinality(ActiveLinks) < LinkLimit[p] /\ p \in Plans
    BY <1>0, <1>1 DEF CountLinks, IInv, ShapeInv, WorkspaceShape, Unlocked
  <2>2. /\ request' = [r \in Requests |-> request'[r]]
        /\ \A r \in Requests : r # q => request'[r] = request[r]
        /\ RequestShape(request'[q])
        /\ request'[q].at = "inserting" /\ request'[q].plan = p
    <3>1. request = [r \in Requests |-> request[r]] /\ RequestShape(request[q])
      BY DEF IInv, ShapeInv
    <3>2. request'[q] = [at |-> "inserting", host |-> request[q].host, code |-> request[q].code,
                         plan |-> p, copy |-> request[q].copy, v |-> request[q].v]
      BY <1>1, <3>1 DEF ResolvesPlan, RequestShape
    <3>3. /\ request' = [r \in Requests |-> request'[r]]
          /\ \A r \in Requests : r # q => request'[r] = request[r]
      BY <1>1, <3>1 DEF ResolvesPlan
    <3> QED
      BY <3>2, <3>3 DEF RequestShape
  <2>3. ShapeInv'
    BY <1>0, <1>1, <2>2 DEF IInv, ShapeInv
  <2>4. WriterInv'
    BY <1>0, <1>1, <2>2 DEF IInv, WriterInv
  <2>5. RoomInv'
    BY <1>0, <1>1, <2>1, <2>2 DEF RoomInv
  <2> QED
    BY <2>3, <2>4, <2>5 DEF IInv
<1>2. CASE Ends(q) /\ UNCHANGED writer
  <2>1. request[q].at # "inserting" /\ Moves(q)
    BY <1>2, EndsMoves DEF CountLinks
  <2> QED
    BY <1>0, <1>2, <2>1, QuietStep DEF IInv, ShapeInv
<1> QED
  BY <1>1, <1>2 DEF CountLinks

\* The end of request q, and of its transaction if it had one.
LEMMA Closes ==
  ASSUME IInv, NEW q \in Requests, Ends(q), UNCHANGED workspace,
         link' = [c \in Codes |-> link'[c]], \A c \in Codes : LinkShape(link'[c]),
         writer = q, writer' = None
  PROVE  IInv'
<1>1. Moves(q)
  BY EndsMoves
<1>2. ShapeInv'
  BY <1>1 DEF IInv, ShapeInv, Moves
<1>3. WriterInv' /\ RoomInv'
  BY <1>1 DEF IInv, WriterInv, RoomInv, Moves
<1> QED
  BY <1>2, <1>3 DEF IInv

\* The insert adds its own code to the active links and no other.
LEMMA InsertStep ==
  ASSUME IInv, NEW q \in Requests, InsertLink(q)
  PROVE  /\ IInv'
         /\ ActiveLinks' \subseteq ActiveLinks \cup {request[q].code}
<1> DEFINE r == [state |-> "active", owned |-> TRUE, host |-> request[q].host]
           code == request[q].code
<1>0. writer = q /\ Ends(q) /\ UNCHANGED workspace /\ writer' = None
  BY DEF InsertLink, IInv, WriterInv
<1>1. CASE link' = [link EXCEPT ![code] = r]
  <2>1. LinkShape(r)
    BY DEF LinkShape
  <2> HIDE DEF r, code
  <2>2. /\ link' = [b \in Codes |-> link'[b]]
        /\ \A b \in Codes : LinkShape(link'[b])
        /\ \A b \in Codes : b # code => link'[b] = link[b]
    BY <1>1, <2>1, LinkWritten
  <2>3. IInv'
    BY <1>0, <2>2, Closes
  <2>4. ActiveLinks' \subseteq ActiveLinks \cup {code}
    BY <2>2 DEF ActiveLinks
  <2> QED
    BY <2>3, <2>4 DEF code
<1>2. CASE UNCHANGED link
  <2>1. IInv'
    BY <1>0, <1>2, Closes DEF IInv, ShapeInv
  <2> QED
    BY <1>2, <2>1 DEF ActiveLinks
<1> QED
  BY <1>1, <1>2 DEF InsertLink

\* Every other step of a link or a request leaves the active links or ends some.
LEMMA OtherStep ==
  ASSUME IInv, NEW q \in Requests,
         \/ \E code \in Codes : \E host \in CustomHosts \cup {NoHost} : CreateLink(q, code, host)
         \/ \E code \in Codes : ExpireLink(q, code)
         \/ SaveExpired(q)
         \/ RequestDies(q)
  PROVE  IInv' /\ ActiveLinks' \subseteq ActiveLinks
<1>1. ASSUME NEW code, NEW host, CreateLink(q, code, host) \/ ExpireLink(q, code)
      PROVE  IInv' /\ ActiveLinks' \subseteq ActiveLinks
  <2>1. Moves(q) /\ request[q].at # "inserting" /\ UNCHANGED <<workspace, link, writer>>
    BY <1>1, BeginsLinkMoves DEF CreateLink, ExpireLink, BeginsWithLink
  <2>2. ActiveLinks' = ActiveLinks
    BY <2>1 DEF ActiveLinks
  <2> QED
    BY <2>1, <2>2, QuietStep DEF IInv, ShapeInv
<1>2. CASE SaveExpired(q)
  <2>1. Moves(q) /\ request[q].at # "inserting" /\ UNCHANGED <<workspace, writer>>
    BY <1>2, EndsMoves DEF SaveExpired
  <2>2. /\ link' = [b \in Codes |-> link'[b]]
        /\ \A b \in Codes : LinkShape(link'[b])
        /\ ActiveLinks' \subseteq ActiveLinks
    BY <1>2, LinkEnded DEF SaveExpired
  <2> QED
    BY <2>1, <2>2, QuietStep DEF IInv, ShapeInv
<1>3. CASE RequestDies(q)
  <2>1. Moves(q) /\ Ends(q) /\ UNCHANGED <<workspace, link>> /\ ActiveLinks' = ActiveLinks
    BY <1>3, EndsMoves DEF RequestDies, ActiveLinks
  <2>2. CASE writer = q
    BY <1>3, <2>1, <2>2, Closes DEF RequestDies, IInv, ShapeInv
  <2>3. CASE writer # q
    <3>1. request[q].at # "inserting" /\ writer' = writer
      BY <1>3, <2>3 DEF RequestDies, IInv, WriterInv
    <3> QED
      BY <2>1, <3>1, QuietStep DEF IInv, ShapeInv
  <2> QED
    BY <2>1, <2>2, <2>3
<1> QED
  BY <1>1, <1>2, <1>3

\* Guests' links, the end of a link's life, records in the DNS and the plan's changes.
LEMMA EnvironmentStep ==
  ASSUME IInv,
         \/ \E host \in Hosts : Publish(host)
         \/ \E code \in Codes : CreateGuestLink(code) \/ LinkEnds(code)
         \/ PlanChanges \/ PlanLapses
         \/ UNCHANGED vars
  PROVE  IInv' /\ ActiveLinks' \subseteq ActiveLinks
<1>1. ASSUME UNCHANGED <<request, writer>>, WorkspaceShape(workspace'),
             workspace'.plan \in {workspace.plan, Free} \/ writer = None,
             link' = [c \in Codes |-> link'[c]], \A c \in Codes : LinkShape(link'[c]),
             ActiveLinks' \subseteq ActiveLinks
      PROVE  IInv'
  <2>1. /\ Cardinality(ActiveLinks') <= Cardinality(ActiveLinks)
        /\ Cardinality(ActiveLinks') \in Nat /\ Cardinality(ActiveLinks) \in Nat
    BY <1>1, ActiveLinksFinite, FS_Subset, FS_CardinalityType
  <2>2. ASSUME NEW r \in Requests, writer = r
        PROVE  /\ request[r].plan \in Plans /\ request'[r] = request[r]
               /\ Cardinality(ActiveLinks) < LinkLimit[request[r].plan]
               /\ workspace'.plan \in {request[r].plan, Free}
    BY <1>1, <2>2 DEF IInv, RoomInv
  <2>3. RoomInv'
    BY <1>1, <2>1, <2>2 DEF RoomInv
  <2> QED
    BY <1>1, <2>3 DEF IInv, ShapeInv, WriterInv
<1>2. ASSUME NEW host, Publish(host) PROVE IInv' /\ ActiveLinks' \subseteq ActiveLinks
  <2>1. UNCHANGED <<workspace, link, request, writer>> /\ ActiveLinks' = ActiveLinks
    BY <1>2 DEF Publish, ActiveLinks
  <2> QED
    BY <1>1, <2>1 DEF IInv, ShapeInv
<1>3. ASSUME NEW code \in Codes, CreateGuestLink(code)
      PROVE  IInv' /\ ActiveLinks' \subseteq ActiveLinks
  <2> DEFINE r == [state |-> "active", owned |-> FALSE, host |-> NoHost]
  <2>1. link' = [link EXCEPT ![code] = r] /\ UNCHANGED <<workspace, request, writer>>
    BY <1>3 DEF CreateGuestLink
  <2>2. LinkShape(r) /\ r.owned = FALSE
    BY DEF LinkShape
  <2> HIDE DEF r
  <2>3. /\ link' = [c \in Codes |-> link'[c]] /\ \A c \in Codes : LinkShape(link'[c])
        /\ ActiveLinks' \subseteq ActiveLinks
    BY <2>1, <2>2, LinkWritten DEF ActiveLinks
  <2> QED
    BY <1>1, <2>1, <2>3 DEF IInv, ShapeInv
<1>4. ASSUME NEW code \in Codes, LinkEnds(code)
      PROVE  IInv' /\ ActiveLinks' \subseteq ActiveLinks
  <2>1. /\ UNCHANGED <<workspace, request, writer>>
        /\ link' = [c \in Codes |-> link'[c]] /\ \A c \in Codes : LinkShape(link'[c])
        /\ ActiveLinks' \subseteq ActiveLinks
    BY <1>4, LinkEnded DEF LinkEnds
  <2> QED
    BY <1>1, <2>1 DEF IInv, ShapeInv
<1>5. CASE PlanChanges
  <2>1. PICK p \in Plans : workspace' = [workspace EXCEPT !.plan = p]
    BY <1>5 DEF PlanChanges
  <2>2. WorkspaceShape(workspace')
    BY <2>1 DEF IInv, ShapeInv, WorkspaceShape
  <2>3. /\ UNCHANGED <<link, request, writer>> /\ writer = None
        /\ ActiveLinks' = ActiveLinks
    BY <1>5 DEF PlanChanges, Unlocked, ActiveLinks
  <2> QED
    BY <1>1, <2>2, <2>3 DEF IInv, ShapeInv
<1>6. CASE PlanLapses
  <2>1. WorkspaceShape(workspace') /\ workspace'.plan = Free
    BY <1>6 DEF PlanLapses, IInv, ShapeInv, WorkspaceShape
  <2>2. UNCHANGED <<link, request, writer>> /\ ActiveLinks' = ActiveLinks
    BY <1>6 DEF PlanLapses, ActiveLinks
  <2> QED
    BY <1>1, <2>1, <2>2 DEF IInv, ShapeInv
<1>7. CASE UNCHANGED vars
  <2>1. UNCHANGED <<workspace, link, request, writer>> /\ ActiveLinks' = ActiveLinks
    BY <1>7 DEF vars, ActiveLinks
  <2> QED
    BY <1>1, <2>1 DEF IInv, ShapeInv
<1> QED
  BY <1>2, <1>3, <1>4, <1>5, <1>6, <1>7

-----------------------------------------------------------------------------
(* The theorem *)

LEMMA InitHolds == Init => IInv
<1> SUFFICES ASSUME Init PROVE IInv
  OBVIOUS
<1>1. WorkspaceShape(workspace)
  BY DEF Init, WorkspaceShape
<1>2. link = [c \in Codes |-> link[c]] /\ \A c \in Codes : LinkShape(link[c])
  BY DEF Init, LinkShape
<1>3. RequestShape(IdleRequest) /\ IdleRequest.at = "idle"
  BY DEF RequestShape, IdleRequest
<1>4. request = [q \in Requests |-> IdleRequest] /\ writer = None
  BY DEF Init
<1> HIDE DEF IdleRequest, RequestShape
<1> QED
  BY <1>1, <1>2, <1>3, <1>4 DEF IInv, ShapeInv, WriterInv, RoomInv

\* A step that adds an active link is the insert of the writer.
LEMMA Inductive ==
  ASSUME IInv, [Next]_vars
  PROVE  /\ IInv'
         /\ \/ ActiveLinks' \subseteq ActiveLinks
            \/ \E q \in Requests : InsertLink(q)
<1>1. ASSUME NEW q \in Requests, DomainStep(q)
      PROVE  IInv' /\ ActiveLinks' = ActiveLinks
  <2>1. UNCHANGED link
    BY <1>1 DEF DomainStep, AddCustomDomain, VerifyCustomDomain, SetPrimaryCustomDomain,
                RemoveCustomDomain, AddManagedEmailDomain, VerifyManagedEmailDomain,
                RemoveManagedEmailDomain, SaveCustomDomain, SaveManagedEmailDomain,
                SaveAdded, LookUpTxt, SaveVerified, SaveUnverified, SavePendingAfterError,
                SavePrimary, SaveRemoved
  <2> QED
    BY <1>1, <2>1, DomainStepKeeps DEF ActiveLinks
<1>2. ASSUME NEW q \in Requests, CountLinks(q)
      PROVE  IInv' /\ ActiveLinks' = ActiveLinks
  BY <1>2, CountStep DEF CountLinks, ActiveLinks
<1>3. ASSUME NEW q \in Requests, LinkStep(q) \/ RequestDies(q)
      PROVE  IInv' /\ (ActiveLinks' \subseteq ActiveLinks \/ InsertLink(q))
  BY <1>2, <1>3, InsertStep, OtherStep DEF LinkStep
<1> QED
  BY <1>1, <1>3, EnvironmentStep DEF Next

(***************************************************************************)
(* "Your plan allows up to linkLimit active links"                         *)
(* (linkController.js, createUrlWithinPlanLimit): however many requests    *)
(* count at the same time, and whatever else changes the workspace, a step *)
(* adds an active link only within the limit of the plan its transaction   *)
(* resolved, which is still in effect unless its period has just ended.    *)
(***************************************************************************)
THEOREM LinksWithinPlan == Spec => LinkLimitHolds
<1> DEFINE Within ==
             ~(ActiveLinks' \subseteq ActiveLinks) =>
               \E q \in Requests :
                 /\ request[q].at = "inserting" /\ request'[q].at = "idle"
                 /\ Cardinality(ActiveLinks') <= LinkLimit[request[q].plan]
                 /\ workspace.plan \in {request[q].plan, Free}
<1>1. ASSUME IInv, [Next]_vars PROVE IInv'
  BY <1>1, Inductive
<1>2. ASSUME IInv, [Next]_vars PROVE Within
  <2>1. CASE ActiveLinks' \subseteq ActiveLinks
    BY <2>1
  <2>2. ASSUME NEW q \in Requests, InsertLink(q)
        PROVE  Within
    <3> DEFINE c == request[q].code
    <3>1. /\ Cardinality(ActiveLinks) < LinkLimit[request[q].plan]
          /\ request[q].plan \in Plans /\ workspace.plan \in {request[q].plan, Free}
          /\ request[q].at = "inserting"
      BY <1>2, <2>2 DEF InsertLink, IInv, WriterInv, RoomInv
    <3>2. ActiveLinks' \subseteq ActiveLinks \cup {c}
      BY <1>2, <2>2, InsertStep
    <3>3. /\ IsFiniteSet(ActiveLinks \cup {c})
          /\ Cardinality(ActiveLinks \cup {c}) <= Cardinality(ActiveLinks) + 1
      <4> HIDE DEF c
      <4>1. /\ IsFiniteSet(ActiveLinks \cup {c})
            /\ Cardinality(ActiveLinks \cup {c})
                 = IF c \in ActiveLinks THEN Cardinality(ActiveLinks)
                                        ELSE Cardinality(ActiveLinks) + 1
        BY ActiveLinksFinite, FS_AddElement
      <4> QED
        BY <4>1, ActiveLinksFinite
    <3>4. Cardinality(ActiveLinks') <= Cardinality(ActiveLinks \cup {c})
      BY <3>2, <3>3, FS_Subset
    <3>5. /\ Cardinality(ActiveLinks') \in Nat /\ Cardinality(ActiveLinks) \in Nat
          /\ Cardinality(ActiveLinks \cup {c}) \in Nat
      BY <3>2, <3>3, ActiveLinksFinite, FS_Subset, FS_CardinalityType
    <3>6. LinkLimit[request[q].plan] \in Nat
      BY <3>1
    <3>7. request'[q].at = "idle"
      BY <1>2, <2>2 DEF InsertLink, Ends, IdleRequest, IInv, ShapeInv
    <3> HIDE DEF c
    <3>8. Cardinality(ActiveLinks') <= LinkLimit[request[q].plan]
      BY <3>1, <3>3, <3>4, <3>5, <3>6
    <3> QED
      BY <3>1, <3>7, <3>8
  <2> QED
    BY <1>2, <2>1, <2>2, Inductive
<1>3. Init => IInv
  BY InitHolds
<1>4. Spec => [][Within]_vars
  BY <1>1, <1>2, <1>3, PTL DEF Spec
<1> QED
  BY <1>4 DEF LinkLimitHolds

-----------------------------------------------------------------------------
(* Sequences of entries *)

\* A filtered array holds the entries that are not of host, and no others.
LEMMA WithoutKeeps ==
  ASSUME NEW S, NEW list \in Seq(S), NEW host
  PROVE  /\ Without(list, host) \in Seq(S)
         /\ \A n \in DOMAIN Without(list, host) : \E i \in DOMAIN list :
              list[i].host # host /\ Without(list, host)[n] = list[i]
         /\ \A i \in DOMAIN list : list[i].host # host =>
              \E n \in DOMAIN Without(list, host) : Without(list, host)[n] = list[i]
<1> DEFINE kept == {i \in DOMAIN list : list[i].host # host}
           below(i) == {j \in kept : j <= i}
           n0 == Cardinality(kept)
           f == [i \in kept |-> Cardinality(below(i))]
           rest == Without(list, host)
<1>1. kept \subseteq 1..Len(list) /\ Len(list) \in Nat /\ DOMAIN list = 1..Len(list)
  OBVIOUS
<1>2. IsFiniteSet(kept) /\ n0 \in Nat /\ kept \subseteq Nat
  <2> HIDE DEF kept
  <2>1. IsFiniteSet(1..Len(list))
    BY <1>1, FS_Interval
  <2>2. IsFiniteSet(kept)
    BY <1>1, <2>1, FS_Subset
  <2> QED
    BY <1>1, <2>2, FS_CardinalityType
<1>3. rest = [n \in 1..n0 |-> list[CHOOSE i \in kept : Cardinality(below(i)) = n]]
  BY DEF Without
<1> HIDE DEF kept
<1>4. \A i \in kept : /\ IsFiniteSet(below(i)) /\ Cardinality(below(i)) \in 1..n0
                      /\ i \in below(i)
  <2> SUFFICES ASSUME NEW i \in kept
               PROVE  /\ IsFiniteSet(below(i)) /\ Cardinality(below(i)) \in 1..n0
                      /\ i \in below(i)
    OBVIOUS
  <2>1. i \in below(i) /\ below(i) \subseteq kept
    BY <1>2
  <2> HIDE DEF below
  <2>2. IsFiniteSet(below(i)) /\ Cardinality(below(i)) \in Nat /\ Cardinality(below(i)) <= n0
    BY <1>2, <2>1, FS_Subset, FS_CardinalityType
  <2>3. Cardinality(below(i)) # 0
    BY <2>1, <2>2, FS_EmptySet
  <2> QED
    BY <1>2, <2>1, <2>2, <2>3
<1>5. \A i, j \in kept : i < j => Cardinality(below(i)) # Cardinality(below(j))
  <2> SUFFICES ASSUME NEW i \in kept, NEW j \in kept, i < j,
                      Cardinality(below(i)) = Cardinality(below(j))
               PROVE  FALSE
    OBVIOUS
  <2>0. i \in Nat /\ j \in Nat /\ \A m \in kept : m \in Nat
    BY <1>2
  <2>1. j \notin below(i) /\ \A m \in kept : m <= i => m <= j
    BY <2>0
  <2>a. below(i) \subseteq below(j)
    BY <2>1
  <2>2. j \in below(j) /\ IsFiniteSet(below(j))
    BY <1>4
  <2> HIDE DEF below
  <2>3. below(j) = below(i)
    BY <2>a, <2>2, FS_Subset
  <2> QED
    BY <2>1, <2>2, <2>3
<1>6. f \in Injection(kept, 1..n0)
  <2>1. \A i, j \in kept : f[i] = f[j] => i = j
    <3> SUFFICES ASSUME NEW i \in kept, NEW j \in kept, f[i] = f[j]
                 PROVE  i = j
      OBVIOUS
    <3>1. Cardinality(below(i)) = Cardinality(below(j))
      OBVIOUS
    <3> HIDE DEF below, f
    <3>2. ~(i < j) /\ ~(j < i)
      BY <3>1, <1>5
    <3> QED
      BY <3>2, <1>2
  <2>2. f \in [kept -> 1..n0]
    BY <1>4
  <2> HIDE DEF f
  <2> QED
    BY <2>1, <2>2 DEF Injection, IsInjective
<1>7. \A n \in 1..n0 : \E i \in kept : Cardinality(below(i)) = n
  <2>1. IsFiniteSet(1..n0) /\ Cardinality(1..n0) = n0
    BY <1>2, FS_Interval
  <2> HIDE DEF f, n0
  <2>2. f \in Surjection(kept, 1..n0)
    BY <1>6, <2>1, FS_Injection DEF n0
  <2>3. \A n \in 1..n0 : \E i \in kept : f[i] = n
    BY <2>2 DEF Surjection
  <2> QED
    BY <2>3 DEF f
<1> HIDE DEF below, rest, n0
<1>8. \A n \in 1..n0 : \E i \in kept : Cardinality(below(i)) = n /\ rest[n] = list[i]
  <2> SUFFICES ASSUME NEW n \in 1..n0
               PROVE  \E i \in kept : Cardinality(below(i)) = n /\ rest[n] = list[i]
    OBVIOUS
  <2>1. rest[n] = list[CHOOSE i \in kept : Cardinality(below(i)) = n]
    BY <1>3
  <2> QED
    BY <2>1, <1>7
<1>9. DOMAIN rest = 1..n0
  BY <1>3
<1>10. rest \in Seq(S)
  <2>1. rest \in [1..n0 -> S]
    <3>1. \A n \in 1..n0 : rest[n] \in S
      BY <1>8, <1>1
    <3> QED
      BY <3>1, <1>3
  <2> QED
    BY <2>1, <1>2
<1>11. \A i \in kept : \E n \in 1..n0 : rest[n] = list[i]
  <2> SUFFICES ASSUME NEW i \in kept
               PROVE  \E n \in 1..n0 : rest[n] = list[i]
    OBVIOUS
  <2>1. PICK j \in kept : Cardinality(below(j)) = Cardinality(below(i))
                          /\ rest[Cardinality(below(i))] = list[j]
    BY <1>4, <1>8
  <2>2. ~(i < j) /\ ~(j < i)
    BY <2>1, <1>5
  <2>3. i = j
    BY <2>2, <1>2
  <2> QED
    BY <2>1, <2>3, <1>4
<1> QED
  BY <1>8, <1>9, <1>10, <1>11 DEF kept, rest
-----------------------------------------------------------------------------
(* The arrays of domains and the copies that handlers decide on *)

\* The entries of a and b are the same ones, in the same order; their status may differ.
SameEntries(a, b) ==
  /\ DOMAIN a = DOMAIN b
  /\ \A i \in DOMAIN a : a[i].host = b[i].host /\ a[i].token = b[i].token

\* Verified entries have their token among known.
Proven(list, known) ==
  \A i \in DOMAIN list : list[i].status = "verified" => list[i].token \in known

\* The steps of a request that hold a copy of an array of domains.
Holding == {"adding", "verifying", "found", "missing", "again", "promoting", "removing"}

(***************************************************************************)
(* What holds of request r when the workspace is w and the tokens known    *)
(* are published.  A copy is not newer than the workspace; while the      *)
(* version it was read with stands, the array still has its entries at    *)
(* their positions.  The name a handler looks at is in its copy, and a    *)
(* record that was found is published.                                    *)
(***************************************************************************)
CopyInv(r, w, known) ==
  /\ r.host \in Hosts
  /\ r.v <= w.v
  /\ r.v = w.v => SameEntries(r.copy, w.domains[ListOf(r.host)])
  /\ r.at # "adding" => Has(r.copy, r.host)
  /\ r.at = "found" => r.copy[Position(r.copy, r.host)].token \in known
  /\ Proven(r.copy, known)

RequestInv(r, w, known) ==
  /\ r \in Request
  /\ r.at \in {"creating", "inserting"} => r.host \in CustomHosts \cup {NoHost}
  /\ r.at \in Holding => CopyInv(r, w, known)

DomainInv ==
  /\ TypeOK
  /\ VerifiedByItsToken
  /\ \A q \in Requests : RequestInv(request[q], workspace, published)

\* What a step does to the workspace: its arrays keep their entries, or get a new version.
Advances ==
  /\ workspace' \in Workspace
  /\ published \subseteq published'
  /\ \/ workspace.v < workspace'.v
     \/ /\ workspace'.v = workspace.v
        /\ \A kind \in Lists : SameEntries(workspace.domains[kind], workspace'.domains[kind])

LEMMA WorkspaceFields ==
  ASSUME NEW w \in Workspace
  PROVE  /\ w.plan \in Plans /\ w.v \in Nat
         /\ w.domains \in [Lists -> Seq(Domain)]
         /\ \A kind \in Lists : /\ w.domains[kind] \in Seq(Domain)
                                /\ DOMAIN w.domains[kind] \subseteq Nat
                                /\ \A i \in DOMAIN w.domains[kind] : w.domains[kind][i] \in Domain
BY DEF Workspace

LEMMA ListOfHost == \A host : ListOf(host) \in Lists
BY DEF ListOf, Lists

\* A request that does nothing keeps what it knows, whatever the others do.
LEMMA RequestStands ==
  ASSUME NEW r, RequestInv(r, workspace, published), workspace \in Workspace, Advances
  PROVE  RequestInv(r, workspace', published')
<1>1. r \in Request /\ r.v \in Nat
  BY DEF RequestInv, Request
<1>2. ASSUME r.at \in Holding
      PROVE  CopyInv(r, workspace', published')
  <2>1. CopyInv(r, workspace, published) /\ workspace.v \in Nat /\ workspace'.v \in Nat
    BY <1>2, WorkspaceFields DEF RequestInv, Advances
  <2>2. r.v <= workspace'.v
    BY <1>1, <2>1 DEF CopyInv, Advances
  <2>3. r.v = workspace'.v => SameEntries(r.copy, workspace'.domains[ListOf(r.host)])
    <3> SUFFICES ASSUME r.v = workspace'.v
                 PROVE  SameEntries(r.copy, workspace'.domains[ListOf(r.host)])
      OBVIOUS
    <3>1. workspace'.v = workspace.v /\ r.v = workspace.v
      BY <1>1, <2>1 DEF CopyInv, Advances
    <3>2. SameEntries(r.copy, workspace.domains[ListOf(r.host)])
      BY <2>1, <3>1 DEF CopyInv
    <3>3. SameEntries(workspace.domains[ListOf(r.host)], workspace'.domains[ListOf(r.host)])
      BY <2>1, <3>1, ListOfHost DEF Advances
    <3> QED
      BY <3>2, <3>3 DEF SameEntries
  <2>4. Proven(r.copy, published')
    BY <2>1 DEF CopyInv, Proven, Advances
  <2>5. r.at = "found" => r.copy[Position(r.copy, r.host)].token \in published'
    BY <2>1 DEF CopyInv, Advances
  <2> QED
    BY <2>1, <2>2, <2>3, <2>4, <2>5 DEF CopyInv
<1> QED
  BY <1>2 DEF RequestInv

\* Requests that hold no copy.
LEMMA IdleRequestInv ==
  ASSUME NEW w, NEW known
  PROVE  RequestInv(IdleRequest, w, known)
<1>1. IdleRequest \in Request /\ IdleRequest.at = "idle"
  BY DEF IdleRequest, Request
<1> HIDE DEF IdleRequest
<1> QED
  BY <1>1 DEF RequestInv, Holding

\* A step of request q, with what it must show.
LEMMA RequestSteps ==
  ASSUME DomainInv, NEW q \in Requests, NEW r, Advances,
         request' = [request EXCEPT ![q] = r], RequestInv(r, workspace', published'),
         VerifiedByItsToken', link' \in [Codes -> Link], drawn' \in 0..MaxTokens,
         published' \subseteq Tokens, writer' \in Requests \cup {None}
  PROVE  DomainInv'
<1>1. \A p \in Requests : RequestInv(request[p], workspace', published')
  BY RequestStands DEF DomainInv, TypeOK
<1>2. /\ request' = [p \in Requests |-> request'[p]]
      /\ \A p \in Requests : request'[p] = IF p = q THEN r ELSE request[p]
  BY DEF DomainInv, TypeOK
<1>3. \A p \in Requests : RequestInv(request'[p], workspace', published')
  BY <1>1, <1>2
<1>4. request' \in [Requests -> Request]
  BY <1>2, <1>3 DEF RequestInv
<1> QED
  BY <1>3, <1>4 DEF DomainInv, TypeOK, Advances
\* The tokens of an array stay in it.
KeepsTokens == \A kind \in Lists : TokensOf(kind) \subseteq TokensOf(kind)'

\* One array is replaced, and the version goes up.
LEMMA ArrayWritten ==
  ASSUME workspace \in Workspace, NEW kind \in Lists, NEW list \in Seq(Domain),
         workspace' = [workspace EXCEPT !.domains[kind] = list, !.v = @ + 1]
  PROVE  /\ workspace' \in Workspace
         /\ workspace'.v = workspace.v + 1 /\ workspace'.plan = workspace.plan
         /\ \A k \in Lists : workspace'.domains[k] = IF k = kind THEN list ELSE workspace.domains[k]
<1>1. workspace.v \in Nat /\ workspace.domains \in [Lists -> Seq(Domain)]
  BY DEF Workspace
<1>2. workspace' = [plan |-> workspace.plan, v |-> workspace.v + 1,
                    domains |-> [workspace.domains EXCEPT ![kind] = list]]
  BY DEF Workspace
<1>3. [workspace.domains EXCEPT ![kind] = list] \in [Lists -> Seq(Domain)]
  BY <1>1
<1>4. workspace'.v = workspace.v + 1 /\ workspace'.plan = workspace.plan
  BY <1>1, <1>2
<1>5. \A k \in Lists : workspace'.domains[k] = IF k = kind THEN list ELSE workspace.domains[k]
  BY <1>1, <1>2
<1>6. workspace' \in Workspace
  <2> DEFINE d == [workspace.domains EXCEPT ![kind] = list]
             v == workspace.v + 1
  <2>1. workspace.plan \in Plans /\ v \in Nat /\ d \in [Lists -> Seq(Domain)]
    BY <1>1, <1>3 DEF Workspace
  <2>2. workspace' = [plan |-> workspace.plan, v |-> v, domains |-> d]
    BY <1>2
  <2> HIDE DEF d, v
  <2> QED
    BY <2>1, <2>2 DEF Workspace
<1> QED
  BY <1>4, <1>5, <1>6

\* The array keeps its entries, and those that become verified have published tokens.
LEMMA EntriesKept ==
  ASSUME workspace \in Workspace, VerifiedByItsToken, NEW kind \in Lists, NEW list \in Seq(Domain),
         workspace' = [workspace EXCEPT !.domains[kind] = list],
         SameEntries(workspace.domains[kind], list), Proven(list, published), UNCHANGED published
  PROVE  Advances /\ VerifiedByItsToken' /\ KeepsTokens
<1>1. /\ workspace' \in Workspace
      /\ workspace'.v = workspace.v /\ workspace.v \in Nat
      /\ \A k \in Lists : workspace'.domains[k] = IF k = kind THEN list ELSE workspace.domains[k]
  BY DEF Workspace
<1>2. \A k \in Lists : SameEntries(workspace.domains[k], workspace'.domains[k])
  BY <1>1 DEF SameEntries
<1>3. \A k \in Lists : Proven(workspace'.domains[k], published')
  BY <1>1 DEF VerifiedByItsToken, Proven
<1>4. KeepsTokens
  <2>1. \A k \in Lists : \A i \in DOMAIN workspace.domains[k] :
           i \in DOMAIN workspace'.domains[k] /\
           workspace'.domains[k][i].token = workspace.domains[k][i].token
    BY <1>2 DEF SameEntries
  <2>2. ASSUME NEW k \in Lists, NEW t \in TokensOf(k)
        PROVE  t \in TokensOf(k)'
    <3>1. PICK i \in DOMAIN workspace.domains[k] : t = workspace.domains[k][i].token
      BY <2>2 DEF TokensOf
    <3>2. i \in DOMAIN workspace'.domains[k] /\ t = workspace'.domains[k][i].token
      BY <2>1, <3>1
    <3> QED
      BY <3>2 DEF TokensOf
  <2> QED
    BY <2>2 DEF KeepsTokens
<1> QED
  BY <1>1, <1>2, <1>3, <1>4 DEF Advances, VerifiedByItsToken, Proven

LEMMA NothingWritten ==
  ASSUME DomainInv, UNCHANGED <<workspace, published>>
  PROVE  Advances /\ VerifiedByItsToken' /\ KeepsTokens
BY WorkspaceFields
   DEF DomainInv, TypeOK, Advances, SameEntries, VerifiedByItsToken, KeepsTokens, TokensOf

-----------------------------------------------------------------------------
(* The steps of the domains *)

LEMMA BeginsKeeps ==
  ASSUME DomainInv, NEW q \in Requests, NEW host \in Hosts, NEW at \in Holding \ {"found"},
         at # "adding" => Has(workspace.domains[ListOf(host)], host),
         BeginsWithCopy(q, at, host), UNCHANGED <<workspace, link, drawn, published, writer>>
  PROVE  DomainInv'
<1> DEFINE copy == workspace.domains[ListOf(host)]
           r == [at |-> at, host |-> host, code |-> None, plan |-> None, copy |-> copy,
            v |-> workspace.v]
<1>1. request' = [request EXCEPT ![q] = r]
  BY DEF BeginsWithCopy
<1>2. copy \in Seq(Domain) /\ workspace.v \in Nat
  BY WorkspaceFields, ListOfHost DEF DomainInv, TypeOK
<1>3. Proven(copy, published)
  BY ListOfHost DEF DomainInv, VerifiedByItsToken, Proven
<1>4. SameEntries(copy, copy)
  BY DEF SameEntries
<1> HIDE DEF copy
<1>5. r \in Request
  BY <1>2 DEF Request, Holding
<1>6. CopyInv(r, workspace, published)
  BY <1>2, <1>3, <1>4 DEF CopyInv, copy
<1>7. RequestInv(r, workspace', published')
  BY <1>5, <1>6 DEF RequestInv, Holding
<1> HIDE DEF r
<1> QED
  BY <1>1, <1>7, NothingWritten, RequestSteps DEF DomainInv, TypeOK

LEMMA BeginsLinkKeeps ==
  ASSUME DomainInv, NEW q \in Requests, NEW at \in {"creating", "expiring"},
         NEW host \in CustomHosts \cup {NoHost}, NEW code \in Codes,
         BeginsWithLink(q, at, host, code), UNCHANGED <<workspace, link, drawn, published, writer>>
  PROVE  DomainInv'
<1> DEFINE r == [at |-> at, host |-> host, code |-> code, plan |-> None, copy |-> <<>>, v |-> 0]
<1>1. request' = [request EXCEPT ![q] = r]
  BY DEF BeginsWithLink
<1>2. r \in Request
  BY DEF Request, Hosts
<1>3. RequestInv(r, workspace', published')
  BY <1>2 DEF RequestInv, Holding
<1> HIDE DEF r
<1> QED
  BY <1>1, <1>3, NothingWritten, RequestSteps DEF DomainInv, TypeOK

\* The end of a request, after it has written or not.
LEMMA EndKeeps ==
  ASSUME DomainInv, NEW q \in Requests, Ends(q), Advances, VerifiedByItsToken',
         link' \in [Codes -> Link], drawn' \in 0..MaxTokens, published' \subseteq Tokens,
         writer' \in Requests \cup {None}
  PROVE  DomainInv'
BY IdleRequestInv, RequestSteps DEF Ends

\* A handler goes on with the copy it has.
LEMMA GoesKeeps ==
  ASSUME DomainInv, NEW q \in Requests, NEW at \in {"found", "missing", "again"}, Goes(q, at),
         request[q].at \in {"verifying", "found"},
         at = "found" => Seen(q).token \in published',
         Advances, VerifiedByItsToken', UNCHANGED <<link, drawn, published, writer>>
  PROVE  DomainInv'
<1> DEFINE r == [request[q] EXCEPT !.at = at]
<1>1. request' = [request EXCEPT ![q] = r]
  BY DEF Goes
<1>2. request[q] \in Request
  BY DEF DomainInv, TypeOK
<1>3. CopyInv(request[q], workspace', published')
  BY RequestStands DEF DomainInv, TypeOK, RequestInv, Holding
<1>4. /\ r.at = at /\ r.host = request[q].host /\ r.copy = request[q].copy
      /\ r.v = request[q].v
      /\ r \in Request
  BY <1>2 DEF Request
<1> HIDE DEF r
<1>5. CopyInv(r, workspace', published')
  BY <1>3, <1>4 DEF CopyInv, Holding, Seen
<1>6. RequestInv(r, workspace', published')
  BY <1>4, <1>5 DEF RequestInv
<1> QED
  BY <1>1, <1>6, RequestSteps DEF DomainInv, TypeOK

\* The first entry of a host that is there.
LEMMA PositionOf ==
  ASSUME NEW list \in Seq(Domain), NEW host, Has(list, host)
  PROVE  /\ Position(list, host) \in DOMAIN list
         /\ list[Position(list, host)].host = host
<1> DEFINE At == {i \in DOMAIN list : list[i].host = host}
           Less == {ss \in Nat \X Nat : ss[1] < ss[2]}
<1>1. DOMAIN list = 1..Len(list) /\ Len(list) \in Nat
  OBVIOUS
<1>2. At \subseteq Nat /\ At # {}
  BY <1>1 DEF Has
<1>3. IsWellFoundedOn(Less, Nat)
  BY NatLessThanWellFounded DEF OpToRel
<1> HIDE DEF Less, At
<1>4. PICK i \in At : \A j \in At : <<j, i>> \notin Less
  BY <1>2, <1>3, WFMin
<1>5. \A j \in At : ~(j < i)
  BY <1>2, <1>4 DEF Less
<1>6. i \in DOMAIN list /\ list[i].host = host /\ \A j \in 1..(i - 1) : list[j].host # host
  BY <1>1, <1>5 DEF At
<1> QED
  BY <1>1, <1>6 DEF Position

\* A status is written while the version stands: the entry is the one the copy shows.
LEMMA StatusWritten ==
  ASSUME DomainInv, NEW q \in Requests, NEW status \in {"pending", "verified"}, NEW changed,
         SaveStatus(q, status, changed), request[q].at \in {"found", "missing", "again"},
         status = "verified" => request[q].at = "found", UNCHANGED published
  PROVE  Advances /\ VerifiedByItsToken' /\ KeepsTokens
<1> DEFINE kind == ListOf(request[q].host)
           i == Position(request[q].copy, request[q].host)
           old == workspace.domains[kind]
           entry == [old[i] EXCEPT !.status = status]
           list == [old EXCEPT ![i] = entry]
<1>1. CASE changed /\ VersionMatches(q)
  <2>1. CopyInv(request[q], workspace, published) /\ request[q] \in Request
    BY DEF DomainInv, RequestInv, Holding
  <2>2. /\ request[q].copy \in Seq(Domain) /\ Has(request[q].copy, request[q].host)
        /\ SameEntries(request[q].copy, old)
        /\ request[q].at = "found" => request[q].copy[i].token \in published
    BY <1>1, <2>1 DEF CopyInv, Request, VersionMatches
  <2>3. i \in DOMAIN request[q].copy
    BY <2>2, PositionOf
  <2>4. /\ workspace \in Workspace /\ kind \in Lists /\ old \in Seq(Domain)
        /\ VerifiedByItsToken /\ Proven(old, published)
    BY WorkspaceFields, ListOfHost DEF DomainInv, TypeOK, VerifiedByItsToken, Proven
  <2>5. i \in DOMAIN old /\ old[i].token = request[q].copy[i].token
    BY <2>2, <2>3 DEF SameEntries
  <2>6. workspace' = [workspace EXCEPT !.domains[kind] = list]
    BY <1>1 DEF SaveStatus
  <2> HIDE DEF i, kind
  <2>7. old[i] \in Domain
    BY <2>4, <2>5, ElementOfSeq
  <2>8. /\ entry \in Domain
        /\ entry.host = old[i].host /\ entry.token = old[i].token /\ entry.status = status
    BY <2>7 DEF Domain
  <2> HIDE DEF entry
  <2>9. /\ list \in Seq(Domain) /\ DOMAIN list = DOMAIN old
        /\ \A j \in DOMAIN old : list[j] = IF j = i THEN entry ELSE old[j]
    BY <2>4, <2>5, <2>8
  <2> HIDE DEF list
  <2>10. SameEntries(old, list)
    BY <2>8, <2>9 DEF SameEntries
  <2>11. Proven(list, published)
    BY <2>2, <2>4, <2>5, <2>8, <2>9 DEF Proven
  <2> HIDE DEF old
  <2> QED
    BY <2>4, <2>6, <2>9, <2>10, <2>11, EntriesKept DEF old
<1>2. CASE ~(changed /\ VersionMatches(q))
  BY <1>2, NothingWritten DEF SaveStatus
<1> QED
  BY <1>1, <1>2

LEMMA LookUpKeeps ==
  ASSUME DomainInv, NEW q \in Requests, LookUpTxt(q)
  PROVE  DomainInv'
<1>1. Advances /\ VerifiedByItsToken'
  BY NothingWritten DEF LookUpTxt
<1> QED
  BY <1>1, GoesKeeps DEF LookUpTxt

LEMMA SaveStatusKeeps ==
  ASSUME DomainInv, NEW q \in Requests,
         SaveVerified(q) \/ SaveUnverified(q) \/ SavePendingAfterError(q)
  PROVE  DomainInv' /\ KeepsTokens
<1>1. UNCHANGED <<link, drawn, published, writer>>
  BY DEF SaveVerified, SaveUnverified, SavePendingAfterError
<1>2. Advances /\ VerifiedByItsToken' /\ KeepsTokens
  <2>1. CASE SaveVerified(q)
    BY <1>1, <2>1, StatusWritten, NothingWritten DEF SaveVerified
  <2>2. CASE SaveUnverified(q)
    BY <1>1, <2>2, StatusWritten DEF SaveUnverified
  <2>3. CASE SavePendingAfterError(q)
    BY <1>1, <2>3, StatusWritten DEF SavePendingAfterError
  <2> QED
    BY <2>1, <2>2, <2>3
<1>3. CASE Ends(q)
  BY <1>1, <1>2, <1>3, EndKeeps DEF DomainInv, TypeOK
<1>4. CASE SaveVerified(q) /\ Goes(q, "again")
  BY <1>1, <1>2, <1>4, GoesKeeps DEF SaveVerified
<1> QED
  BY <1>2, <1>3, <1>4 DEF SaveVerified, SaveUnverified, SavePendingAfterError

LEMMA SaveAddedKeeps ==
  ASSUME DomainInv, NEW q \in Requests, NEW primary \in BOOLEAN, SaveAdded(q, primary)
  PROVE  DomainInv' /\ KeepsTokens
<1> DEFINE kind == ListOf(request[q].host)
           entry == [host |-> request[q].host, token |-> drawn + 1, status |-> "pending",
                     primary |-> primary]
           old == workspace.domains[kind]
           list == Append(old, entry)
<1>1. /\ workspace' = [workspace EXCEPT !.domains[kind] = list, !.v = @ + 1]
      /\ drawn' = drawn + 1 /\ drawn < MaxTokens /\ Ends(q)
      /\ UNCHANGED <<link, published, writer>>
  BY DEF SaveAdded
<1>2. workspace \in Workspace /\ workspace.v \in Nat /\ kind \in Lists /\ old \in Seq(Domain)
  BY WorkspaceFields, ListOfHost DEF DomainInv, TypeOK
<1>3. entry \in Domain
  <2>1. request[q].host \in Hosts
    BY DEF SaveAdded, DomainInv, RequestInv, CopyInv, Holding
  <2>2. drawn + 1 \in Tokens
    BY <1>1 DEF DomainInv, TypeOK, Tokens
  <2> QED
    BY <2>1, <2>2 DEF Domain
<1> HIDE DEF kind, old, entry
<1>4. /\ list \in Seq(Domain)
      /\ \A i \in DOMAIN list : (i \in DOMAIN old /\ list[i] = old[i]) \/ list[i] = entry
      /\ \A i \in DOMAIN old : i \in DOMAIN list /\ list[i] = old[i]
  <2>1. list \in Seq(Domain) /\ Len(list) = Len(old) + 1
    BY <1>2, <1>3, AppendProperties
  <2>2. /\ \A i \in 1..Len(old) : list[i] = old[i]
        /\ list[Len(old) + 1] = entry
    BY <1>2, <1>3, AppendProperties
  <2>3. DOMAIN old = 1..Len(old) /\ DOMAIN list = 1..Len(list) /\ Len(old) \in Nat
    BY <1>2, <2>1
  <2> QED
    BY <2>1, <2>2, <2>3
<1>5. Proven(list, published)
  <2>1. Proven(old, published)
    BY <1>2 DEF DomainInv, VerifiedByItsToken, Proven, old
  <2>2. entry.status = "pending"
    BY DEF entry
  <2> HIDE DEF list, old, entry
  <2> QED
    BY <1>4, <2>1, <2>2 DEF Proven
<1> HIDE DEF list, old, entry
<1>6. /\ workspace' \in Workspace /\ workspace'.v = workspace.v + 1
      /\ \A k \in Lists : workspace'.domains[k] = IF k = kind THEN list ELSE workspace.domains[k]
  <2>1. /\ workspace \in Workspace /\ kind \in Lists /\ list \in Seq(Domain)
        /\ workspace' = [workspace EXCEPT !.domains[kind] = list, !.v = @ + 1]
    BY <1>1, <1>2, <1>4
  <2> QED
    BY <2>1, ArrayWritten, Zenon
<1>7. Advances
  BY <1>1, <1>2, <1>6 DEF Advances
<1>8. VerifiedByItsToken'
  BY <1>1, <1>5, <1>6 DEF DomainInv, VerifiedByItsToken, Proven
<1>9. KeepsTokens
  <2>1. \A k \in Lists : \A i \in DOMAIN workspace.domains[k] :
           i \in DOMAIN workspace'.domains[k] /\
           workspace'.domains[k][i].token = workspace.domains[k][i].token
    BY <1>4, <1>6 DEF old
  <2> QED
    BY <2>1 DEF KeepsTokens, TokensOf
<1> QED
  BY <1>1, <1>7, <1>8, <1>9, EndKeeps DEF DomainInv, TypeOK

LEMMA SavePrimaryKeeps ==
  ASSUME DomainInv, NEW q \in Requests, SavePrimary(q)
  PROVE  DomainInv' /\ KeepsTokens
<1>1. Ends(q) /\ UNCHANGED <<link, drawn, published, writer>>
  BY DEF SavePrimary
<1>2. Advances /\ VerifiedByItsToken' /\ KeepsTokens
  <2>1. CASE VersionMatches(q)
    <3> DEFINE copy == request[q].copy
               host == request[q].host
               old == workspace.domains["custom"]
               Chosen(i) == IF i \in DOMAIN copy /\ copy[i].primary # (copy[i].host = host)
                            THEN [old[i] EXCEPT !.primary = copy[i].host = host]
                            ELSE old[i]
               list == [i \in DOMAIN old |-> Chosen(i)]
    <3>1. workspace' = [workspace EXCEPT !.domains["custom"] = list]
      BY <2>1 DEF SavePrimary, CustomDomains
    <3>2. /\ workspace \in Workspace /\ "custom" \in Lists /\ old \in Seq(Domain)
          /\ VerifiedByItsToken /\ Proven(old, published)
      BY WorkspaceFields DEF DomainInv, TypeOK, VerifiedByItsToken, Proven, Lists
    <3>3. \A i \in DOMAIN old : /\ Chosen(i) \in Domain
                                /\ Chosen(i).host = old[i].host
                                /\ Chosen(i).token = old[i].token
                                /\ Chosen(i).status = old[i].status
      <4> SUFFICES ASSUME NEW i \in DOMAIN old
                   PROVE  /\ Chosen(i) \in Domain
                          /\ Chosen(i).host = old[i].host
                          /\ Chosen(i).token = old[i].token
                          /\ Chosen(i).status = old[i].status
        OBVIOUS
      <4>1. old[i] \in Domain
        BY <3>2
      <4>2. PICK p \in BOOLEAN : p = (copy[i].host = host)
        OBVIOUS
      <4>3. \/ Chosen(i) = old[i]
            \/ Chosen(i) = [old[i] EXCEPT !.primary = p]
        BY <4>2
      <4> HIDE DEF Chosen, old
      <4> QED
        BY <4>1, <4>3 DEF Domain
    <3> HIDE DEF Chosen
    <3>4. list \in Seq(Domain)
      <4>1. DOMAIN old = 1..Len(old) /\ Len(old) \in Nat
        BY <3>2
      <4>2. list \in [1..Len(old) -> Domain]
        BY <3>3, <4>1
      <4> QED
        BY <4>1, <4>2
    <3>5. SameEntries(old, list) /\ Proven(list, published)
      BY <3>2, <3>3 DEF SameEntries, Proven
    <3> HIDE DEF list, old
    <3> QED
      BY <1>1, <3>1, <3>2, <3>4, <3>5, EntriesKept DEF old
  <2>2. CASE ~VersionMatches(q)
    BY <1>1, <2>2, NothingWritten DEF SavePrimary
  <2> QED
    BY <2>1, <2>2
<1> QED
  BY <1>1, <1>2, EndKeeps DEF DomainInv, TypeOK

LEMMA SaveRemovedKeeps ==
  ASSUME DomainInv, NEW q \in Requests, SaveRemoved(q)
  PROVE  /\ DomainInv'
         /\ \A kind \in Lists : \A i \in DOMAIN workspace.domains[kind] :
              workspace.domains[kind][i].host # request[q].host =>
                workspace.domains[kind][i].token \in TokensOf(kind)'
<1> DEFINE host == request[q].host
           kind == ListOf(host)
           copy == request[q].copy
           kept == Without(copy, host)
           list == IF host \in CustomHosts THEN WithPrimary(kept) ELSE kept
<1>1. Ends(q) /\ UNCHANGED <<link, drawn, published, writer>>
  BY DEF SaveRemoved
<1>2. CASE VersionMatches(q)
  <2>1. workspace' = [workspace EXCEPT !.domains[kind] = list, !.v = @ + 1]
    BY <1>2 DEF SaveRemoved
  <2>2. CopyInv(request[q], workspace, published) /\ request[q] \in Request
    BY DEF SaveRemoved, DomainInv, RequestInv, Holding
  <2>3. /\ copy \in Seq(Domain) /\ SameEntries(copy, workspace.domains[kind])
        /\ Proven(copy, published)
    BY <1>2, <2>2 DEF CopyInv, Request, VersionMatches
  <2>4. /\ workspace \in Workspace /\ workspace.v \in Nat /\ kind \in Lists
        /\ VerifiedByItsToken
    BY WorkspaceFields, ListOfHost DEF DomainInv, TypeOK
  <2> HIDE DEF kind, host, copy
  <2>5. /\ kept \in Seq(Domain)
        /\ \A n \in DOMAIN kept : \E i \in DOMAIN copy : kept[n] = copy[i]
        /\ \A i \in DOMAIN copy : copy[i].host # host =>
             \E n \in DOMAIN kept : kept[n] = copy[i]
    <3>1. /\ Without(copy, host) \in Seq(Domain)
          /\ \A n \in DOMAIN Without(copy, host) : \E i \in DOMAIN copy :
               copy[i].host # host /\ Without(copy, host)[n] = copy[i]
          /\ \A i \in DOMAIN copy : copy[i].host # host =>
               \E n \in DOMAIN Without(copy, host) : Without(copy, host)[n] = copy[i]
      BY <2>3, WithoutKeeps
    <3> QED
      BY <3>1
  <2> HIDE DEF kept
  <2>6. /\ list \in Seq(Domain) /\ DOMAIN list = DOMAIN kept
        /\ \A n \in DOMAIN kept : list[n].token = kept[n].token /\ list[n].status = kept[n].status
    <3>1. CASE list = kept
      BY <2>5, <3>1
    <3>2. CASE list = [kept EXCEPT ![1].primary = TRUE] /\ kept # <<>>
      <4>1. 1 \in DOMAIN kept /\ kept[1] \in Domain
        BY <2>5, <3>2
      <4>2. [kept[1] EXCEPT !.primary = TRUE] \in Domain
        BY <4>1 DEF Domain
      <4>3. list = [kept EXCEPT ![1] = [kept[1] EXCEPT !.primary = TRUE]]
        BY <3>2
      <4>4. /\ [kept[1] EXCEPT !.primary = TRUE].token = kept[1].token
            /\ [kept[1] EXCEPT !.primary = TRUE].status = kept[1].status
        BY <4>1 DEF Domain
      <4> DEFINE d == [kept[1] EXCEPT !.primary = TRUE]
      <4> HIDE DEF d, list
      <4> QED
        BY <2>5, <4>1, <4>2, <4>3, <4>4, ExceptSeq DEF d
    <3> QED
      BY <3>1, <3>2 DEF WithPrimary
  <2> HIDE DEF list
  <2>7. /\ workspace' \in Workspace /\ workspace'.v = workspace.v + 1
        /\ \A k \in Lists : workspace'.domains[k] = IF k = kind THEN list ELSE workspace.domains[k]
    BY <2>1, <2>4, <2>6, ArrayWritten
  <2>8. Advances
    BY <1>1, <2>4, <2>7 DEF Advances
  <2>9. Proven(list, published)
    <3>1. Proven(kept, published)
      BY <2>3, <2>5 DEF Proven
    <3> QED
      BY <2>6, <3>1 DEF Proven
  <2>10. VerifiedByItsToken'
    BY <1>1, <2>4, <2>7, <2>9 DEF VerifiedByItsToken, Proven
  <2>11. DomainInv'
    BY <1>1, <2>8, <2>10, EndKeeps DEF DomainInv, TypeOK
  <2> USE DEF host
  <2>12. ASSUME NEW k \in Lists, NEW i \in DOMAIN workspace.domains[k],
                workspace.domains[k][i].host # host
         PROVE  workspace.domains[k][i].token \in TokensOf(k)'
    <3>1. CASE k = kind
      <4>1. i \in DOMAIN copy /\ copy[i].host # host
            /\ copy[i].token = workspace.domains[k][i].token
        BY <2>3, <2>12, <3>1 DEF SameEntries
      <4>2. PICK n \in DOMAIN kept : kept[n] = copy[i]
        BY <2>5, <4>1
      <4>3. n \in DOMAIN list /\ list[n].token = workspace.domains[k][i].token
        BY <2>6, <4>1, <4>2
      <4> QED
        BY <2>4, <2>7, <3>1, <4>3 DEF TokensOf
    <3>2. CASE k # kind
      BY <2>7, <3>2 DEF TokensOf
    <3> QED
      BY <3>1, <3>2
  <2> QED
    BY <2>11, <2>12
<1>3. CASE ~VersionMatches(q)
  <2>1. UNCHANGED workspace
    BY <1>3 DEF SaveRemoved
  <2>2. DomainInv'
    BY <1>1, <2>1, NothingWritten, EndKeeps DEF DomainInv, TypeOK
  <2> QED
    BY <2>1, <2>2 DEF TokensOf
<1> QED
  BY <1>2, <1>3

\* Of the steps of the domains, only a removal takes entries out of an array.
LEMMA DomainStepHolds ==
  ASSUME DomainInv, NEW q \in Requests, DomainStep(q)
  PROVE  DomainInv' /\ (KeepsTokens \/ SaveRemoved(q))
<1>1. ASSUME NEW host \in CustomHosts,
             \/ AddCustomDomain(q, host) \/ VerifyCustomDomain(q, host)
             \/ SetPrimaryCustomDomain(q, host) \/ RemoveCustomDomain(q, host)
      PROVE  DomainInv' /\ KeepsTokens
  <2>1. host \in Hosts /\ ListOf(host) = "custom"
    BY DEF Hosts, ListOf
  <2>2. UNCHANGED <<workspace, link, drawn, published, writer>>
    BY <1>1 DEF AddCustomDomain, VerifyCustomDomain, SetPrimaryCustomDomain, RemoveCustomDomain
  <2>3. \E at \in Holding \ {"found"} :
          /\ BeginsWithCopy(q, at, host)
          /\ at # "adding" => Has(CustomDomains, host)
    <3>1. {"adding", "verifying", "promoting", "removing"} \subseteq Holding \ {"found"}
      BY DEF Holding
    <3> QED
      BY <1>1, <3>1 DEF AddCustomDomain, VerifyCustomDomain, SetPrimaryCustomDomain,
                        RemoveCustomDomain
  <2>4. PICK at \in Holding \ {"found"} :
          /\ BeginsWithCopy(q, at, host)
          /\ at # "adding" => Has(workspace.domains[ListOf(host)], host)
    BY <2>1, <2>3 DEF CustomDomains
  <2>5. DomainInv'
    BY <2>1, <2>2, <2>4, BeginsKeeps
  <2> QED
    BY <2>2, <2>5, NothingWritten
<1>2. ASSUME NEW host \in ManagedHosts,
             \/ AddManagedEmailDomain(q, host) \/ VerifyManagedEmailDomain(q, host)
             \/ RemoveManagedEmailDomain(q, host)
      PROVE  DomainInv' /\ KeepsTokens
  <2>1. host \in Hosts /\ ListOf(host) = "managed"
    BY DEF Hosts, ListOf
  <2>2. UNCHANGED <<workspace, link, drawn, published, writer>>
    BY <1>2 DEF AddManagedEmailDomain, VerifyManagedEmailDomain, RemoveManagedEmailDomain
  <2>3. \E at \in Holding \ {"found"} :
          /\ BeginsWithCopy(q, at, host)
          /\ at # "adding" => Has(ManagedEmailDomains, host)
    <3>1. {"adding", "verifying", "removing"} \subseteq Holding \ {"found"}
      BY DEF Holding
    <3> QED
      BY <1>2, <3>1 DEF AddManagedEmailDomain, VerifyManagedEmailDomain,
                        RemoveManagedEmailDomain
  <2>4. PICK at \in Holding \ {"found"} :
          /\ BeginsWithCopy(q, at, host)
          /\ at # "adding" => Has(workspace.domains[ListOf(host)], host)
    BY <2>1, <2>3 DEF ManagedEmailDomains
  <2>5. DomainInv'
    BY <2>1, <2>2, <2>4, BeginsKeeps
  <2> QED
    BY <2>2, <2>5, NothingWritten
<1>3. CASE SaveCustomDomain(q) \/ SaveManagedEmailDomain(q)
  BY <1>3, SaveAddedKeeps DEF SaveCustomDomain, SaveManagedEmailDomain
<1>4. CASE LookUpTxt(q)
  BY <1>4, LookUpKeeps, NothingWritten DEF LookUpTxt
<1> QED
  BY <1>1, <1>2, <1>3, <1>4, SaveStatusKeeps, SavePrimaryKeeps, SaveRemovedKeeps DEF DomainStep

-----------------------------------------------------------------------------
(* The steps of links and of the environment leave the arrays as they are *)

LEMMA LinkTyped ==
  ASSUME link \in [Codes -> Link], NEW c,
         \/ \E host \in CustomHosts \cup {NoHost}, owned \in BOOLEAN :
              link' = [link EXCEPT ![c] = [state |-> "active", owned |-> owned, host |-> host]]
         \/ link' = [link EXCEPT ![c].state = "ended"]
         \/ UNCHANGED link
  PROVE  link' \in [Codes -> Link]
<1>1. ASSUME NEW r \in Link PROVE [link EXCEPT ![c] = r] \in [Codes -> Link]
  OBVIOUS
<1>2. ASSUME NEW host \in CustomHosts \cup {NoHost}, NEW owned \in BOOLEAN
      PROVE  [state |-> "active", owned |-> owned, host |-> host] \in Link
  BY DEF Link
<1>3. CASE link' = [link EXCEPT ![c].state = "ended"]
  <2>1. CASE c \in Codes
    <3>1. link[c] \in Link
      BY <2>1
    <3>2. [link[c] EXCEPT !.state = "ended"] \in Link
      BY <3>1 DEF Link
    <3> QED
      BY <1>1, <1>3, <3>2
  <2>2. CASE c \notin Codes
    BY <1>3, <2>2
  <2> QED
    BY <2>1, <2>2
<1> HIDE DEF Link
<1> QED
  BY <1>1, <1>2, <1>3

\* Nothing happens to the requests.
LEMMA RequestsStand ==
  ASSUME DomainInv, UNCHANGED <<request, drawn, writer>>, Advances, VerifiedByItsToken',
         link' \in [Codes -> Link], published' \subseteq Tokens
  PROVE  DomainInv'
BY RequestStands DEF DomainInv, TypeOK, Advances

LEMMA LinkStepHolds ==
  ASSUME DomainInv, NEW q \in Requests, LinkStep(q) \/ RequestDies(q)
  PROVE  DomainInv' /\ KeepsTokens
<1>1. UNCHANGED <<workspace, drawn, published>>
  BY DEF LinkStep, CreateLink, ExpireLink, CountLinks, InsertLink, SaveExpired, RequestDies
<1>2. Advances /\ VerifiedByItsToken' /\ KeepsTokens
  BY <1>1, NothingWritten
<1>3. request[q] \in Request /\ RequestInv(request[q], workspace, published)
  BY DEF DomainInv, TypeOK
<1>4. CASE \E code \in Codes : \E host \in CustomHosts \cup {NoHost} : CreateLink(q, code, host)
  BY <1>2, <1>4, BeginsLinkKeeps DEF CreateLink
<1>5. CASE \E code \in Codes : ExpireLink(q, code)
  BY <1>2, <1>5, BeginsLinkKeeps DEF ExpireLink
<1>6. CASE CountLinks(q) /\ ResolvesPlan(q) /\ writer' = q
  <2> DEFINE r == [request[q] EXCEPT !.at = "inserting", !.plan = workspace.plan]
  <2>1. request' = [request EXCEPT ![q] = r] /\ request[q].at = "creating" /\ UNCHANGED link
    BY <1>6 DEF CountLinks, ResolvesPlan
  <2>2. r \in Request /\ r.at = "inserting" /\ r.host = request[q].host
    BY <1>3, WorkspaceFields DEF Request, DomainInv, TypeOK
  <2>3. RequestInv(r, workspace', published')
    <3> HIDE DEF r
    <3> QED
      BY <1>3, <2>1, <2>2 DEF RequestInv, Holding
  <2> HIDE DEF r
  <2> QED
    BY <1>1, <1>2, <1>6, <2>1, <2>3, RequestSteps DEF DomainInv, TypeOK
<1>7. CASE CountLinks(q) /\ Ends(q) /\ UNCHANGED writer
  BY <1>1, <1>2, <1>7, EndKeeps DEF CountLinks, DomainInv, TypeOK
<1>8. CASE InsertLink(q)
  <2>1. request[q].host \in CustomHosts \cup {NoHost}
    BY <1>3, <1>8 DEF InsertLink, RequestInv
  <2>2. link' \in [Codes -> Link]
    BY <1>8, <2>1, LinkTyped DEF InsertLink, DomainInv, TypeOK
  <2> QED
    BY <1>1, <1>2, <1>8, <2>2, EndKeeps DEF InsertLink, DomainInv, TypeOK
<1>9. CASE SaveExpired(q)
  <2>1. link' \in [Codes -> Link]
    BY <1>9, LinkTyped DEF SaveExpired, DomainInv, TypeOK
  <2> QED
    BY <1>1, <1>2, <1>9, <2>1, EndKeeps DEF SaveExpired, DomainInv, TypeOK
<1>10. CASE RequestDies(q)
  BY <1>1, <1>2, <1>10, EndKeeps DEF RequestDies, DomainInv, TypeOK
<1> QED
  BY <1>4, <1>5, <1>6, <1>7, <1>8, <1>9, <1>10 DEF LinkStep, CountLinks

LEMMA EnvironmentHolds ==
  ASSUME DomainInv,
         \/ \E host \in Hosts : Publish(host)
         \/ \E code \in Codes : CreateGuestLink(code) \/ LinkEnds(code)
         \/ PlanChanges \/ PlanLapses
         \/ UNCHANGED vars
  PROVE  DomainInv' /\ KeepsTokens
<1>1. ASSUME NEW host \in Hosts, Publish(host)
      PROVE  DomainInv' /\ KeepsTokens
  <2>1. /\ UNCHANGED <<workspace, link, drawn, request, writer>>
        /\ \E token \in ShownTokens(host) : published' = published \cup {token}
    BY <1>1 DEF Publish
  <2>2. ShownTokens(host) \subseteq Tokens
    <3>1. workspace.domains[ListOf(host)] \in Seq(Domain)
      BY WorkspaceFields, ListOfHost DEF DomainInv, TypeOK
    <3>2. \A i \in DOMAIN workspace.domains[ListOf(host)] :
            workspace.domains[ListOf(host)][i] \in Domain
      BY <3>1
    <3> QED
      BY <3>2 DEF ShownTokens, Domain
  <2>3. published \subseteq published' /\ published' \subseteq Tokens
    BY <2>1, <2>2 DEF DomainInv, TypeOK
  <2>4. Advances /\ VerifiedByItsToken' /\ KeepsTokens
    BY <2>1, <2>3, WorkspaceFields
       DEF DomainInv, TypeOK, Advances, SameEntries, VerifiedByItsToken, KeepsTokens, TokensOf
  <2> QED
    BY <2>1, <2>3, <2>4, RequestsStand DEF DomainInv, TypeOK
<1>2. ASSUME NEW code \in Codes, CreateGuestLink(code) \/ LinkEnds(code)
      PROVE  DomainInv' /\ KeepsTokens
  <2>1. UNCHANGED <<workspace, drawn, published, request, writer>>
    BY <1>2 DEF CreateGuestLink, LinkEnds
  <2>2. link' \in [Codes -> Link]
    BY <1>2, LinkTyped DEF CreateGuestLink, LinkEnds, DomainInv, TypeOK
  <2> QED
    BY <2>1, <2>2, NothingWritten, RequestsStand DEF DomainInv, TypeOK
<1>3. CASE PlanChanges \/ PlanLapses
  <2>1. PICK p \in Plans : workspace' = [workspace EXCEPT !.plan = p]
    BY <1>3 DEF PlanChanges, PlanLapses
  <2>2. UNCHANGED <<link, drawn, published, request, writer>>
    BY <1>3 DEF PlanChanges, PlanLapses
  <2>3. /\ workspace' \in Workspace
        /\ workspace'.v = workspace.v /\ workspace'.domains = workspace.domains
    BY <2>1 DEF DomainInv, TypeOK, Workspace
  <2>4. Advances /\ VerifiedByItsToken' /\ KeepsTokens
    BY <2>2, <2>3 DEF DomainInv, Advances, SameEntries, VerifiedByItsToken, KeepsTokens, TokensOf
  <2> QED
    BY <2>2, <2>4, RequestsStand DEF DomainInv, TypeOK
<1>4. CASE UNCHANGED vars
  <2>1. UNCHANGED <<workspace, link, drawn, published, request, writer>>
    BY <1>4 DEF vars
  <2> QED
    BY <2>1, NothingWritten, RequestsStand DEF DomainInv, TypeOK
<1> QED
  BY <1>1, <1>2, <1>3, <1>4

LEMMA DomainInitHolds == Init => DomainInv
<1> SUFFICES ASSUME Init PROVE DomainInv
  OBVIOUS
<1>1. /\ workspace \in Workspace
      /\ \A kind \in Lists : workspace.domains[kind] = <<>>
  <2>1. [kind \in Lists |-> <<>>] \in [Lists -> Seq(Domain)]
    OBVIOUS
  <2>2. PICK p \in Plans : workspace = [plan |-> p, domains |-> [kind \in Lists |-> <<>>], v |-> 0]
    BY DEF Init
  <2> DEFINE d == [kind \in Lists |-> <<>>]
  <2>3. \A kind \in Lists : d[kind] = <<>>
    OBVIOUS
  <2> HIDE DEF d
  <2> QED
    BY <2>1, <2>2, <2>3 DEF Workspace, d
<1>2. VerifiedByItsToken
  BY <1>1 DEF VerifiedByItsToken
<1>3. link \in [Codes -> Link]
  BY DEF Init, Link
<1>4. request = [q \in Requests |-> IdleRequest]
  BY DEF Init
<1>5. RequestInv(IdleRequest, workspace, published)
  BY IdleRequestInv
<1>6. \A q \in Requests : RequestInv(request[q], workspace, published)
  BY <1>4, <1>5
<1>7. request \in [Requests -> Request]
  <2>1. IdleRequest \in Request
    BY <1>5 DEF RequestInv
  <2> HIDE DEF IdleRequest
  <2> QED
    BY <1>4, <2>1
<1>8. drawn \in 0..MaxTokens /\ published \subseteq Tokens /\ writer \in Requests \cup {None}
  BY DEF Init
<1> QED
  BY <1>1, <1>2, <1>3, <1>6, <1>7, <1>8 DEF DomainInv, TypeOK

LEMMA DomainInductive ==
  ASSUME DomainInv, [Next]_vars
  PROVE  /\ DomainInv'
         /\ KeepsTokens \/ \E q \in Requests : SaveRemoved(q)
BY DomainStepHolds, LinkStepHolds, EnvironmentHolds DEF Next

-----------------------------------------------------------------------------
(* The theorems about domains *)

\* The inductive invariant: what every request may rely on when it saves the copy it read
\* (workspaceController.js) holds in every state.
THEOREM DomainsInvariant == Spec => []DomainInv
<1>1. DomainInv /\ [Next]_vars => DomainInv'
  BY DomainInductive
<1> QED
  BY DomainInitHolds, <1>1, PTL DEF Spec

\* The documents, the copies that requests hold and the tokens keep their types; no entry
\* gets a token that was not drawn for it.
THEOREM TypeCorrect == Spec => []TypeOK
<1>1. DomainInv => TypeOK
  BY DEF DomainInv
<1> QED
  BY DomainsInvariant, <1>1, PTL

(***************************************************************************)
(* A domain is verified only while the token of its own entry is           *)
(* published (verifyCustomDomain, verifyManagedEmailDomain): the DNS       *)
(* lookup may return after entries were removed and added anew, and its    *)
(* save marks no other entry.                                              *)
(***************************************************************************)
THEOREM VerificationIsProven == Spec => []VerifiedByItsToken
<1>1. DomainInv => VerifiedByItsToken
  BY DEF DomainInv
<1> QED
  BY DomainsInvariant, <1>1, PTL

(***************************************************************************)
(* A connected domain leaves its array only when a request removes that    *)
(* hostname (removeCustomDomain, removeManagedEmailDomain), never by the   *)
(* save of a handler that read the workspace before the domain came.       *)
(***************************************************************************)
THEOREM DomainsAreKept == Spec => NoDomainLost
<1> DEFINE Kept ==
      \A kind \in Lists : \A i \in DOMAIN workspace.domains[kind] :
        workspace.domains[kind][i].token \notin TokensOf(kind)' =>
          \E q \in Requests : /\ request[q].at = "removing"
                              /\ request[q].host = workspace.domains[kind][i].host
<1>1. ASSUME DomainInv, [Next]_vars PROVE DomainInv'
  BY <1>1, DomainInductive
<1>2. ASSUME DomainInv, [Next]_vars PROVE Kept
  <2>1. CASE KeepsTokens
    BY <2>1 DEF KeepsTokens, TokensOf
  <2>2. ASSUME NEW q \in Requests, SaveRemoved(q)
        PROVE  Kept
    BY <1>2, <2>2, SaveRemovedKeeps DEF SaveRemoved
  <2> QED
    BY <1>2, <2>1, <2>2, DomainInductive
<1>3. Spec => [][Kept]_vars
  BY <1>1, <1>2, DomainInitHolds, PTL DEF Spec
<1> QED
  BY <1>3 DEF NoDomainLost
=============================================================================
